------------------------------ MODULE Transfer ------------------------------
(***************************************************************************)
(* A file transfer from this device to a folder of another one             *)
(* (node/src/mesh.rs file_transfer_start) and its record in the operations *)
(* log (node/src/operations.rs).  The sent items are copied into a hidden  *)
(* staging folder next to their destination and then renamed one by one.   *)
(*                                                                         *)
(* The transfer's task, the cancel command, the node's restart and other   *)
(* writers of the destination interleave.  A request to the other device   *)
(* is one step with one of four outcomes: done, refused, or no answer in   *)
(* time, whether the request was carried out or not.  A write of the log   *)
(* is done, or fails and leaves the log as it was.                         *)
(***************************************************************************)
EXTENDS Naturals, Sequences

CONSTANTS Items,        \* how many items are sent, 1 .. Items in their order
          MaxTroubles   \* bound: refusals, lost answers, failed writes of the log, restarts
                        \* and names taken by others

ASSUME TransferAssumption == Items \in Nat \ {0} /\ MaxTroubles \in Nat

VARIABLES op,        \* OperationRecord::phase, "none" without a record
          attempt,   \* is the record's worker attempt open?
          job,       \* file_transfer_jobs: is the transfer active?
          cancel,    \* the job's cancellation flag
          cancelling,\* a cancel command between its flag and the record
          step,      \* what the task does next
          at,        \* the item it works at
          outcome,   \* what it will report, or reported last
          area,      \* is the staging folder there?
          staged,    \* the items in it
          placed,    \* the items renamed to the destination
          taken,     \* the names others have at the destination
          doubt,     \* did a rename go unanswered, or the node restart on an open commit?
          troubles

transferVars == <<op, attempt, job, cancel, cancelling, step, at, outcome, area, staged,
                  placed, taken, doubt, troubles>>

Item == 1 .. Items

Working == {"staging", "transferring", "verifying", "committing", "cancelling"}
Finished   == {"complete", "failed", "cancelled"}
Phase   == Working \cup Finished

Step == {"idle", "insert", "review", "stage", "begin", "upload", "verify", "recheck",
         "publish", "rename", "rollback", "clean", "close", "record"}

\* attention: the error asks the user to look at what the rollback left behind.
Outcome == {"none", "ok", "cancelled", "failed", "attention"}

TransferTypeOK ==
    /\ op \in Phase \cup {"none"} /\ step \in Step /\ outcome \in Outcome
    /\ at \in 0 .. Items + 1
    /\ attempt \in BOOLEAN /\ job \in BOOLEAN /\ cancel \in BOOLEAN /\ cancelling \in BOOLEAN
    /\ area \in BOOLEAN /\ doubt \in BOOLEAN
    /\ staged \subseteq Item /\ placed \subseteq Item /\ taken \subseteq Item
    /\ staged \cap placed = {} /\ placed \cap taken = {} /\ (staged # {} => area)
    /\ job <=> step \notin {"idle", "record"}
    /\ attempt => op # "none"
    /\ troubles \in 0 .. MaxTroubles

TransferInit ==
    /\ op = "none" /\ attempt = FALSE
    /\ job = FALSE /\ cancel = FALSE /\ cancelling = FALSE
    /\ step = "idle" /\ at = 1 /\ outcome = "none"
    /\ area = FALSE /\ staged = {} /\ placed = {} /\ taken = {}
    /\ doubt = FALSE /\ troubles = 0

Trouble == troubles < MaxTroubles /\ troubles' = troubles + 1

-----------------------------------------------------------------------------
(* The record. *)

\* OperationPhase::permits, for the phases a transfer takes.
Permits(next) ==
    \/ op = next
    \/ op = "staging"      /\ next \in {"transferring", "cancelling", "failed"}
    \/ op = "transferring" /\ next \in {"verifying", "committing", "cancelling", "failed"}
    \/ op = "verifying"    /\ next \in {"committing", "cancelling", "failed"}
    \/ op = "committing"   /\ next \in {"complete", "failed"}
    \/ op = "cancelling"   /\ next \in {"cancelled", "failed"}

\* update_transfer: a transition that is not permitted leaves the record as it is.
SetPhase(next) == op' = IF Permits(next) THEN next ELSE op

-----------------------------------------------------------------------------
(* The task: what is left alone by the steps that work at the destination. *)

RecordSame == UNCHANGED <<op, attempt, job, cancel, cancelling>>

Goes(next, ends) == /\ step' = next /\ outcome' = ends /\ UNCHANGED at

\* A request whose effect at the destination is `effect': carried out and answered,
\* refused, or unanswered.
Answered(effect) == effect /\ UNCHANGED <<doubt, troubles>>
Fails(effect, same, mayMove) ==
    /\ Trouble
    /\ \/ same /\ UNCHANGED doubt
       \/ (same \/ effect) /\ doubt' = (doubt \/ mayMove)

\* begin_file_transfer_job
StartTransfer ==
    /\ step = "idle" /\ ~job
    /\ job' = TRUE /\ cancel' = FALSE
    /\ step' = "insert" /\ at' = 1
    /\ UNCHANGED <<op, attempt, cancelling, outcome, area, staged, placed, taken, doubt, troubles>>

\* set_file_operation, which a record of that id refuses, and begin_attempt.  Without an
\* attempt the record is failed, if that can be written.
InsertRecord ==
    /\ step = "insert"
    /\ \/ /\ op = "none" /\ op' = "staging" /\ attempt' = TRUE
          /\ step' = "review" /\ outcome' = "none" /\ UNCHANGED <<job, troubles>>
       \/ /\ step' = "idle" /\ job' = FALSE
          /\ \/ op # "none" /\ UNCHANGED <<op, attempt, outcome, troubles>>
             \/ /\ op = "none" /\ Trouble
                /\ op' \in {"none", "staging", "failed"}
                /\ outcome' = "none" /\ UNCHANGED attempt
    /\ UNCHANGED <<cancel, cancelling, at, area, staged, placed, taken, doubt>>

\* The names are free, and so is the staging folder's.
Review ==
    /\ step = "review"
    /\ \/ taken \cup placed = {} /\ ~area /\ Goes("stage", outcome) /\ UNCHANGED troubles
       \/ /\ taken \cup placed # {} \/ area
          /\ Goes("close", "failed") /\ UNCHANGED troubles
       \/ Trouble /\ Goes("close", "failed")
    /\ RecordSame /\ UNCHANGED <<area, staged, placed, taken, doubt>>

\* Mkdir of the staging folder; a failure here and in Begin returns past the cleanup.
Stage ==
    /\ step = "stage"
    /\ \/ Goes("begin", outcome) /\ Answered(area' = TRUE)
       \/ Goes("close", "failed") /\ Fails(area' = TRUE, area' = area, FALSE)
    /\ RecordSame /\ UNCHANGED <<staged, placed, taken>>

\* advance_file_operation: not once cancellation is asked for, nor when the record has
\* moved on, nor past a phase that cannot be written.
Advances(phase, next, begins, stops) ==
    /\ \/ cancel /\ Goes(stops, "cancelled") /\ UNCHANGED <<op, troubles>>
       \/ /\ ~cancel /\ Permits(phase) /\ op' = phase /\ UNCHANGED <<outcome, troubles>>
          /\ step' = next /\ at' = begins
       \/ /\ ~cancel /\ (Trouble \/ (~Permits(phase) /\ UNCHANGED troubles))
          /\ Goes(stops, "failed") /\ UNCHANGED op
    /\ UNCHANGED <<attempt, job, cancel, cancelling, area, staged, placed, taken, doubt>>

Begin == step = "begin" /\ Advances("transferring", "upload", at, "close")

\* transfer_upload_file of the next item, and the progress it is written down with.
Upload ==
    /\ step = "upload" /\ at \in Item
    /\ \/ /\ cancel
          /\ Goes("clean", "cancelled")
          /\ UNCHANGED <<staged, doubt, troubles>>
       \/ /\ ~cancel
          /\ step' = IF at = Items THEN "verify" ELSE "upload"
          /\ at' = at + 1 /\ UNCHANGED outcome
          /\ Answered(staged' = staged \cup {at})
       \/ /\ Goes("clean", "failed")
          /\ Fails(staged' = staged \cup {at}, staged' = staged, FALSE)
    /\ RecordSame /\ UNCHANGED <<area, placed, taken>>

\* The last progress cannot be written, whether or not somebody cancels.
ProgressFails ==
    /\ Trouble /\ Goes("clean", "failed")
    /\ RecordSame /\ UNCHANGED <<area, staged, placed, taken, doubt>>

Verify == step = "verify" /\ (Advances("verifying", "recheck", at, "clean") \/ ProgressFails)

\* The sources are as they were reviewed, nobody cancelled, the names are still free.
Recheck ==
    /\ step = "recheck"
    /\ \/ cancel /\ Goes("clean", "cancelled") /\ UNCHANGED troubles
       \/ ~cancel /\ taken = {} /\ Goes("publish", outcome) /\ UNCHANGED troubles
       \/ ~cancel /\ taken # {} /\ Goes("clean", "failed") /\ UNCHANGED troubles
       \/ Trouble /\ Goes("clean", "failed")
    /\ RecordSame /\ UNCHANGED <<area, staged, placed, taken, doubt>>

Publish == step = "publish" /\ Advances("committing", "rename", 1, "clean")

-----------------------------------------------------------------------------
(* The commit. *)

Moves == staged' = staged \ {at} /\ placed' = placed \cup {at}
Stays == UNCHANGED <<staged, placed>>

\* mutant: a cancellation stops the commit where it is.
RenameOrCancel ==
    /\ step = "rename" /\ at \in Item
    /\ \/ /\ cancel /\ Goes("clean", "cancelled") /\ Stays /\ UNCHANGED <<doubt, troubles>>
       \/ /\ ~cancel /\ at \notin taken
          /\ step' = IF at = Items THEN "clean" ELSE "rename"
          /\ outcome' = IF at = Items THEN "ok" ELSE outcome
          /\ at' = at + 1
          /\ Answered(Moves)
    /\ RecordSame /\ UNCHANGED <<area, taken>>

\* The rename of one item; if it fails the items before it go back, last first.
Rename ==
    /\ step = "rename" /\ at \in Item
    /\ \/ /\ at \notin taken
          /\ step' = IF at = Items THEN "clean" ELSE "rename"
          /\ outcome' = IF at = Items THEN "ok" ELSE outcome
          /\ at' = at + 1
          /\ Answered(Moves)
       \/ /\ at \in taken
          /\ Stays /\ step' = "rollback" /\ at' = at - 1 /\ outcome' = "failed"
          /\ UNCHANGED <<doubt, troubles>>
       \/ /\ step' = "rollback" /\ at' = at - 1 /\ outcome' = "failed"
          /\ Fails(Moves /\ at \notin taken, Stays, TRUE)
    /\ RecordSame /\ UNCHANGED <<area, taken>>

\* mutant: a copy instead of a move.
ReturnsCopy == staged' = staged \cup {at} /\ UNCHANGED placed

Returns == staged' = staged \cup {at} /\ placed' = placed \ {at}

Rollback ==
    /\ step = "rollback"
    /\ \/ /\ at = 0
          /\ Goes(IF outcome = "attention" THEN "close" ELSE "clean", outcome)
          /\ Stays /\ UNCHANGED <<doubt, troubles>>
       \/ /\ at \in Item
          /\ at' = at - 1 /\ UNCHANGED <<step, outcome>>
          /\ Answered(Returns)
       \/ /\ at \in Item
          /\ at' = at - 1 /\ outcome' = "attention" /\ UNCHANGED step
          /\ Fails(Returns, Stays, FALSE)
    /\ RecordSame /\ UNCHANGED <<area, taken>>

\* The staging folder is deleted with what is in it; nobody looks at the answer.
Clean ==
    /\ step = "clean"
    /\ Goes("close", outcome)
    /\ \/ area' = FALSE /\ staged' = {} /\ UNCHANGED troubles
       \/ Trouble /\ UNCHANGED <<area, staged>>
    /\ RecordSame /\ UNCHANGED <<placed, taken, doubt>>

\* finish_file_transfer_job
Close ==
    /\ step = "close"
    /\ step' = "record" /\ job' = FALSE
    /\ UNCHANGED <<op, attempt, cancel, cancelling, at, outcome, area, staged, placed, taken,
                   doubt, troubles>>

\* "attention" is an error text of a failed record.
LastPhase == CASE outcome = "ok" -> "complete"
               [] outcome = "cancelled" -> "cancelled"
               [] OTHER -> "failed"

\* finish_attempt and the terminal phase: the task ends, whichever of the two is written.
RecordOutcome ==
    /\ step = "record" /\ step' = "idle"
    /\ \/ attempt' = FALSE /\ SetPhase(LastPhase) /\ UNCHANGED troubles
       \/ /\ Trouble
          /\ attempt' \in {attempt, FALSE} /\ (SetPhase(LastPhase) \/ UNCHANGED op)
    /\ UNCHANGED <<job, cancel, cancelling, at, outcome, area, staged, placed, taken, doubt>>

-----------------------------------------------------------------------------
(* The user, the node, other writers. *)

\* file_transfer_cancel: the flag first, then the record.
AskCancel ==
    /\ job /\ ~cancelling
    /\ cancel' = TRUE /\ cancelling' = TRUE
    /\ UNCHANGED <<op, attempt, job, step, at, outcome, area, staged, placed, taken, doubt, troubles>>

MarkCancelling ==
    /\ cancelling /\ cancelling' = FALSE
    /\ \/ SetPhase("cancelling") /\ UNCHANGED troubles
       \/ Trouble /\ UNCHANGED op
    /\ UNCHANGED <<attempt, job, cancel, step, at, outcome, area, staged, placed, taken, doubt>>

\* The record is dismissed; the next transfer has an id and a staging folder of its own.
Dismiss ==
    /\ op \in Finished /\ step = "idle" /\ ~cancelling
    /\ op' = "none" /\ attempt' = FALSE
    /\ area' = FALSE /\ staged' = {} /\ placed' = {} /\ taken' = taken \cup placed
    /\ outcome' = "none" /\ doubt' = FALSE
    /\ UNCHANGED <<job, cancel, cancelling, step, at, troubles>>

\* The node restarts; open() ends what was unfinished.
RestartNode ==
    /\ Trouble
    /\ op' = IF op \in Working THEN "failed" ELSE op
    /\ attempt' = FALSE /\ job' = FALSE /\ cancel' = FALSE /\ cancelling' = FALSE
    /\ step' = "idle" /\ at' = 1
    /\ outcome' = IF op \in Working THEN "none" ELSE outcome
    /\ doubt' = (doubt \/ op = "committing")
    /\ UNCHANGED <<area, staged, placed, taken>>

\* Somebody else makes or removes an entry of that name.
OthersWrite(i) ==
    /\ \/ i \notin placed \cup taken /\ Trouble /\ taken' = taken \cup {i}
       \/ i \in taken /\ taken' = taken \ {i} /\ UNCHANGED troubles
    /\ UNCHANGED <<op, attempt, job, cancel, cancelling, step, at, outcome, area, staged,
                   placed, doubt>>

-----------------------------------------------------------------------------
TransferNext ==
    \/ StartTransfer \/ InsertRecord \/ Review \/ Stage \/ Begin \/ Upload \/ Verify
    \/ Recheck \/ Publish \/ Rename \/ Rollback \/ Clean \/ Close \/ RecordOutcome
    \/ AskCancel \/ MarkCancelling \/ Dismiss
    \/ RestartNode
    \/ \E i \in Item : OthersWrite(i)

TransferSpec == TransferInit /\ [][TransferNext]_transferVars

-----------------------------------------------------------------------------
\* Once the task is gone the destination has everything or nothing, or the error asks for
\* attention, and a finished record says which - wherever a cancellation falls, a request
\* is refused, a name is taken or a write of the log fails.  A record that could not be
\* finished says of what was placed at least that it was being committed.  Only a rename
\* whose answer was lost and a restart on an open commit leave it open
\* (file_transfer_start against file_transfer_cancel).
OutcomeIsTrue ==
    (step = "idle" /\ op # "none" /\ ~doubt) =>
        \/ /\ placed = Item /\ op \in {"committing", "complete"}
        \/ /\ placed = {} /\ op # "complete"
        \/ outcome = "attention" /\ op \in {"committing", "failed"}

=============================================================================
