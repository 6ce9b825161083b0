---------------------------- MODULE TransferJob ----------------------------
(***************************************************************************)
(* The TransferManager's view of one transfer at each of its two ends:     *)
(* the status shown to the user, the entry in `jobs` with the flags of its *)
(* JobControl, the entry in `pending_decisions`, and the calls a user can  *)
(* make.  Each end is a process of its own with a manager of its own.      *)
(*                                                                         *)
(* pause, resume and cancel act twice: first on the JobControl, then, after*)
(* an await, on the status.  `op` holds the half that is still to come, so *)
(* the transfer's task can run in between.                                 *)
(***************************************************************************)
EXTENDS TransferStatus

CONSTANT UserOps        \* the calls users make, a subset of AllUserOps

AllUserOps == {"pause", "resume", "cancel", "accept", "reject", "shutdown"}

ASSUME UserOpsAssumption == UserOps \subseteq AllUserOps

Ends == {"sender", "receiver"}
Peer(e) == IF e = "sender" THEN "receiver" ELSE "sender"

VARIABLES
  status,      \* [Ends -> Status or "Absent" before the transfer is listed]
  jobs,        \* the ends where the transfer has an entry in `jobs`
  paused,      \* the ends whose JobControl is paused
  cancelled,   \* the ends whose JobControl is cancelled
  stopping,    \* the ends whose manager is stopping
  op,          \* [Ends -> {"none", "pause", "resume", "cancel"}]
  pending,     \* the receiver's request is in `pending_decisions`
  decision,    \* what was sent on the decision channel
  automatic    \* the sender is paired and its policy is Automatic

jobVars ==
  <<status, jobs, paused, cancelled, stopping, op, pending, decision,
    automatic>>

JobTypeOK ==
  /\ status \in [Ends -> Status \union {"Absent"}]
  /\ jobs \subseteq Ends
  /\ paused \subseteq Ends
  /\ cancelled \subseteq Ends
  /\ stopping \subseteq Ends
  /\ op \in [Ends -> {"none", "pause", "resume", "cancel"}]
  /\ pending \in BOOLEAN
  /\ decision \in {"none", "accept", "reject", "cancel"}
  /\ automatic \in BOOLEAN

JobInit ==
  /\ status = [e \in Ends |-> "Absent"]
  /\ jobs = {}
  /\ paused = {}
  /\ cancelled = {}
  /\ stopping = {}
  /\ op = [e \in Ends |-> "none"]
  /\ pending = FALSE
  /\ decision = "none"
  /\ automatic = FALSE

-----------------------------------------------------------------------------
(* The manager's changes of the status.                                    *)

SetStatus(e, s) == status' = [status EXCEPT ![e] = s]

\* Mutation: the status is assigned without asking whether it may be.
UncheckedTransition(e, s) == SetStatus(e, s)

\* transition(id, s) ignoring its result: an illegal change changes nothing.
TryTransition(e, s) ==
  SetStatus(e, IF CanTransition(status[e], s) THEN s ELSE status[e])

\* fail_transfer: Failed, unless the transfer is unlisted or already over.
FailTransfer(e) == TryTransition(e, "Failed")

\* Mutation: the finished job stays in `jobs`.
KeepJob(e) == UNCHANGED <<jobs, paused, cancelled>>

\* JobControl::cancel, if the job is still there.
CancelJob(e) ==
  cancelled' = cancelled \union ({e} \intersect jobs)

\* The job leaves `jobs` when nothing will look at its control again.
DropJob(e) ==
  /\ jobs' = jobs \ {e}
  /\ paused' = paused \ {e}
  /\ cancelled' = cancelled \ {e}

\* wait_ready lets a file task go on.
Ready(e) == e \notin paused /\ e \notin cancelled

-----------------------------------------------------------------------------
(* The users' calls.  `listening` says whether the receiver's task still   *)
(* holds its end of the decision channel: an answer that comes later only  *)
(* removes the pending request.                                            *)

Answer(d, listening) ==
  /\ pending' = FALSE
  /\ decision' = IF listening THEN d ELSE decision

RespondIncoming(d, listening) ==
  /\ d \in UserOps \intersect {"accept", "reject"}
  /\ pending
  /\ Answer(d, listening)
  /\ UNCHANGED <<status, jobs, paused, cancelled, stopping, op, automatic>>

Pause(e) ==
  /\ "pause" \in UserOps
  /\ op[e] = "none"
  /\ e \in jobs
  /\ paused' = paused \union {e}
  /\ op' = [op EXCEPT ![e] = "pause"]
  /\ UNCHANGED <<status, jobs, cancelled, stopping, pending, decision,
                 automatic>>

Resume(e) ==
  /\ "resume" \in UserOps
  /\ op[e] = "none"
  /\ e \in jobs
  /\ paused' = paused \ {e}
  /\ op' = [op EXCEPT ![e] = "resume"]
  /\ UNCHANGED <<status, jobs, cancelled, stopping, pending, decision,
                 automatic>>

\* cancel answers an unanswered request, and only otherwise cancels the job.
\* (Without a job and an active status it would change nothing.)
Cancel(e, listening) ==
  /\ "cancel" \in UserOps
  /\ op[e] = "none"
  /\ status[e] \notin Terminal \union {"Absent"} \/ e \in jobs
  /\ op' = [op EXCEPT ![e] = "cancel"]
  /\ IF e = "receiver" /\ pending
       THEN Answer("cancel", listening) /\ UNCHANGED cancelled
       ELSE /\ CancelJob(e)
            /\ UNCHANGED <<pending, decision>>
  /\ UNCHANGED <<status, jobs, paused, stopping, automatic>>

\* The second half of pause, resume and cancel: the status transition, whose
\* failure is reported to the caller and changes nothing.
FinishOp(e) ==
  /\ \/ op[e] = "pause" /\ TryTransition(e, "Paused")
     \/ op[e] = "resume" /\ TryTransition(e, "Transferring")
     \/ op[e] = "cancel" /\ TryTransition(e, "Cancelled")
  /\ op' = [op EXCEPT ![e] = "none"]
  /\ UNCHANGED <<jobs, paused, cancelled, stopping, pending, decision,
                 automatic>>

\* shutdown raises `stopping` and then cancels every job it finds.
Shutdown(e) ==
  /\ "shutdown" \in UserOps
  /\ e \notin stopping
  /\ stopping' = stopping \union {e}
  /\ CancelJob(e)
  /\ UNCHANGED <<status, jobs, paused, op, pending, decision,
                 automatic>>

=============================================================================
