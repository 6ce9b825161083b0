----------------------------- MODULE ReceiverTask -----------------------------
(***************************************************************************)
(* The receiving half of a transfer: the router accepts the offer stream   *)
(* (src/src/infrastructure/quic/router.rs:51-121) and runs the incoming    *)
(* offer to its end (src/src/infrastructure/quic/receiver.rs:3-304): list  *)
(* the request, obtain a decision, refuse or grant, receive, report.       *)
(***************************************************************************)
EXTENDS ControlStream

ReceiverPC ==
  {"idle", "offer", "push", "decide", "refuse", "refused", "grant",
   "accepted", "receive", "completed"} \union Leaving

ReceiverGuarded == ReceiverPC \ ({"idle"} \union Leaving)

\* The task holds the receiving end of the decision channel.
Listening == pc["receiver"] \in {"push", "decide"}

\* The receiver agreed to this transfer, by policy or by its user.
Consent == automatic \/ decision = "accept"

ReceiverKeeps == <<cancelled, paused, stopping, op, stage>>

AcceptOffer ==
  /\ pc["receiver"] = "idle"
  /\ HasStream
  /\ result["sender"] = "ok" \/ fin["sender"] # "open"
  /\ "receiver" \notin stopping
  /\ \/ /\ jobs' = jobs \union {"receiver"}
        /\ GoTo("receiver", "offer")
        /\ UNCHANGED fin
     \/ /\ "busy" \in Faults    \* reject(), or the session's checks fail
        /\ \E how \in {"failed", "finished"} : fin' = [fin EXCEPT !["receiver"] = how]
        /\ GoTo("receiver", "ended")
        /\ UNCHANGED jobs
  /\ UNCHANGED <<ReceiverKeeps, status, pending, decision, wire, lost, result,
                 automatic>>

\* A request that is not accepted by policy is made answerable, then listed.
ReadOffer ==
  /\ pc["receiver"] = "offer"
  /\ Read("receiver", "offer")
  /\ automatic' \in BOOLEAN
  /\ pending' = ~automatic'
  /\ GoTo("receiver", "push")
  /\ UNCHANGED <<ReceiverKeeps, status, jobs, decision, fin, lost, result>>

PushIncoming ==
  /\ pc["receiver"] = "push"
  /\ SetStatus("receiver",
               IF automatic THEN "Connecting" ELSE "AwaitingApproval")
  /\ GoTo("receiver", "decide")
  /\ UNCHANGED <<ReceiverKeeps, jobs, pending, decision, streamVars, result,
                 automatic>>

\* Mutation: any answer counts as a yes.
AnyAnswer == automatic \/ decision # "none"

Accepted == Consent

\* Consent leads to the grants, unless space is lacking or, on the manual
\* path, the status no longer allows it.
AcceptDecision ==
  /\ pc["receiver"] = "decide"
  /\ Accepted
  /\ \/ /\ IF automatic
             THEN GoTo("receiver", "grant") /\ UNCHANGED <<status, result>>
             ELSE TransitionOrFail("receiver", "Connecting", "grant")
     \/ /\ "full" \in Faults
        /\ GoTo("receiver", "refuse")
        /\ UNCHANGED <<status, result>>
  /\ UNCHANGED <<ReceiverKeeps, jobs, pending, decision, streamVars, automatic>>

\* The user said no, or OFFER_TIMEOUT ran out, which counts as a rejection and
\* leaves the request in pending_decisions.
RefuseDecision ==
  /\ pc["receiver"] = "decide"
  /\ ~automatic
  /\ \/ decision \in {"reject", "cancel"} /\ UNCHANGED decision
     \/ decision = "none" /\ decision' = "reject"
  /\ GoTo("receiver", "refuse")
  /\ UNCHANGED <<ReceiverKeeps, status, jobs, pending, streamVars, result,
                 automatic>>

WriteRefusal ==
  /\ pc["receiver"] = "refuse"
  /\ Write("receiver", IF decision = "cancel" THEN "cancelled" ELSE "refused")
  /\ GoTo("receiver", "refused")
  /\ UNCHANGED <<ReceiverKeeps, status, jobs, pending, decision, fin, lost,
                 result, automatic>>

\* Lack of space fails the transfer, a decision sets the status it stands for;
\* the job leaves `jobs` unless the status refuses.
SettleRefusal ==
  LET s == IF Consent THEN "Failed"
           ELSE IF decision = "cancel" THEN "Cancelled" ELSE "Rejected"
      settled == Consent \/ CanTransition(status["receiver"], s)
  IN  /\ pc["receiver"] = "refused"
      /\ TryTransition("receiver", s)
      /\ Leave("receiver", IF settled THEN "ok" ELSE "failed")
      /\ IF settled THEN DropJob("receiver")
                    ELSE UNCHANGED <<jobs, paused, cancelled>>
      /\ UNCHANGED <<stopping, op, stage, pending, decision, streamVars,
                     automatic>>

\* The route for the file streams is registered before the accept is written.
WriteAccept ==
  /\ pc["receiver"] = "grant"
  /\ Write("receiver", "accept")
  /\ GoTo("receiver", "accepted")
  /\ UNCHANGED <<ReceiverKeeps, status, jobs, pending, decision, fin, lost,
                 result, automatic>>

StartReceiving ==
  /\ pc["receiver"] = "accepted"
  /\ TransitionOrFail("receiver", "Transferring", "receive")
  /\ UNCHANGED <<ReceiverKeeps, jobs, pending, decision, streamVars, automatic>>

\* Mutation: the files are not waited for.
NoJoin == TRUE

\* receive_files has joined every file's task.
JoinAll == \A f \in Files : stage[f] \in {"answered", "acked"}

AllReceived ==
  /\ pc["receiver"] = "receive"
  /\ JoinAll
  /\ TransitionOrFail("receiver", "Completed", "completed")
  /\ UNCHANGED <<ReceiverKeeps, jobs, pending, decision, streamVars, automatic>>

WriteCompletion ==
  /\ pc["receiver"] = "completed"
  /\ Write("receiver", "complete")
  /\ Leave("receiver", "ok")
  /\ UNCHANGED <<ReceiverKeeps, status, jobs, pending, decision, fin, lost,
                 automatic>>

-----------------------------------------------------------------------------
(* Leaving early.                                                          *)

ReceiverInterrupted ==
  /\ pc["receiver"] \in ReceiverGuarded
  /\ Interrupted("receiver")
  /\ Leave("receiver", "cancelled")
  /\ UNCHANGED <<ReceiverKeeps, status, jobs, pending, decision, streamVars,
                 automatic>>

\* peer_stopped watches the sender's half while the task waits for a decision
\* or for files; other awaits end by a failing read, write or timer.
ReceiverBroken ==
  /\ \/ /\ \/ pc["receiver"] \in {"offer", "receive"}
           \/ pc["receiver"] = "decide" /\ ~automatic
        /\ \E r \in ReadErrors("receiver") : Leave("receiver", r)
     \/ /\ \/ pc["receiver"] \in {"refuse", "grant", "completed"}
              /\ WriteFails("receiver")
           \/ pc["receiver"] = "offer" /\ Overdue("receiver")
           \/ pc["receiver"] = "decide" /\ Consent /\ "io" \in Faults
        /\ Leave("receiver", "failed")
  /\ UNCHANGED <<ReceiverKeeps, status, jobs, pending, decision, streamVars,
                 automatic>>

CleanupReceiver ==
  /\ pc["receiver"] = "cleanup"
  /\ pending' = FALSE
  /\ DropJob("receiver")
  /\ GoTo("receiver", "settle")
  /\ UNCHANGED <<stopping, op, stage, status, decision, streamVars, result,
                 automatic>>

SettleReceiver ==
  /\ pc["receiver"] = "settle"
  /\ IF result["receiver"] = "ok" THEN UNCHANGED status
     ELSE IF result["receiver"] = "cancelled"
       THEN TryTransition("receiver", "Cancelled")
       ELSE FailTransfer("receiver")
  /\ GoTo("receiver", "reset")
  /\ UNCHANGED <<ReceiverKeeps, jobs, pending, decision, streamVars, result,
                 automatic>>

ResetReceiver ==
  /\ pc["receiver"] = "reset"
  /\ Close("receiver")
  /\ GoTo("receiver", "ended")
  /\ UNCHANGED <<ReceiverKeeps, status, jobs, pending, decision, lost, result,
                 automatic>>

ReceiverStep ==
  \/ AcceptOffer \/ ReadOffer \/ PushIncoming \/ AcceptDecision
  \/ RefuseDecision \/ WriteRefusal \/ SettleRefusal \/ WriteAccept
  \/ StartReceiving \/ AllReceived \/ WriteCompletion
  \/ ReceiverInterrupted \/ ReceiverBroken
  \/ CleanupReceiver \/ SettleReceiver \/ ResetReceiver

=============================================================================
