------------------------------ MODULE SenderTask ------------------------------
(***************************************************************************)
(* The sending half of a transfer: TransferManager::send_files and the task*)
(* it spawns (src/src/application/manager.rs:397-465), which prepares the  *)
(* files, connects, offers them and waits for the answer                   *)
(* (src/src/infrastructure/quic.rs:155-360).  The files' own streams are in*)
(* FileStreams.                                                            *)
(***************************************************************************)
EXTENDS ControlStream

SenderPC ==
  {"idle", "begun", "inserted", "prepare", "connect", "offer", "offered",
   "await", "accepted", "transfer", "finish"} \union Leaving

\* Where the task runs under the select! on cancellation and shutdown.
SenderGuarded ==
  {"prepare", "offer", "offered", "await", "accepted", "transfer"}

\* Leave without a stream to close.
SenderAbort(r) ==
  /\ result' = [result EXCEPT !["sender"] = r]
  /\ GoTo("sender", "settle")

\* Once the control stream is open it has to be reset on the way out.
SenderExit(r) == IF HasStream THEN Leave("sender", r) ELSE SenderAbort(r)

SenderKeeps ==
  <<cancelled, paused, stopping, op, pending, decision, automatic, stage>>

\* The call looks for a shutdown once, before it has looked at files and peers.
\* One that fails there lists nothing and is left out.
CheckRunning ==
  /\ pc["sender"] = "idle"
  /\ "sender" \notin stopping
  /\ GoTo("sender", "begun")
  /\ UNCHANGED <<SenderKeeps, status, jobs, streamVars, result>>

\* The transfer is listed before its job exists.
InsertPreparing ==
  /\ pc["sender"] = "begun"
  /\ SetStatus("sender", "Preparing")
  /\ GoTo("sender", "inserted")
  /\ UNCHANGED <<SenderKeeps, jobs, streamVars, result>>

RegisterSender ==
  /\ pc["sender"] = "inserted"
  /\ jobs' = jobs \union {"sender"}
  /\ GoTo("sender", "prepare")
  /\ UNCHANGED <<SenderKeeps, status, streamVars, result>>

FilesPrepared ==
  /\ pc["sender"] = "prepare"
  /\ IF CanTransition(status["sender"], "Connecting")
       THEN /\ SetStatus("sender", "Connecting")
            /\ GoTo("sender", "connect")
            /\ UNCHANGED result
       ELSE SenderAbort("failed") /\ UNCHANGED status
  /\ UNCHANGED <<SenderKeeps, jobs, streamVars>>

SetupFails ==
  /\ \/ pc["sender"] = "prepare" /\ "io" \in Faults
     \/ pc["sender"] = "connect" /\ "connection" \in Faults
  /\ SenderAbort("failed")
  /\ UNCHANGED <<SenderKeeps, status, jobs, streamVars>>

\* Connecting is not raced against cancellation.
ConnectPeer ==
  /\ pc["sender"] = "connect"
  /\ GoTo("sender", "offer")
  /\ UNCHANGED <<SenderKeeps, status, jobs, streamVars, result>>

WriteOffer ==
  /\ pc["sender"] = "offer"
  /\ Write("sender", "offer")
  /\ GoTo("sender", "offered")
  /\ UNCHANGED <<SenderKeeps, status, jobs, fin, lost, result>>

AwaitApproval ==
  /\ pc["sender"] = "offered"
  /\ TransitionOrFail("sender", "AwaitingApproval", "await")
  /\ UNCHANGED <<SenderKeeps, jobs, streamVars>>

ReadAccept ==
  /\ pc["sender"] = "await"
  /\ Read("sender", "accept")
  /\ TransitionOrFail("sender", "Connecting", "accepted")
  /\ UNCHANGED <<SenderKeeps, jobs, fin, lost>>

\* A refusal ends the task with an error whether or not the status took it.
ReadRefusal ==
  /\ pc["sender"] = "await"
  /\ \/ Read("sender", "cancelled") /\ TryTransition("sender", "Cancelled")
     \/ Read("sender", "refused") /\ TryTransition("sender", "Rejected")
  /\ Leave("sender", "failed")
  /\ UNCHANGED <<SenderKeeps, jobs, fin, lost>>

StartTransfer ==
  /\ pc["sender"] = "accepted"
  /\ TransitionOrFail("sender", "Transferring", "transfer")
  /\ UNCHANGED <<SenderKeeps, jobs, streamVars>>

\* Mutation: the acknowledgements alone end the transfer.
NoCompletion == UNCHANGED wire

ReadCompletion == Read("sender", "complete")

\* try_join!: every file has been acknowledged and the receiver's completion
\* message has been read.
AllDelivered ==
  /\ pc["sender"] = "transfer"
  /\ \A f \in Files : stage[f] = "acked"
  /\ ReadCompletion
  /\ GoTo("sender", "finish")
  /\ UNCHANGED <<SenderKeeps, status, jobs, fin, lost, result>>

\* The completion message is read before the last acknowledgements or after:
\* either way finish() precedes the transition, which a pause may refuse.
FinishSending ==
  /\ pc["sender"] = "finish"
  /\ fin' = [fin EXCEPT !["sender"] = "finished"]
  /\ IF CanTransition(status["sender"], "Completed")
       THEN /\ SetStatus("sender", "Completed")
            /\ GoTo("sender", "remove")
            /\ UNCHANGED result
       ELSE SenderAbort("failed") /\ UNCHANGED status
  /\ UNCHANGED <<SenderKeeps, jobs, wire, lost>>

-----------------------------------------------------------------------------
(* Leaving early.                                                          *)

SenderInterrupted ==
  /\ pc["sender"] \in SenderGuarded
  /\ Interrupted("sender")
  /\ SenderExit("cancelled")
  /\ UNCHANGED <<SenderKeeps, status, jobs, streamVars>>

\* The offer is too long for a frame, the control stream breaks under a write or
\* a read, or the receiver's answer is overdue.
SenderBroken ==
  /\ \/ /\ pc["sender"] = "offer"
        /\ WriteFails("sender") \/ "long" \in Faults
        /\ Leave("sender", "failed")
     \/ /\ pc["sender"] \in {"await", "transfer"}
        /\ \E r \in ReadErrors("sender") : Leave("sender", r)
     \/ /\ pc["sender"] = "await"
        /\ Overdue("sender")
        /\ Leave("sender", "failed")
  /\ UNCHANGED <<SenderKeeps, status, jobs, streamVars>>

ResetSender ==
  /\ pc["sender"] = "cleanup"
  /\ Close("sender")
  /\ GoTo("sender", "settle")
  /\ UNCHANGED <<SenderKeeps, status, jobs, lost, result>>

\* The spawned task turns the error into the final status.
SettleSender ==
  /\ pc["sender"] = "settle"
  /\ IF result["sender"] = "cancelled"
       THEN TryTransition("sender", "Cancelled")
       ELSE FailTransfer("sender")
  /\ GoTo("sender", "remove")
  /\ UNCHANGED <<SenderKeeps, jobs, streamVars, result>>

RemoveSender ==
  /\ pc["sender"] = "remove"
  /\ DropJob("sender")
  /\ GoTo("sender", "ended")
  /\ UNCHANGED <<stopping, op, pending, decision, automatic, stage, status,
                 streamVars, result>>

SenderStep ==
  \/ CheckRunning \/ InsertPreparing \/ RegisterSender \/ FilesPrepared
  \/ SetupFails \/ ConnectPeer \/ WriteOffer \/ AwaitApproval \/ ReadAccept \/ ReadRefusal
  \/ StartTransfer \/ AllDelivered \/ FinishSending
  \/ SenderInterrupted \/ SenderBroken
  \/ ResetSender \/ SettleSender \/ RemoveSender

=============================================================================
