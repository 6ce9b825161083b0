--------------------------- MODULE TransferSession ---------------------------
(***************************************************************************)
(* One transfer between two managers: the sender's and the receiver's      *)
(* tasks, the streams between them, the calls of both users and the faults *)
(* of the environment.                                                     *)
(***************************************************************************)
EXTENDS SenderTask, ReceiverTask, FileStreams

Init == JobInit /\ StreamInit /\ StageInit

SenderNext == SenderStep \/ SenderFileStep

ReceiverNext == ReceiverStep \/ ReceiverFileStep

UserCall(e) ==
  /\ \/ Pause(e)
     \/ Resume(e)
     \/ Cancel(e, Listening)
     \/ ~Gone(e) /\ Shutdown(e)     \* later it changes nothing for the task
  /\ UNCHANGED <<streamVars, taskVars, stage>>

UserAnswer ==
  /\ \E d \in {"accept", "reject"} : RespondIncoming(d, Listening)
  /\ UNCHANGED <<streamVars, taskVars, stage>>

CallReturns(e) == FinishOp(e) /\ UNCHANGED <<streamVars, taskVars, stage>>

\* Both tasks are over, or never began.
Finished ==
  /\ \A e \in Ends : pc[e] \in {"idle", "ended"}
  /\ UNCHANGED vars

Next ==
  \/ SenderNext
  \/ ReceiverNext
  \/ UserAnswer
  \/ \E e \in Ends : UserCall(e) \/ CallReturns(e)
  \/ LoseConnection
  \/ Finished

(***************************************************************************)
(* The tokio runtime keeps polling a task that can go on, so each task and *)
(* the second half of a call is weakly fair; users owe nothing.            *)
(***************************************************************************)
Fairness ==
  /\ WF_vars(SenderNext)
  /\ WF_vars(ReceiverNext)
  /\ \A e \in Ends : WF_vars(CallReturns(e))

Spec == Init /\ [][Next]_vars /\ Fairness

-----------------------------------------------------------------------------
TypeOK ==
  /\ JobTypeOK
  /\ StreamTypeOK
  /\ StageTypeOK
  /\ pc \in [Ends -> SenderPC \union ReceiverPC]
  /\ pc["sender"] \in SenderPC
  /\ pc["receiver"] \in ReceiverPC

(***************************************************************************)
(* A transfer the sender shows as Completed is Completed at the receiver,  *)
(* and one the receiver shows as Completed has every file put in place,    *)
(* recorded and acknowledged (quic.rs:239, receiver.rs:284).               *)
(***************************************************************************)
CompletedMeansDelivered ==
  /\ status["sender"] = "Completed" => status["receiver"] = "Completed"
  /\ status["receiver"] = "Completed" => \A f \in Files : stage[f] \in Answered

(***************************************************************************)
(* No file leaves the sender before the receiver agreed, by policy or by   *)
(* its user, and none is sent under a refusal (quic.rs:267-310).           *)
(***************************************************************************)
ConsentBeforeData ==
  \A f \in Files : stage[f] # "idle" =>
    Consent /\ status["sender"] # "Rejected" /\ status["receiver"] # "Rejected"

(***************************************************************************)
(* A task that has ended leaves nothing behind: a final status (or none at *)
(* all), no job, no request waiting for an answer (manager.rs:452-462,     *)
(* receiver.rs:31-48).                                                     *)
(***************************************************************************)
NothingLeftBehind ==
  /\ \A e \in Ends : pc[e] = "ended" =>
       status[e] \in Terminal \union {"Absent"} /\ e \notin jobs
  /\ pc["receiver"] = "ended" => ~pending

(***************************************************************************)
(* The router turns a file's stream away only after the receiver's task    *)
(* has left: the route is there before the sender can know of its grant    *)
(* and long enough for everything it opens (receiver.rs:260, router.rs:42).*)
(***************************************************************************)
RouteIsReady ==
  \A f \in Files : stage[f] = "refused" => Gone("receiver")

(***************************************************************************)
(* A message is never written over one the peer has not read.              *)
(***************************************************************************)
OneMessageUnread ==
  [][\A e \in Ends : wire[e] # "none" => wire'[e] \in {"none", wire[e]}]_vars

(***************************************************************************)
(* The two tasks keep the contract of TransferContract.                    *)
(***************************************************************************)
Outcome ==
  [e \in Ends |-> IF status[e] \in Terminal THEN status[e] ELSE "open"]

InPlace ==
  {f \in Files : stage[f] \in {"stored", "recorded", "answered", "acked"}}

Contract == INSTANCE TransferContract WITH
  outcome <- Outcome, agreed <- Consent, delivered <- InPlace

ImplementsContract == Contract!Spec

(***************************************************************************)
(* Every transfer ends at both ends, whatever users and environment do:    *)
(* a pause that is never lifted, a request nobody answers and a peer that  *)
(* has gone all run into a timer (quic.rs:35-46, receiver.rs:165,355-371). *)
(***************************************************************************)
TransferEnds ==
  \A e \in Ends : pc[e] # "idle" ~> pc[e] = "ended"

(***************************************************************************)
(* A transfer the receiver agreed to completes at both ends when nobody    *)
(* interferes and nothing fails.                                           *)
(***************************************************************************)
AgreedTransferCompletes ==
  Consent /\ ~Gone("sender") ~>
    \A e \in Ends : status[e] = "Completed" /\ pc[e] = "ended"

-----------------------------------------------------------------------------
(* A claim of the repository that the code does not keep.                  *)

(***************************************************************************)
(* A sender whose receiver cancelled the transfer under way does not leave *)
(* it with a failure: quic/tests.rs:281 "receiver_cancellation_stops_an_in_*)
(* progress_transfer_on_both_sides", which waits for Cancelled (:357).     *)
(***************************************************************************)
CancellationIsNoFailure ==
  [][pc["sender"] = "transfer" /\ status["receiver"] = "Cancelled"
       => result'["sender"] # "failed"]_vars
=============================================================================
