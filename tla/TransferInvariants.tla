-------------------------- MODULE TransferInvariants --------------------------
(***************************************************************************)
(* The inductive strengthening of the safety invariants of TransferSession.*)
(* Each group relates what one end's task knows to what the other end has  *)
(* done; together with TypeOK each is preserved by every step.             *)
(***************************************************************************)
EXTENDS TransferSession

(***************************************************************************)
(* Knowledge of the delivery travels from the files over the receiver's    *)
(* status and its completion message to the sender (quic.rs:345-357).      *)
(***************************************************************************)
DeliveryInv ==
  /\ status["receiver"] = "Completed" => \A f \in Files : stage[f] \in Answered
  /\ pc["receiver"] = "completed" \/ wire["receiver"] = "complete"
       => status["receiver"] = "Completed"
  /\ pc["sender"] = "finish" \/ status["sender"] = "Completed"
       => status["receiver"] = "Completed"

\* Where the sender knows that it has been accepted.
SenderGranted == pc["sender"] \in {"accepted", "transfer", "finish"}

ReceiverGranted ==
  pc["receiver"] \in {"grant", "accepted", "receive", "completed"}

(***************************************************************************)
(* Consent precedes the grant, the grant the accept message, the message   *)
(* the sender's transfer, and that the first stream (receiver.rs:237-277). *)
(***************************************************************************)
ConsentInv ==
  /\ ReceiverGranted => Consent
  /\ wire["receiver"] \in {"accept", "complete"} => Consent
  /\ SenderGranted => Consent
  /\ \A f \in Files : stage[f] # "idle" => Consent
  /\ pending /\ Listening => decision = "none"
  /\ pc["receiver"] \in {"idle", "offer"} => ~automatic /\ decision = "none"

(***************************************************************************)
(* Who shows Rejected has left without a file having moved.                *)
(***************************************************************************)
RejectionInv ==
  /\ \A f \in Files : stage[f] # "idle" =>
       pc["sender"] \in {"transfer", "finish"} \union Leaving
  /\ status["sender"] = "Rejected" =>
       Gone("sender") /\ \A f \in Files : stage[f] = "idle"
  /\ status["receiver"] = "Rejected" => Gone("receiver") /\ ~Consent

\* Where the receiver's status is final, or the request was never listed.
ReceiverSettled ==
  \/ pc["receiver"] \in {"reset", "ended"}
  \/ pc["receiver"] \in {"cleanup", "settle"} /\ result["receiver"] = "ok"

(***************************************************************************)
(* What is still to be cleaned up at each point of the two tasks' exits    *)
(* (manager.rs:452-462, receiver.rs:26-48).                                *)
(***************************************************************************)
ExitInv ==
  /\ pc["sender"] = "ended" => "sender" \notin jobs
  /\ pc["sender"] \in {"remove", "ended"} => status["sender"] \in Terminal
  /\ pc["sender"] \in {"idle", "begun"} <=> status["sender"] = "Absent"
  /\ pc["receiver"] \in {"idle", "settle", "reset", "ended"} =>
       "receiver" \notin jobs /\ ~pending
  /\ ReceiverSettled => status["receiver"] \in Terminal \union {"Absent"}
  /\ pc["receiver"] \in {"idle", "offer", "push"} =>
       status["receiver"] = "Absent"

\* Where the receiver's accept message is written.
HasAccepted ==
  pc["receiver"] \in {"accepted", "receive", "completed"} \union Leaving

(***************************************************************************)
(* The sender learns of its grant, and streams move, only once the route   *)
(* is registered and the accept message written (receiver.rs:260-274).     *)
(***************************************************************************)
GrantInv ==
  /\ wire["receiver"] = "accept" => HasAccepted
  /\ SenderGranted => HasAccepted
  /\ \A f \in Files : stage[f] # "idle" => HasAccepted

(***************************************************************************)
(* Each end's slot is empty until its first message, and the receiver's    *)
(* again once a file has moved: the sender has read the accept by then.    *)
(***************************************************************************)
MessageInv ==
  /\ pc["sender"] \in {"idle", "begun", "inserted", "prepare", "connect", "offer"} =>
       wire["sender"] = "none"
  /\ pc["receiver"] \in {"idle", "offer", "push", "decide", "refuse", "grant"} =>
       wire["receiver"] = "none"
  /\ pc["receiver"] \in {"accepted", "receive", "completed"} =>
       wire["receiver"] \in {"none", "accept"}
  /\ wire["receiver"] = "accept" =>
       ~SenderGranted /\ \A f \in Files : stage[f] = "idle"

InFlight == Stage \ {"idle", "acked"}

(***************************************************************************)
(* The sender never has more streams open than the route is long           *)
(* (quic.rs:325, router.rs:42).                                            *)
(***************************************************************************)
StreamsInv == Count(InFlight) <= Concurrency

SafetyInv ==
  /\ TypeOK
  /\ ExitInv
  /\ DeliveryInv
  /\ ConsentInv
  /\ RejectionInv
  /\ GrantInv
  /\ MessageInv
  /\ StreamsInv
  /\ RouteIsReady

=============================================================================
