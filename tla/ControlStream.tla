---------------------------- MODULE ControlStream ----------------------------
(***************************************************************************)
(* The bidirectional control ("offer") stream between the two tasks of a   *)
(* transfer, what can go wrong around it, and the way a task leaves.       *)
(*                                                                         *)
(* An end that leaves with an error resets its sending half and stops its  *)
(* receiving half with one of two codes, which are all the other end learns*)
(* of the reason; quinn may deliver a reset ahead of data still unread.    *)
(* At most one message per direction is ever unread (OneMessageUnread of   *)
(* TransferSession), so `wire` is a slot and not a queue.                  *)
(***************************************************************************)
EXTENDS TransferJob, FiniteSets

CONSTANTS
  Files,       \* the files of the transfer
  Faults       \* what the environment may do, a subset of AllFaults

AllFaults == {"connection",  \* connecting fails, an open connection is lost
              "io",          \* a file or directory operation fails
              "slow",        \* any answer may come after its timeout
              "long",        \* the manifest does not fit into the offer
              "busy",        \* the receiver's job slots are taken, or its
                             \* session may not or cannot be asked to send
              "full"}        \* the receiver lacks disk space

ASSUME FilesAssumption == Files # {} /\ IsFiniteSet(Files)
ASSUME FaultsAssumption == Faults \subseteq AllFaults

VARIABLES
  wire,     \* [Ends -> Message or "none"]  written by the end, not yet read
  fin,      \* [Ends -> how the end closed its sending half]
  lost,     \* the connection is gone
  pc,       \* [Ends -> where the end's task is]
  result,   \* [Ends -> the result the task carries while it leaves]
  stage     \* [Files -> how far the file's own stream has come]

streamVars == <<wire, fin, lost>>
taskVars == <<pc, result>>
vars == <<jobVars, streamVars, taskVars, stage>>

Message == {"offer", "accept", "refused", "cancelled", "complete"}
Result == {"ok", "cancelled", "failed"}
Reset == {"cancelled", "failed"}

\* The points at which a task has its result and no longer serves its streams.
Leaving == {"cleanup", "settle", "reset", "remove", "ended"}
Gone(e) == pc[e] \in Leaving

\* The sender's task has opened the control stream.
HasStream ==
  pc["sender"] \notin {"idle", "begun", "inserted", "prepare", "connect"}

GoTo(e, p) == pc' = [pc EXCEPT ![e] = p]

\* Leave the body of the task with result r, at its first clean-up step.
Leave(e, r) ==
  /\ result' = [result EXCEPT ![e] = r]
  /\ GoTo(e, "cleanup")

\* transition(id, s)? : the task goes on to p, or fails with InvalidState.
TransitionOrFail(e, s, p) ==
  IF CanTransition(status[e], s)
    THEN SetStatus(e, s) /\ GoTo(e, p) /\ UNCHANGED result
    ELSE Leave(e, "failed") /\ UNCHANGED status

-----------------------------------------------------------------------------
(* Reading and writing messages.                                           *)

\* What is written after the connection is lost never arrives.
Write(e, m) ==
  wire' = IF lost THEN wire ELSE [wire EXCEPT ![e] = m]

Read(e, m) ==
  /\ wire[Peer(e)] = m
  /\ wire' = [wire EXCEPT ![Peer(e)] = "none"]

\* The errors a read of e can end with: read_message and peer_stopped tell a
\* cancellation from any other reason by the code of the reset alone.
ReadErrors(e) ==
  (IF fin[Peer(e)] = "cancelled" THEN {"cancelled"} ELSE {})
    \union
  (IF \/ lost
      \/ fin[Peer(e)] = "failed"
      \/ fin[Peer(e)] = "finished" /\ wire[Peer(e)] = "none"
   THEN {"failed"} ELSE {})

\* A write fails once the peer has stopped or dropped its receiving half; the
\* code it stopped with is not looked at.
WriteFails(e) == lost \/ fin[Peer(e)] \in Reset \/ pc[Peer(e)] = "ended"

\* Mutation: the stream is reset even after success.
AlwaysReset(e) == fin' = [fin EXCEPT ![e] = result[e]] /\ UNCHANGED wire

\* Give up the stream with the code that stands for the task's result; a
\* reset drops what the peer has not read yet.
Close(e) ==
  IF result[e] = "ok"
    THEN fin' = [fin EXCEPT ![e] = "finished"] /\ UNCHANGED wire
    ELSE /\ fin' = [fin EXCEPT ![e] = result[e]]
         /\ \/ UNCHANGED wire
            \/ wire' = [wire EXCEPT ![e] = "none"]

-----------------------------------------------------------------------------
(* Time.  A timer can only run out while something holds the other side up:*)
(* the network, a paused job, a request nobody has answered, a manager that*)
(* is shutting down, a task that has left.                                 *)

\* Mutation: no timer covers a paused job.
LateUnlessPaused ==
  \/ "slow" \in Faults
  \/ pending
  \/ \E e \in Ends : e \in stopping \/ Gone(e)

Late ==
  \/ "slow" \in Faults
  \/ pending
  \/ \E e \in Ends : e \in paused \/ e \in stopping \/ Gone(e)

\* A read of the control stream is overdue: nothing came, or came too late.
Overdue(e) ==
  /\ Late
  /\ \/ "slow" \in Faults
     \/ wire[Peer(e)] = "none" /\ ReadErrors(e) = {}

\* The select! of a task notices a cancelled job or a stopping manager.
Interrupted(e) == e \in cancelled \/ e \in stopping

-----------------------------------------------------------------------------
StreamTypeOK ==
  /\ wire \in [Ends -> Message \union {"none"}]
  /\ fin \in [Ends -> {"open", "finished"} \union Reset]
  /\ lost \in BOOLEAN
  /\ result \in [Ends -> Result]

StreamInit ==
  /\ wire = [e \in Ends |-> "none"]
  /\ fin = [e \in Ends |-> "open"]
  /\ lost = FALSE
  /\ pc = [e \in Ends |-> "idle"]
  /\ result = [e \in Ends |-> "ok"]

\* The connection is lost, with any of the messages still in flight.
LoseConnection ==
  /\ "connection" \in Faults
  /\ ~lost
  /\ pc["receiver"] # "idle"
  /\ lost' = TRUE
  /\ \E arrived \in SUBSET Ends :
       wire' = [e \in Ends |-> IF e \in arrived THEN wire[e] ELSE "none"]
  /\ UNCHANGED <<jobVars, fin, taskVars, stage>>

=============================================================================
