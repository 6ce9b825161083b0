----------------------------- MODULE FileStreams -----------------------------
(***************************************************************************)
(* The stream of each file, from the sender's send_one_file                *)
(* (src/src/infrastructure/quic/sender.rs:64-159) through the receiver's   *)
(* router to receive_one_file (src/src/infrastructure/quic/receiver.rs:    *)
(* 320-551) and back.  A file is one chunk; an empty file has none.        *)
(*                                                                         *)
(*   idle -> open -> routed -> taken -> sent -> verified -> stored         *)
(*        -> recorded -> answered -> acked                                 *)
(*                                                                         *)
(* `refused` is a stream the router turned away, `lost` a staged file that *)
(* was cleaned up before it could be put in place.  Files are interchange- *)
(* able, so the order in which the sender takes them up does not matter.   *)
(***************************************************************************)
EXTENDS ControlStream, Naturals

CONSTANTS
  EmptyFiles,    \* the files of size zero
  Concurrency    \* FILE_STREAM_CONCURRENCY: streams per end, and route length

ASSUME EmptyFilesAssumption == EmptyFiles \subseteq Files
ASSUME ConcurrencyAssumption == Concurrency \in Nat \ {0}

Stage ==
  {"idle", "open", "routed", "taken", "sent", "verified", "stored",
   "recorded", "answered", "acked", "refused", "lost"}

Answered == {"answered", "acked"}

Count(stages) == Cardinality({f \in Files : stage[f] \in stages})

\* Mutation: the route is registered only once the status is Transferring.
RoutedLate == pc["receiver"] \in {"receive", "completed"}

\* The receiver's task owns a route for the transfer's streams.
Routed == pc["receiver"] \in {"grant", "accepted", "receive", "completed"}

\* Mutation: the route's channel is one short.
ShortRoute == Count({"routed"}) < Concurrency - 1

RouteHasRoom == Count({"routed"}) < Concurrency

Advance(f, s) == stage' = [stage EXCEPT ![f] = s]

FileKeeps == <<jobs, paused, cancelled, stopping, op, pending, decision,
               automatic, streamVars>>

Step(f, from, to) ==
  /\ stage[f] = from
  /\ Advance(f, to)
  /\ UNCHANGED <<FileKeeps, status, taskVars>>

\* record_progress_live for a chunk: refused once the transfer is not active.
\* An empty file has no chunk, neither a gate to pass nor progress to record.
Chunk(e, f, from, to) ==
  /\ stage[f] = from
  /\ f \in EmptyFiles \/ Ready(e)
  /\ IF f \in EmptyFiles \/ CanRecordProgress(status[e])
       THEN Advance(f, to) /\ UNCHANGED taskVars
       ELSE Leave(e, "failed") /\ UNCHANGED stage
  /\ UNCHANGED <<FileKeeps, status>>

OpenStream(f) ==
  /\ pc["sender"] = "transfer"
  /\ ~lost
  /\ Count(Stage \ {"idle", "acked"}) < Concurrency
  /\ Step(f, "idle", "open")

\* The receiver's router finds the route by transfer id and hands the stream
\* over without waiting, or turns it away.
RouteStream(f) ==
  /\ ~lost
  /\ "receiver" \notin stopping
  /\ IF Routed /\ RouteHasRoom
       THEN Step(f, "open", "routed")
       ELSE Step(f, "open", "refused")

\* receive_files takes the stream, uses up its grant and confirms the header.
TakeStream(f) ==
  /\ pc["receiver"] = "receive"
  /\ ~lost
  /\ Count({"taken", "sent", "verified", "stored", "recorded"}) < Concurrency
  /\ Step(f, "routed", "taken")

\* Data, digest and end of stream.
SendFile(f) ==
  /\ pc["sender"] = "transfer"
  /\ ~lost
  /\ Chunk("sender", f, "taken", "sent")

\* Data read, progress recorded, digest verified; finalize_staged is handed to
\* the blocking pool.
ReadFile(f) ==
  /\ pc["receiver"] = "receive"
  /\ Chunk("receiver", f, "sent", "verified")

\* The blocking pool runs finalize_staged whatever became of the task.
StoreFile(f) == Step(f, "verified", "stored")

\* The staging file was removed under it, by the task's clean-up or by a fault.
StoreFails(f) ==
  /\ "io" \in Faults \/ Gone("receiver")
  /\ Step(f, "verified", "lost")

RecordFile(f) ==
  /\ pc["receiver"] = "receive"
  /\ Step(f, "stored", "recorded")

AnswerFile(f) ==
  /\ pc["receiver"] = "receive"
  /\ ~lost
  /\ Step(f, "recorded", "answered")

AckFile(f) ==
  /\ pc["sender"] = "transfer"
  /\ Step(f, "answered", "acked")

\* A peer that left or holds back fails the sender's streams in flight and the
\* receiver's reads and writes; a stream not opened yet is only waited for.
Starved(e, f) ==
  IF e = "sender"
    THEN Late /\ stage[f] \notin Answered \union {"idle"}
    ELSE IF stage[f] \in {"idle", "open"} THEN Overdue("receiver") ELSE Late

\* A file task of e fails, and with it e's task: its stream is broken, a file
\* operation fails or one of the timers around a stream runs out.
FileFails(e) ==
  /\ pc[e] = IF e = "sender" THEN "transfer" ELSE "receive"
  /\ \E f \in Files :
       /\ stage[f] \notin (IF e = "sender" THEN {"acked"} ELSE Answered)
       /\ \/ lost \/ {"io", "slow"} \intersect Faults # {} \/ Starved(e, f)
          \/ e = "sender" /\ stage[f] = "refused"
          \/ e = "receiver" /\ stage[f] = "lost"
  /\ Leave(e, "failed")
  /\ UNCHANGED <<FileKeeps, status, stage>>

SenderFileStep ==
  (\E f \in Files : OpenStream(f) \/ SendFile(f) \/ AckFile(f))
    \/ FileFails("sender")

ReceiverFileStep ==
  \/ \E f \in Files :
       \/ RouteStream(f) \/ TakeStream(f) \/ ReadFile(f)
       \/ StoreFile(f) \/ StoreFails(f) \/ RecordFile(f) \/ AnswerFile(f)
  \/ FileFails("receiver")

StageInit == stage = [f \in Files |-> "idle"]

StageTypeOK == stage \in [Files -> Stage]

=============================================================================
