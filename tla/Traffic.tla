------------------------------- MODULE Traffic -------------------------------
(***************************************************************************)
(* Several transfers to one manager at the same time, each from one of     *)
(* several senders, and what they share: the job, send and receive slots   *)
(* of the managers (src/src/application/manager.rs:209-211), the routes of *)
(* a session (src/src/infrastructure/quic/router.rs) and the receive       *)
(* directory (Storage).  TransferSession has the steps of one transfer at  *)
(* its two ends; here offer, decision and control stream are short and the *)
(* file tasks long:                                                        *)
(*                                                                         *)
(*   out   idle -> queued -> open -> data -> sent -> done                  *)
(*   in    none -> arrived -> routed -> waiting -> staging -> ready        *)
(*              -> final -> answered                                       *)
(*                                                                         *)
(* A task that is dropped is `gone`, a stream turned away `refused`.       *)
(***************************************************************************)
EXTENDS Storage, Sequences

CONSTANTS
  Transfers,
  FilesOf,      \* the files of each transfer
  Senders,      \* the managers the transfers come from
  Ids,          \* the ids senders draw for their transfers
  Concurrency,  \* FILE_STREAM_CONCURRENCY: file tasks of a transfer per end
  JobSlots,     \* transfers of a manager at a time
  SendSlots,    \* files a manager sends at a time
  ReceiveSlots, \* files a manager receives at a time
  Disturbed     \* the transfers that users pause and cancel

ASSUME TrafficAssumption ==
  /\ IsFiniteSet(Transfers)
  /\ FilesOf \in [Transfers -> (SUBSET Files) \ {{}}]
  /\ \A f \in Files : \E t \in Transfers : f \in FilesOf[t]
  /\ \A t, u \in Transfers : t # u => FilesOf[t] \intersect FilesOf[u] = {}
  /\ Concurrency \in Nat \ {0}
  /\ JobSlots \in Nat \ {0}
  /\ SendSlots \in Nat \ {0}
  /\ ReceiveSlots \in Nat \ {0}
  /\ "none" \notin Transfers \union Names
  /\ Disturbed \subseteq Transfers

VARIABLES
  from,         \* the manager each transfer comes from
  wireId,       \* its id
  routers,      \* the senders' sessions whose streams the receiver accepts
  snd, rcv,     \* the transfer at its two ends
  routes,       \* the transfer registered under each session and id
  out, in,      \* the task of each file at the two ends
  sendQueue,    \* the files waiting for a send slot, at each sender
  receiveQueue, \* those waiting for a receive slot
  paused,       \* the transfers paused at an end
  delayed,      \* somebody has paused: every timer may have run since
  path          \* the place recorded for each file, its local_path

taskVars == <<snd, rcv, routes, out, in, sendQueue, receiveQueue, path>>

fixedVars == <<from, wireId, routers, delayed>>

trafficVars == <<storageVars, taskVars, fixedVars, paused>>

NoPath == <<"none", 0>>

Active == {"offered", "transfer"}      \* of snd
Underway == {"asked", "receive"}       \* of rcv
Sending == {"open", "data", "sent"}    \* of out: holds a send slot
Receiving == {"staging", "ready", "final"}   \* of in: holds a receive slot

FilesAt(stage, fs, stages) == {f \in fs : stage[f] \in stages}

FilesFrom(s) == UNION {FilesOf[t] : t \in {u \in Transfers : from[u] = s}}

Init ==
  /\ StorageInit
  /\ from \in [Transfers -> Senders]
  /\ wireId \in [Transfers -> Ids]
  /\ routers \in SUBSET Senders
  /\ snd = [t \in Transfers |-> "idle"]
  /\ rcv = [t \in Transfers |-> "idle"]
  /\ routes = [k \in Senders \X Ids |-> "none"]
  /\ out = [f \in Files |-> "idle"]
  /\ in = [f \in Files |-> "none"]
  /\ sendQueue = [s \in Senders |-> <<>>]
  /\ receiveQueue = <<>>
  /\ paused = {}
  /\ delayed = FALSE
  /\ path = [f \in Files |-> NoPath]

(***************************************************************************)
(* Ends of a transfer.  Its tasks are dropped with it, wherever they are:  *)
(* slots come back, places in a queue are given up, staging guards run.    *)
(***************************************************************************)
NotIn(fs, q) ==
  LET left[k \in 0 .. Len(q)] ==
        IF k = 0 THEN <<>>
        ELSE IF q[k] \in fs THEN left[k - 1] ELSE Append(left[k - 1], q[k])
  IN  left[Len(q)]

LeaveSender(t, how) ==
  /\ snd' = [snd EXCEPT ![t] = how]
  /\ out' = [f \in Files |->
       IF f \in FilesOf[t] /\ out[f] # "done" THEN "gone" ELSE out[f]]
  /\ sendQueue' = [sendQueue EXCEPT ![from[t]] = NotIn(FilesOf[t], @)]
  /\ paused' = paused \ {<<t, "sender">>}
  /\ UNCHANGED <<storageVars, fixedVars, rcv, routes, in, receiveQueue, path>>

Key(t) == <<from[t], wireId[t]>>

\* The files whose streams carry the id of t: its own, and those of transfers
\* of the same session and id.
FilesUnder(t) == UNION {FilesOf[u] : u \in {v \in Transfers : Key(v) = Key(t)}}

\* The streams in the channel of t's route.
InRoute(t) ==
  IF rcv[t] = "receive" THEN FilesAt(in, FilesUnder(t), {"routed"}) ELSE {}

\* FileRoute::drop: only a task that registered its route has one to drop.
DropRoute(t) ==
  routes' = [routes EXCEPT ![Key(t)] = IF rcv[t] = "receive" THEN "none" ELSE @]

LeaveReceiver(t, how) ==
  LET dropped == FilesAt(in, FilesOf[t], {"waiting"} \union Receiving) \union InRoute(t)
  IN  /\ rcv' = [rcv EXCEPT ![t] = how]
      /\ DropRoute(t)
      /\ in' = [f \in Files |-> IF f \in dropped THEN "gone" ELSE in[f]]
      /\ receiveQueue' = NotIn(FilesOf[t], receiveQueue)
      /\ CleanUp(FilesAt(in, FilesOf[t], Receiving))
      /\ paused' = paused \ {<<t, "receiver">>}
      /\ UNCHANGED <<name, disk, part, pool, index, missed,
                     fixedVars, snd, out, sendQueue, path>>

(***************************************************************************)
(* Offer, decision and completion.                                         *)
(***************************************************************************)
\* The jobs of a manager in both directions share its slots; here a manager that
\* sends does not receive.
JobsOf(s) == {t \in Transfers : from[t] = s /\ snd[t] \in Active}

Offer(t) ==
  /\ snd[t] = "idle"
  /\ Cardinality(JobsOf(from[t])) < JobSlots
  /\ snd' = [snd EXCEPT ![t] = "offered"]
  /\ UNCHANGED <<storageVars, fixedVars, rcv, routes, out, in, sendQueue,
                 receiveQueue, path, paused>>

ReceiverJobs == {t \in Transfers : rcv[t] \in Underway}

\* ensure_router: a session is announced, or the receiver sends to the sender. A
\* router that is there goes on. Announcements may be missed.
EnsureRouter(s) ==
  /\ routers' = routers \union {s}
  /\ UNCHANGED <<storageVars, taskVars, from, wireId, delayed, paused>>

\* The router starts a task for the offer, or turns it away.
TakeOffer(t) ==
  /\ from[t] \in routers
  /\ snd[t] = "offered"
  /\ rcv[t] = "idle"
  /\ rcv' = [rcv EXCEPT ![t] =
       IF Cardinality(ReceiverJobs) < JobSlots THEN "asked" ELSE "failed"]
  /\ UNCHANGED <<storageVars, fixedVars, snd, routes, out, in, sendQueue,
                 receiveQueue, path, paused>>

\* Mutation: a second registration takes the id over.
RegisterOver(t) ==
  /\ rcv' = [rcv EXCEPT ![t] = "receive"]
  /\ routes' = [routes EXCEPT ![Key(t)] = t]

\* SessionRouter::register refuses an id that is in use.
Register(t) ==
  IF routes[Key(t)] = "none"
    THEN /\ rcv' = [rcv EXCEPT ![t] = "receive"]
         /\ routes' = [routes EXCEPT ![Key(t)] = t]
    ELSE rcv' = [rcv EXCEPT ![t] = "failed"] /\ UNCHANGED routes

Accept(t) ==
  /\ rcv[t] = "asked"
  /\ Register(t)
  /\ UNCHANGED <<storageVars, fixedVars, snd, out, in, sendQueue,
                 receiveQueue, path, paused>>

StartTransfer(t) ==
  /\ snd[t] = "offered"
  /\ rcv[t] = "receive"
  /\ snd' = [snd EXCEPT ![t] = "transfer"]
  /\ UNCHANGED <<storageVars, fixedVars, rcv, routes, out, in, sendQueue,
                 receiveQueue, path, paused>>

CompleteReceiver(t) ==
  /\ rcv[t] = "receive"
  /\ FilesAt(in, FilesOf[t], {"answered"}) = FilesOf[t]
  /\ LeaveReceiver(t, "completed")

CompleteSender(t) ==
  /\ snd[t] = "transfer"
  /\ FilesAt(out, FilesOf[t], {"done"}) = FilesOf[t]
  /\ rcv[t] = "completed"
  /\ LeaveSender(t, "completed")


SendHolders(s) == FilesAt(out, FilesFrom(s), Sending)

QueueFile(t, f) ==
  /\ snd[t] = "transfer"
  /\ out[f] = "idle"
  /\ Cardinality(FilesAt(out, FilesOf[t], Sending \union {"queued"})) < Concurrency
  /\ out' = [out EXCEPT ![f] = "queued"]
  /\ sendQueue' = [sendQueue EXCEPT ![from[t]] = Append(@, f)]
  /\ UNCHANGED <<storageVars, fixedVars, snd, rcv, routes, in, receiveQueue,
                 path, paused>>

OpenStream(t, f) ==
  /\ sendQueue[from[t]] # <<>>
  /\ f = Head(sendQueue[from[t]])
  /\ out[f] = "queued"
  /\ Cardinality(SendHolders(from[t])) < SendSlots
  /\ sendQueue' = [sendQueue EXCEPT ![from[t]] = Tail(@)]
  /\ out' = [out EXCEPT ![f] = "open"]
  /\ in' = [in EXCEPT ![f] = "arrived"]
  /\ UNCHANGED <<storageVars, fixedVars, snd, rcv, routes, receiveQueue,
                 path, paused>>

OutStep(f, old, new) ==
  /\ out[f] = old
  /\ out' = [out EXCEPT ![f] = new]
  /\ UNCHANGED <<storageVars, fixedVars, snd, rcv, routes, in, sendQueue,
                 receiveQueue, path, paused>>

ReadHeader(f) == in[f] = "ready" /\ OutStep(f, "open", "data")

\* All data, the digest and the end of the stream.
SendData(t, f) == <<t, "sender">> \notin paused /\ OutStep(f, "data", "sent")

ReadResult(f) == in[f] = "answered" /\ OutStep(f, "sent", "done")

(***************************************************************************)
(* The router and the file tasks of the receiver.                          *)
(***************************************************************************)
InStep(f, old, new) ==
  /\ in[f] = old
  /\ in' = [in EXCEPT ![f] = new]
  /\ UNCHANGED <<fixedVars, snd, rcv, routes, out, sendQueue, paused>>

\* The id alone finds the route: a stream of t goes to whoever has registered it.
RouteStream(t, f) ==
  /\ IF /\ routes[Key(t)] # "none"
        /\ Cardinality(FilesAt(in, FilesUnder(t), {"routed"})) < Concurrency
       THEN InStep(f, "arrived", "routed")
       ELSE InStep(f, "arrived", "refused")
  /\ UNCHANGED <<storageVars, receiveQueue, path>>

\* receive_files asks its channel for one stream per file of the offer, and for
\* none while Concurrency tasks are at work.
AsksForStream(t) ==
  /\ rcv[t] = "receive"
  /\ FilesAt(in, FilesOf[t], {"waiting", "answered"} \union Receiving) # FilesOf[t]
  /\ Cardinality(FilesAt(in, FilesOf[t], Receiving \union {"waiting"})) < Concurrency

TakeStream(t, f) ==
  /\ AsksForStream(t)
  /\ InStep(f, "routed", "waiting")
  /\ receiveQueue' = Append(receiveQueue, f)
  /\ UNCHANGED <<storageVars, path>>

StartReceive(f) ==
  /\ receiveQueue # <<>>
  /\ f = Head(receiveQueue)
  /\ Cardinality(FilesAt(in, Files, Receiving)) < ReceiveSlots
  /\ InStep(f, "waiting", "staging")
  /\ OpenStaging(f)
  /\ receiveQueue' = Tail(receiveQueue)
  /\ UNCHANGED path

WriteHeader(f) ==
  /\ pool[f] = "opened"
  /\ InStep(f, "staging", "ready")
  /\ UNCHANGED <<storageVars, receiveQueue, path>>

\* Data read and verified; finalize_staged goes to the blocking pool.
ReadData(t, f) ==
  /\ <<t, "receiver">> \notin paused
  /\ out[f] = "sent"
  /\ InStep(f, "ready", "final")
  /\ Finalize(f)
  /\ UNCHANGED <<receiveQueue, path>>

\* Mutation: the name of the offer is recorded, not the one that was free.
AnswerOffered(f) ==
  /\ pool[f] = "done"
  /\ InStep(f, "final", "answered")
  /\ path' = [path EXCEPT ![f] = Spot[<<name[f], 0>>]]
  /\ UNCHANGED <<storageVars, receiveQueue>>

\* The place is recorded in the transfer, then the sender is told.
AnswerFile(f) ==
  /\ pool[f] = "done"
  /\ InStep(f, "final", "answered")
  /\ path' = [path EXCEPT ![f] = Place(f)]
  /\ UNCHANGED <<storageVars, receiveQueue>>

(***************************************************************************)
(* Failures.  Timers (30 s for a header, a stream, data and a result, one  *)
(* hour for a file) run out only if somebody has paused a transfer; five   *)
(* minutes may pass before a user answers, or without a router.            *)
(***************************************************************************)
SenderLate(t) ==
  \/ snd[t] = "offered" /\ (rcv[t] = "asked" \/ from[t] \notin routers)
  \/ delayed /\ FilesAt(out, FilesOf[t], Sending \union {"queued"}) # {}

\* Mutation: the control stream is watched only while files are under way.
SeesWhileSending(t) ==
  rcv[t] \in {"failed", "cancelled"} /\ FilesAt(out, FilesOf[t], {"done"}) # FilesOf[t]

\* The control stream ends with the receiver's task, wherever the sender is.
SeesReceiverLeave(t) == rcv[t] \in {"failed", "cancelled"}

SenderFails(t) ==
  /\ snd[t] \in Active
  /\ \/ SeesReceiverLeave(t)
     \/ \E f \in FilesOf[t] : out[f] \in Sending /\ in[f] \in {"gone", "refused"}
     \/ SenderLate(t)
  /\ LeaveSender(t, "failed")

ReceiverLate(t) ==
  \/ rcv[t] = "asked"
  \/ delayed /\ FilesAt(in, FilesOf[t], {"answered"}) # FilesOf[t]

\* A stream of another transfer has no ticket here: receive_files gives up.
Stray(t) == InRoute(t) \ FilesOf[t] # {}

ReceiverFails(t) ==
  /\ rcv[t] \in Underway
  /\ \/ snd[t] \in {"failed", "cancelled"}
     \/ Stray(t) /\ AsksForStream(t)
     \/ \E f \in FilesOf[t] : in[f] = "final" /\ pool[f] = "failed"
     \/ ReceiverLate(t)
  /\ LeaveReceiver(t, "failed")

(***************************************************************************)
(* The users.                                                              *)
(***************************************************************************)
Cancel(t) ==
  /\ t \in Disturbed
  /\ \/ snd[t] \in Active /\ LeaveSender(t, "cancelled")
     \/ rcv[t] \in Underway /\ LeaveReceiver(t, "cancelled")

Working(t, e) ==
  IF e = "sender" THEN snd[t] = "transfer" ELSE rcv[t] = "receive"

Pause(t, e) ==
  /\ t \in Disturbed
  /\ Working(t, e)
  /\ paused' = paused \union {<<t, e>>}
  /\ delayed' = TRUE
  /\ UNCHANGED <<storageVars, taskVars, from, wireId, routers>>

Resume(t, e) ==
  /\ <<t, e>> \in paused
  /\ Working(t, e)
  /\ paused' = paused \ {<<t, e>>}
  /\ UNCHANGED <<storageVars, taskVars, fixedVars>>

SenderStep(t) ==
  \/ StartTransfer(t) \/ CompleteSender(t) \/ SenderFails(t)
  \/ \E f \in FilesOf[t] :
       QueueFile(t, f) \/ OpenStream(t, f) \/ ReadHeader(f) \/ SendData(t, f) \/ ReadResult(f)

ReceiverStep(t) ==
  \/ TakeOffer(t) \/ CompleteReceiver(t) \/ ReceiverFails(t)
  \/ \E f \in FilesOf[t] :
       \/ RouteStream(t, f) \/ TakeStream(t, f) \/ StartReceive(f)
       \/ WriteHeader(f) \/ ReadData(t, f) \/ AnswerFile(f)

BlockingPool(f) ==
  (PoolWorks(f) \/ RemoveStaging(f)) /\ UNCHANGED <<taskVars, fixedVars, paused>>

UserStep ==
  \/ \E t \in Transfers : Offer(t) \/ Accept(t) \/ Cancel(t)
  \/ \E t \in Transfers, e \in {"sender", "receiver"} : Pause(t, e) \/ Resume(t, e)
  \/ UserWorks /\ UNCHANGED <<taskVars, fixedVars, paused>>

SystemStep ==
  \/ \E t \in Transfers : SenderStep(t) \/ ReceiverStep(t)
  \/ \E f \in Files : BlockingPool(f)

Next == SystemStep \/ UserStep \/ \E s \in Senders : EnsureRouter(s)

(***************************************************************************)
(* The runtime goes on while any task can.  Tasks take finitely many steps *)
(* each, so nothing more has to be assumed of them; users owe nothing.     *)
(***************************************************************************)
Spec == Init /\ [][Next]_trafficVars /\ WF_trafficVars(SystemStep)

TypeOK ==
  /\ StorageTypeOK
  /\ from \in [Transfers -> Senders]
  /\ wireId \in [Transfers -> Ids]
  /\ routers \subseteq Senders
  /\ snd \in [Transfers -> Active \union {"idle", "completed", "failed", "cancelled"}]
  /\ rcv \in [Transfers -> Underway \union {"idle", "completed", "failed", "cancelled"}]
  /\ routes \in [Senders \X Ids -> Transfers \union {"none"}]
  /\ out \in [Files -> Sending \union {"idle", "queued", "done", "gone"}]
  /\ in \in [Files -> Receiving \union
                     {"none", "arrived", "routed", "waiting", "answered",
                      "gone", "refused"}]
  /\ sendQueue \in [Senders -> Seq(Files)]
  /\ receiveQueue \in Seq(Files)
  /\ delayed \in BOOLEAN
  /\ paused \subseteq Transfers \X {"sender", "receiver"}
  /\ path \in [Files -> Places \union {NoPath}]

(***************************************************************************)
(* A file is where its transfer says it is, until the user takes it away:  *)
(* neither another transfer nor a file of the same name replaces it.       *)
(***************************************************************************)
FilesWhereReported ==
  \A f \in Files : path[f] # NoPath => disk[path[f]] = f

(***************************************************************************)
(* What is in the directory stays, unless the user takes it away.          *)
(***************************************************************************)
NothingIsReplaced ==
  [][\A p \in Places : disk[p] # "free" => disk'[p] \in {disk[p], "free"}]_disk

(***************************************************************************)
(* A transfer that receives owns the route of its id: another transfer of  *)
(* the same id, refused or ended, does not take it away.                   *)
(***************************************************************************)
RoutesAreOwned ==
  \A t \in Transfers : rcv[t] = "receive" => routes[Key(t)] = t

(***************************************************************************)
(* Every staging file has someone to remove it, its task or the clean-up   *)
(* of its task, however far the file had come when its task was dropped.   *)
(* The one exception is a file that the pool had not created yet when its  *)
(* clean-up ran.                                                           *)
(***************************************************************************)
StagingIsRemoved ==
  \A f \in Files : part[f] = "present" =>
    in[f] \in Receiving \/ f \in cleaning \/ f \in missed

(***************************************************************************)
(* A transfer under way completes if it is not cancelled, however many     *)
(* share its slots and whatever becomes of them, as long as nobody pauses  *)
(* and the user leaves the directory alone.  The one thing others can do   *)
(* to it is to send a stream under its id.                                 *)
(***************************************************************************)
Calm == ~delayed /\ \A p \in Places : disk[p] # "user"


(***************************************************************************)
(* Every transfer ends at both ends, and gives its slots back: paused ones *)
(* and those that wait for their slots run into their timers, and so do    *)
(* those whose session the receiver has missed.  The staging files go with *)
(* them, but for those whose clean-up came too early.                      *)
(***************************************************************************)
TransfersEnd ==
  <>[](/\ \A t \in Transfers : snd[t] \notin Active /\ rcv[t] \notin Underway
       /\ \A f \in Files : part[f] = "present" => f \in missed)
=============================================================================
