---------------------------- MODULE TrafficProofs ----------------------------
(***************************************************************************)
(* Proofs about Traffic, for any number of transfers, files, senders and   *)
(* slots: no file is replaced, files are where their transfers say, routes *)
(* are owned and their streams with them, staging files are accounted for, *)
(* queues hold whoever waits, and what has completed is in place.          *)
(***************************************************************************)
EXTENDS Traffic, Induction, FiniteSetTheorems, TLAPS

(***************************************************************************)
(* What the steps rely on of the types of the variables.                   *)
(***************************************************************************)
StoreShape ==
  /\ name \in [Files -> Names]
  /\ DOMAIN disk = Places
  /\ pool \in [Files -> {"idle", "open", "opened", "choose", "link", "unlink",
                         "done", "failed"}]
  /\ part \in [Files -> {"absent", "present"}]
  /\ index \in [Files -> 0 .. MaxIndex]
  /\ path \in [Files -> Places \union {NoPath}]

(***************************************************************************)
(* A file the pool has linked is in its place, its staging file is gone    *)
(* once it is done, and a recorded place holds its file.                   *)
(***************************************************************************)
Linked ==
  \A f \in Files : pool[f] \in {"unlink", "done"} => disk[Place(f)] = f

StoreInv == StoreShape /\ Linked /\ FilesWhereReported

\* A step that leaves the directory and the work of the pool alone.
StoreKeeps == UNCHANGED <<name, disk, pool, index, part, path>>

(***************************************************************************)
(* What a step of Traffic does to the receive directory: one operation of  *)
(* Storage at most (finalize_staged and its callers, filesystem.rs:181).   *)
(***************************************************************************)
LEMMA StoreMoves ==
  ASSUME [Next]_trafficVars
  PROVE  \/ StoreKeeps
         \/ \E f \in Files :
              /\ OpenStaging(f) \/ Finalize(f) \/ PoolWorks(f) \/ RemoveStaging(f)
              /\ UNCHANGED path
         \/ \E p \in UserPlaces : UserPuts(p) /\ UNCHANGED path
         \/ \E t \in Transfers : \E f \in FilesOf[t] : AnswerFile(f)
<1> USE DEF StoreKeeps, storageVars
<1>1. CASE UNCHANGED trafficVars
  BY <1>1 DEF trafficVars, taskVars
<1>2. ASSUME NEW t \in Transfers, SenderStep(t)
      PROVE  StoreKeeps
  BY <1>2 DEF SenderStep, StartTransfer, CompleteSender, SenderFails, QueueFile,
     OpenStream, ReadHeader, SendData, ReadResult, OutStep, LeaveSender
<1>3. ASSUME NEW t \in Transfers, ReceiverStep(t)
      PROVE  \/ StoreKeeps
             \/ \E f \in Files : (OpenStaging(f) \/ Finalize(f)) /\ UNCHANGED path
             \/ \E f \in FilesOf[t] : AnswerFile(f)
  <2>1. FilesOf[t] \subseteq Files
    BY TrafficAssumption
  <2>2. CASE TakeOffer(t) \/ CompleteReceiver(t) \/ ReceiverFails(t)
    BY <2>2 DEF TakeOffer, CompleteReceiver, ReceiverFails, LeaveReceiver
  <2>3. ASSUME NEW f \in FilesOf[t],
               RouteStream(t, f) \/ TakeStream(t, f) \/ WriteHeader(f)
        PROVE  StoreKeeps
    BY <2>3 DEF RouteStream, TakeStream, WriteHeader
  <2>4. ASSUME NEW f \in FilesOf[t], StartReceive(f) \/ ReadData(t, f)
        PROVE  (OpenStaging(f) \/ Finalize(f)) /\ UNCHANGED path
    BY <2>4 DEF StartReceive, ReadData
  <2> QED
    BY <1>3, <2>1, <2>2, <2>3, <2>4 DEF ReceiverStep
<1>4. ASSUME NEW f \in Files, BlockingPool(f)
      PROVE  (PoolWorks(f) \/ RemoveStaging(f)) /\ UNCHANGED path
  BY <1>4 DEF BlockingPool, taskVars
<1>5. ASSUME UserStep
      PROVE  \/ StoreKeeps
             \/ \E p \in UserPlaces : UserPuts(p) /\ UNCHANGED path
  <2>1. ASSUME NEW t \in Transfers, Offer(t) \/ Accept(t) \/ Cancel(t)
        PROVE  StoreKeeps
    BY <2>1 DEF Offer, Accept, Cancel, LeaveSender, LeaveReceiver
  <2>2. ASSUME NEW t \in Transfers, NEW e \in {"sender", "receiver"},
               Pause(t, e) \/ Resume(t, e)
        PROVE  StoreKeeps
    BY <2>2 DEF Pause, Resume, taskVars
  <2> QED
    BY <1>5, <2>1, <2>2 DEF UserStep, UserWorks, taskVars
<1> QED
  BY <1>1, <1>2, <1>3, <1>4, <1>5 DEF Next, SystemStep, EnsureRouter, taskVars

\* The directory and every staging file at the start.
LEMMA StoreInit == Init => StoreInv
<1> SUFFICES ASSUME Init PROVE StoreInv
  OBVIOUS
<1>1. 0 \in 0 .. MaxIndex
  BY StorageAssumption
<1> QED
  BY <1>1 DEF Init, StorageInit, StoreInv, StoreShape, Linked, FilesWhereReported

\* Every place that is tried is one of the directory's.
LEMMA PlaceIsPlace ==
  ASSUME StoreShape, NEW f \in Files
  PROVE  Place(f) \in Places
  BY StorageAssumption DEF StoreShape, Place, Places

\* Nothing but an empty place is filled, and nothing is emptied.
LEMMA NoStepReplaces ==
  ASSUME StoreInv, [Next]_trafficVars, NEW p \in Places, disk[p] # "free"
  PROVE  disk'[p] = disk[p]
<1>1. ASSUME NEW f \in Files, PoolWorks(f)
      PROVE  disk'[p] = disk[p]
  <2>1. CASE Link(f)
    <3>1. CASE part[f] = "present" /\ disk[Place(f)] = "free"
      BY <2>1, <3>1 DEF Link, Put, StoreInv, StoreShape
    <3> QED
      BY <2>1, <3>1 DEF Link, StoreInv, StoreShape
  <2> QED
    BY <1>1, <2>1 DEF PoolWorks, StagingOpened, Probe, Unlink
<1>2. ASSUME NEW q \in UserPlaces, UserPuts(q)
      PROVE  disk'[p] = disk[p]
  BY <1>2 DEF UserPuts, Put, StoreInv, StoreShape
<1>3. ASSUME NEW f \in Files, OpenStaging(f) \/ Finalize(f) \/ RemoveStaging(f)
      PROVE  disk' = disk
  BY <1>3 DEF OpenStaging, Finalize, RemoveStaging
<1>4. ASSUME NEW t \in Transfers, NEW f \in FilesOf[t], AnswerFile(f)
      PROVE  disk' = disk
  BY <1>4 DEF AnswerFile, storageVars
<1>5. StoreKeeps => disk' = disk
  BY DEF StoreKeeps
<1> QED
  BY <1>1, <1>2, <1>3, <1>4, <1>5, StoreMoves

\* Every step keeps files in their places.
LEMMA StoreStep == StoreInv /\ [Next]_trafficVars => StoreInv'
<1> SUFFICES ASSUME StoreInv, [Next]_trafficVars PROVE StoreInv'
  OBVIOUS
<1> USE DEF StoreInv, StoreShape, Linked, FilesWhereReported, Place
<1>1. CASE StoreKeeps
  BY <1>1 DEF StoreKeeps
<1>2. ASSUME NEW f \in Files, OpenStaging(f) \/ Finalize(f) \/ RemoveStaging(f),
             UNCHANGED path
      PROVE  StoreInv'
  BY <1>2 DEF OpenStaging, Finalize, RemoveStaging, PoolStep
<1>3. ASSUME NEW f \in Files, PoolWorks(f), UNCHANGED path
      PROVE  StoreInv'
  <2>1. CASE StagingOpened(f)
    BY <1>3, <2>1 DEF StagingOpened, PoolStep
  <2>2. CASE Probe(f)
    BY <1>3, <2>2, StorageAssumption DEF Probe, PoolStep
  <2>3. CASE Link(f)
    <3>1. CASE part[f] = "present" /\ disk[Place(f)] = "free"
      <4>1. /\ pool' = [pool EXCEPT ![f] = "unlink"]
            /\ disk' = [disk EXCEPT ![Place(f)] = f]
            /\ UNCHANGED <<name, part, index>>
        BY <2>3, <3>1 DEF Link, PoolStep, Put
      <4>2. Place(f) \in Places
        BY PlaceIsPlace
      <4>3. StoreShape'
        BY <4>1, <1>3
      <4>4. Linked'
        <5>1. ASSUME NEW g \in Files, pool'[g] \in {"unlink", "done"}
              PROVE  disk'[Place(g)'] = g
          <6>1. CASE g = f
            BY <4>1, <4>2, <6>1
          <6>2. CASE g # f
            <7>1. disk[Place(g)] = g /\ Place(g)' = Place(g)
              BY <4>1, <5>1, <6>2
            <7>2. g # "free"
              BY StorageAssumption
            <7>3. Place(g) # Place(f)
              BY <7>1, <7>2, <3>1
            <7> QED
              BY <4>1, <7>1, <7>3, PlaceIsPlace
          <6> QED
            BY <6>1, <6>2
        <5> QED
          BY <5>1
      <4>5. FilesWhereReported'
        <5>1. ASSUME NEW g \in Files, path[g] # NoPath
              PROVE  disk'[path[g]] = g
          <6>1. disk[path[g]] = g /\ path[g] \in Places
            BY <5>1
          <6>2. path[g] # Place(f)
            BY <6>1, <3>1, StorageAssumption
          <6> QED
            BY <4>1, <6>1, <6>2
        <5> QED
          BY <5>1, <1>3
      <4> QED
        BY <4>3, <4>4, <4>5
    <3>2. CASE ~(part[f] = "present" /\ disk[Place(f)] = "free")
      BY <1>3, <2>3, <3>2, StorageAssumption DEF Link, PoolStep
    <3> QED
      BY <3>1, <3>2
  <2>4. CASE Unlink(f)
    BY <1>3, <2>4 DEF Unlink, PoolStep
  <2> QED
    BY <1>3, <2>1, <2>2, <2>3, <2>4 DEF PoolWorks
<1>4. ASSUME NEW p \in UserPlaces, UserPuts(p), UNCHANGED path
      PROVE  StoreInv'
  <2>1. /\ disk[p] = "free" /\ disk' = [disk EXCEPT ![p] = "user"]
        /\ UNCHANGED <<name, pool, index, part>>
    BY <1>4 DEF UserPuts, Put
  <2>2. \A g \in Files : g # "free"
    BY StorageAssumption
  <2> QED
    BY <1>4, <2>1, <2>2, PlaceIsPlace
<1>5. ASSUME NEW t \in Transfers, NEW f \in FilesOf[t], AnswerFile(f)
      PROVE  StoreInv'
  <2>1. f \in Files
    BY TrafficAssumption
  <2>2. /\ pool[f] = "done" /\ path' = [path EXCEPT ![f] = Place(f)]
        /\ UNCHANGED <<name, disk, pool, index, part>>
    BY <1>5 DEF AnswerFile, storageVars
  <2> QED
    BY <2>1, <2>2, PlaceIsPlace
<1> QED
  BY <1>1, <1>2, <1>3, <1>4, <1>5, StoreMoves

(***************************************************************************)
(* A received file is where its transfer says it is.                       *)
(***************************************************************************)
THEOREM FilesStay == Spec => []FilesWhereReported
<1>1. StoreInv => FilesWhereReported
  BY DEF StoreInv
<1> QED
  BY <1>1, StoreInit, StoreStep, PTL DEF Spec

(***************************************************************************)
(* No file of the directory is ever replaced.                              *)
(***************************************************************************)
THEOREM NoOverwrite == Spec => NothingIsReplaced
<1>1. StoreInv /\ [Next]_trafficVars =>
        [\A p \in Places : disk[p] # "free" => disk'[p] \in {disk[p], "free"}]_disk
  BY NoStepReplaces
<1> QED
  BY <1>1, StoreInit, StoreStep, PTL DEF Spec, NothingIsReplaced

-----------------------------------------------------------------------------
(***************************************************************************)
(* Routes.  Only Accept registers one, and only for a free key; only the   *)
(* task that receives drops one, and it is its own.                        *)
(***************************************************************************)
RoutesEnd ==
  \A k \in Senders \X Ids : routes[k] # "none" =>
    \E t \in Transfers : routes[k] = t /\ Key(t) = k /\ rcv[t] = "receive"

RouteInv ==
  /\ from \in [Transfers -> Senders]
  /\ wireId \in [Transfers -> Ids]
  /\ DOMAIN rcv = Transfers
  /\ DOMAIN routes = Senders \X Ids
  /\ RoutesAreOwned
  /\ RoutesEnd

LEMMA RoutesStart == Init => RouteInv
BY DEF Init, RouteInv, RoutesAreOwned, RoutesEnd

LEMMA RouteStep == RouteInv /\ [Next]_trafficVars => RouteInv'
<1> SUFFICES ASSUME RouteInv, [Next]_trafficVars PROVE RouteInv'
  OBVIOUS
<1> USE DEF RouteInv, RoutesAreOwned, RoutesEnd, Key
<1>1. CASE UNCHANGED <<from, wireId, rcv, routes>>
  BY <1>1
<1>2. ASSUME NEW t \in Transfers, Accept(t)
      PROVE  RouteInv'
  <2>1. UNCHANGED <<from, wireId>> /\ Register(t) /\ rcv[t] = "asked"
    BY <1>2 DEF Accept, fixedVars
  <2>2. CASE routes[Key(t)] = "none"
    <3>1. \A u \in Transfers : u # "none"
      BY TrafficAssumption
    <3> QED
      BY <2>1, <2>2, <3>1 DEF Register
  <2>3. CASE routes[Key(t)] # "none"
    BY <2>1, <2>3 DEF Register
  <2> QED
    BY <2>2, <2>3
<1>3. ASSUME NEW t \in Transfers, NEW how \in {"completed", "failed", "cancelled"},
             LeaveReceiver(t, how)
      PROVE  RouteInv'
  <2>1. /\ UNCHANGED <<from, wireId>> /\ rcv' = [rcv EXCEPT ![t] = how]
        /\ DropRoute(t)
    BY <1>3 DEF LeaveReceiver, fixedVars
  <2>2. CASE rcv[t] = "receive"
    <3>1. routes' = [routes EXCEPT ![Key(t)] = "none"]
      BY <2>1, <2>2 DEF DropRoute
    <3>2. \A u \in Transfers : rcv[u] = "receive" /\ u # t => Key(u) # Key(t)
      BY <2>2
    <3> QED
      BY <2>1, <3>1, <3>2
  <2>3. CASE rcv[t] # "receive"
    BY <2>1, <2>3 DEF DropRoute
  <2> QED
    BY <2>2, <2>3
<1>4. ASSUME NEW t \in Transfers, TakeOffer(t)
      PROVE  RouteInv'
  BY <1>4 DEF TakeOffer, fixedVars
<1>5. ASSUME NEW t \in Transfers, SenderStep(t)
      PROVE  UNCHANGED <<from, wireId, rcv, routes>>
  BY <1>5 DEF SenderStep, StartTransfer, CompleteSender, SenderFails, QueueFile,
     OpenStream, ReadHeader, SendData, ReadResult, OutStep, LeaveSender, fixedVars
<1>6. ASSUME NEW t \in Transfers, NEW f \in FilesOf[t],
             \/ RouteStream(t, f) \/ TakeStream(t, f) \/ StartReceive(f)
             \/ WriteHeader(f) \/ ReadData(t, f) \/ AnswerFile(f)
      PROVE  UNCHANGED <<from, wireId, rcv, routes>>
  BY <1>6 DEF RouteStream, TakeStream, StartReceive, WriteHeader, ReadData,
     AnswerFile, InStep, fixedVars
<1>7. ASSUME NEW t \in Transfers, ReceiverStep(t)
      PROVE  RouteInv'
  BY <1>1, <1>3, <1>4, <1>6, <1>7
     DEF ReceiverStep, CompleteReceiver, ReceiverFails
<1>8. ASSUME UserStep
      PROVE  RouteInv'
  <2>1. ASSUME NEW t \in Transfers, Cancel(t)
        PROVE  RouteInv'
    <3>1. LeaveSender(t, "cancelled") => UNCHANGED <<from, wireId, rcv, routes>>
      BY DEF LeaveSender, fixedVars
    <3> QED
      BY <1>1, <1>3, <2>1, <3>1 DEF Cancel
  <2>2. ASSUME NEW t \in Transfers,
               Offer(t) \/ \E e \in {"sender", "receiver"} : Pause(t, e) \/ Resume(t, e)
        PROVE  UNCHANGED <<from, wireId, rcv, routes>>
    BY <2>2 DEF Offer, Pause, Resume, taskVars, fixedVars
  <2> QED
    BY <1>1, <1>2, <1>8, <2>1, <2>2 DEF UserStep, taskVars, fixedVars
<1>9. ASSUME NEW f \in Files, BlockingPool(f)
      PROVE  UNCHANGED <<from, wireId, rcv, routes>>
  BY <1>9 DEF BlockingPool, taskVars, fixedVars
<1> QED
  BY <1>1, <1>5, <1>7, <1>8, <1>9
     DEF Next, SystemStep, EnsureRouter, trafficVars, taskVars, fixedVars

(***************************************************************************)
(* Who receives owns the route of its id.                                  *)
(***************************************************************************)
THEOREM RoutesOwned == Spec => []RoutesAreOwned
<1>1. RouteInv => RoutesAreOwned
  BY DEF RouteInv
<1> QED
  BY <1>1, RoutesStart, RouteStep, PTL DEF Spec

(***************************************************************************)
(* A route is there only while the transfer that registered it receives:   *)
(* its id can be used again afterwards, however the transfer has ended.    *)
(***************************************************************************)
THEOREM RoutesEndWithTheirTasks == Spec => []RoutesEnd
<1>1. RouteInv => RoutesEnd
  BY DEF RouteInv
<1> QED
  BY <1>1, RoutesStart, RouteStep, PTL DEF Spec

-----------------------------------------------------------------------------
(***************************************************************************)
(* Staging files.  The pool has removed the staging file of what it has    *)
(* put in place; a task that is dropped leaves its file to its clean-up,   *)
(* which may run before the pool has created the file, and misses it then. *)
(***************************************************************************)
Attended(f) == in[f] \in Receiving \/ f \in cleaning \/ f \in missed

StagingInv ==
  /\ DOMAIN pool = Files /\ DOMAIN part = Files /\ DOMAIN in = Files
  /\ \A f \in Files : pool[f] = "done" => part[f] = "absent"
  /\ \A f \in Files : pool[f] = "open" => Attended(f)
  /\ \A f \in Files : part[f] = "present" => Attended(f)

\* A file whose stream has not been opened has no task at the receiver.
UnopenedInv ==
  /\ DOMAIN out = Files /\ DOMAIN in = Files
  /\ \A f \in Files : out[f] \in {"idle", "queued"} => in[f] = "none"

LEMMA UnopenedStep == UnopenedInv /\ [Next]_trafficVars => UnopenedInv'
<1> SUFFICES ASSUME UnopenedInv, [Next]_trafficVars PROVE UnopenedInv'
  OBVIOUS
<1> USE DEF UnopenedInv
<1>1. CASE UNCHANGED <<out, in>>
  BY <1>1
<1>2. ASSUME NEW t \in Transfers, NEW f \in FilesOf[t],
             \/ RouteStream(t, f) \/ TakeStream(t, f) \/ StartReceive(f)
             \/ WriteHeader(f) \/ ReadData(t, f) \/ AnswerFile(f)
      PROVE  UnopenedInv'
  <2>1. UNCHANGED out /\ in[f] # "none" /\ \E new : in' = [in EXCEPT ![f] = new]
    BY <1>2 DEF RouteStream, TakeStream, StartReceive, WriteHeader, ReadData,
       AnswerFile, InStep
  <2> QED
    BY <2>1, TrafficAssumption
<1>3. ASSUME NEW t \in Transfers, NEW f \in FilesOf[t],
             \/ QueueFile(t, f) \/ OpenStream(t, f) \/ ReadHeader(f)
             \/ SendData(t, f) \/ ReadResult(f)
      PROVE  UnopenedInv'
  <2>1. f \in Files
    BY TrafficAssumption
  <2>2. CASE QueueFile(t, f)
    BY <2>1, <2>2 DEF QueueFile
  <2>3. CASE OpenStream(t, f)
    BY <2>1, <2>3 DEF OpenStream
  <2>4. CASE ReadHeader(f) \/ SendData(t, f) \/ ReadResult(f)
    BY <2>1, <2>4 DEF ReadHeader, SendData, ReadResult, OutStep
  <2> QED
    BY <1>3, <2>2, <2>3, <2>4
<1>4. ASSUME NEW t \in Transfers, NEW how \in {"completed", "failed", "cancelled"},
             LeaveSender(t, how)
      PROVE  UnopenedInv'
  <2>1. /\ UNCHANGED in
        /\ out' = [f \in Files |->
             IF f \in FilesOf[t] /\ out[f] # "done" THEN "gone" ELSE out[f]]
    BY <1>4 DEF LeaveSender
  <2> QED
    BY <2>1
<1>5. ASSUME NEW t \in Transfers, NEW how \in {"completed", "failed", "cancelled"},
             LeaveReceiver(t, how)
      PROVE  UnopenedInv'
  <2>1. /\ UNCHANGED out
        /\ DOMAIN in' = Files
        /\ \A f \in Files : in[f] = "none" => in'[f] = "none"
    BY <1>5 DEF LeaveReceiver, FilesAt, InRoute, Receiving
  <2> QED
    BY <2>1
<1>6. ASSUME NEW t \in Transfers,
             StartTransfer(t) \/ TakeOffer(t) \/ Offer(t) \/ Accept(t)
             \/ \E e \in {"sender", "receiver"} : Pause(t, e) \/ Resume(t, e)
      PROVE  UNCHANGED <<out, in>>
  BY <1>6 DEF StartTransfer, TakeOffer, Offer, Accept, Pause, Resume, taskVars
<1>7. ASSUME NEW f \in Files, BlockingPool(f)
      PROVE  UNCHANGED <<out, in>>
  BY <1>7 DEF BlockingPool, taskVars
<1>8. ASSUME NEW t \in Transfers, SenderStep(t)
      PROVE  UnopenedInv'
  BY <1>1, <1>3, <1>4, <1>6, <1>8 DEF SenderStep, CompleteSender, SenderFails
<1>9. ASSUME NEW t \in Transfers, ReceiverStep(t)
      PROVE  UnopenedInv'
  BY <1>1, <1>2, <1>5, <1>6, <1>9 DEF ReceiverStep, CompleteReceiver, ReceiverFails
<1>10. ASSUME UserStep
       PROVE  UnopenedInv'
  BY <1>1, <1>4, <1>5, <1>6, <1>10 DEF UserStep, Cancel, taskVars
<1> QED
  BY <1>1, <1>7, <1>8, <1>9, <1>10
     DEF Next, SystemStep, EnsureRouter, trafficVars, taskVars

\* A step that has no part in staging.
StagingKeeps == UNCHANGED <<part, pool, in, stagingVars>>

LEMMA StagingStep ==
  StagingInv /\ UnopenedInv /\ [Next]_trafficVars => StagingInv'
<1> SUFFICES ASSUME StagingInv, UnopenedInv, [Next]_trafficVars PROVE StagingInv'
  OBVIOUS
<1> USE DEF StagingInv, Attended, Receiving, stagingVars
<1>1. CASE StagingKeeps
  BY <1>1 DEF StagingKeeps
<1>2. ASSUME NEW t \in Transfers, NEW f \in FilesOf[t],
             \/ RouteStream(t, f) \/ TakeStream(t, f) \/ StartReceive(f)
             \/ WriteHeader(f) \/ ReadData(t, f) \/ AnswerFile(f)
             \/ OpenStream(t, f)
      PROVE  StagingInv'
  <2>1. f \in Files
    BY TrafficAssumption
  <2>2. CASE RouteStream(t, f) \/ TakeStream(t, f) \/ WriteHeader(f)
    BY <2>1, <2>2 DEF RouteStream, TakeStream, WriteHeader, InStep, storageVars
  <2>3. CASE StartReceive(f)
    BY <2>1, <2>3 DEF StartReceive, InStep, OpenStaging, PoolStep
  <2>4. CASE ReadData(t, f)
    BY <2>1, <2>4 DEF ReadData, InStep, Finalize, PoolStep
  <2>5. CASE AnswerFile(f)
    BY <2>1, <2>5 DEF AnswerFile, InStep, storageVars
  <2>6. CASE OpenStream(t, f)
    BY <2>1, <2>6 DEF OpenStream, UnopenedInv, storageVars
  <2> QED
    BY <1>2, <2>2, <2>3, <2>4, <2>5, <2>6
<1>3. ASSUME NEW t \in Transfers, NEW how, LeaveReceiver(t, how)
      PROVE  StagingInv'
  <2> DEFINE dropped == FilesAt(in, FilesOf[t], {"waiting"} \union Receiving) \union InRoute(t)
  <2>1. /\ in' = [f \in Files |-> IF f \in dropped THEN "gone" ELSE in[f]]
        /\ cleaning' = cleaning \union FilesAt(in, FilesOf[t], Receiving)
        /\ UNCHANGED <<part, pool, missed>>
    BY <1>3 DEF LeaveReceiver, CleanUp
  <2>2. ASSUME NEW f \in Files, Attended(f)
        PROVE  Attended(f)'
    <3>1. CASE f \in dropped /\ in[f] \in Receiving
      BY <2>1, <3>1 DEF FilesAt, InRoute
    <3>2. CASE f \notin dropped
      BY <2>1, <2>2, <3>2
    <3>3. CASE in[f] \notin Receiving
      BY <2>1, <2>2, <3>3
    <3> QED
      BY <3>1, <3>2, <3>3
  <2>3. /\ DOMAIN in' = Files
        /\ \A f \in Files : pool'[f] = "done" => part'[f] = "absent"
    BY <2>1
  <2> HIDE DEF dropped, Attended
  <2> QED
    BY <2>1, <2>2, <2>3
<1>4. ASSUME NEW t \in Transfers,
             \/ StartTransfer(t) \/ (\E how \in {"completed", "failed", "cancelled"} : LeaveSender(t, how))
             \/ \E f \in FilesOf[t] :
                  QueueFile(t, f) \/ ReadHeader(f) \/ SendData(t, f) \/ ReadResult(f)
             \/ TakeOffer(t) \/ Offer(t) \/ Accept(t)
             \/ \E e \in {"sender", "receiver"} : Pause(t, e) \/ Resume(t, e)
      PROVE  StagingKeeps
  BY <1>4 DEF StagingKeeps, StartTransfer, LeaveSender, QueueFile, ReadHeader, SendData,
     ReadResult, OutStep, TakeOffer, Offer, Accept, Pause, Resume, storageVars, taskVars
<1>5. ASSUME NEW f \in Files, BlockingPool(f)
      PROVE  StagingInv'
  <2>1. UNCHANGED in
    BY <1>5 DEF BlockingPool, taskVars
  <2>2. CASE StagingOpened(f)
    BY <2>1, <2>2 DEF StagingOpened, PoolStep
  <2>3. CASE Probe(f)
    BY <2>1, <2>3 DEF Probe, PoolStep
  <2>4. CASE Link(f)
    BY <2>1, <2>4 DEF Link, PoolStep
  <2>5. CASE Unlink(f)
    BY <2>1, <2>5 DEF Unlink, PoolStep
  <2>6. CASE RemoveStaging(f)
    BY <2>1, <2>6 DEF RemoveStaging
  <2> QED
    BY <1>5, <2>2, <2>3, <2>4, <2>5, <2>6 DEF BlockingPool, PoolWorks
<1>6. ASSUME NEW t \in Transfers, SenderStep(t)
      PROVE  StagingInv'
  BY <1>1, <1>2, <1>4, <1>6 DEF SenderStep, CompleteSender, SenderFails
<1>7. ASSUME NEW t \in Transfers, ReceiverStep(t)
      PROVE  StagingInv'
  BY <1>1, <1>2, <1>3, <1>4, <1>7 DEF ReceiverStep, CompleteReceiver, ReceiverFails
<1>8. ASSUME UserStep
      PROVE  StagingInv'
  <2>1. ASSUME NEW t \in Transfers, Cancel(t)
        PROVE  StagingInv'
    BY <1>1, <1>3, <1>4, <2>1 DEF Cancel
  <2>2. ASSUME NEW p \in UserPlaces, UserPuts(p), UNCHANGED taskVars
        PROVE  StagingKeeps
    BY <2>2 DEF UserPuts, StagingKeeps, taskVars
  <2> QED
    BY <1>1, <1>4, <1>8, <2>1, <2>2 DEF UserStep, UserWorks
<1> QED
  BY <1>1, <1>5, <1>6, <1>7, <1>8
     DEF Next, SystemStep, EnsureRouter, StagingKeeps, trafficVars, taskVars,
         storageVars

(***************************************************************************)
(* Every staging file has someone to remove it, but for those whose        *)
(* clean-up ran before the pool had created them.                          *)
(***************************************************************************)
THEOREM StagingAccounted == Spec => []StagingIsRemoved
<1>1. Init => StagingInv
  BY DEF Init, StorageInit, StagingInv
<1>2. Init => UnopenedInv
  BY DEF Init, UnopenedInv
<1>3. StagingInv => StagingIsRemoved
  BY DEF StagingInv, StagingIsRemoved, Attended
<1> QED
  BY <1>1, <1>2, <1>3, StagingStep, UnopenedStep, PTL DEF Spec

-----------------------------------------------------------------------------
(***************************************************************************)
(* Queues.                                                                 *)
(***************************************************************************)
Elements(q) == {q[i] : i \in DOMAIN q}

Distinct(q) == \A i, j \in DOMAIN q : q[i] = q[j] => i = j

\* A queue with one more at the end.
LEMMA AppendElements ==
  ASSUME NEW S, NEW q \in Seq(S), NEW x \in S
  PROVE  Elements(Append(q, x)) = Elements(q) \union {x}
<1>1. DOMAIN Append(q, x) = DOMAIN q \union {Len(q) + 1}
  OBVIOUS
<1>2. \A i \in DOMAIN q : Append(q, x)[i] = q[i]
  OBVIOUS
<1>3. Append(q, x)[Len(q) + 1] = x
  OBVIOUS
<1> QED
  BY <1>1, <1>2, <1>3 DEF Elements

LEMMA AppendDistinct ==
  ASSUME NEW S, NEW q \in Seq(S), NEW x \in S, Distinct(q), x \notin Elements(q)
  PROVE  Distinct(Append(q, x))
BY DEF Distinct, Elements

\* NotIn leaves the elements that are not in fs, each as often as before.
LEMMA NotInLeaves ==
  ASSUME NEW S, NEW q \in Seq(S), NEW fs
  PROVE  /\ NotIn(fs, q) \in Seq(S)
         /\ Elements(NotIn(fs, q)) = Elements(q) \ fs
         /\ Distinct(q) => Distinct(NotIn(fs, q))
<1> DEFINE n == Len(q)
           Left(g) == g = [k \in 0 .. n |->
                        IF k = 0 THEN <<>>
                        ELSE IF q[k] \in fs THEN g[k - 1] ELSE Append(g[k - 1], q[k])]
           left == CHOOSE g : Left(g)
           next == [p \in Seq(S) \X (1 .. n) |->
                      IF q[p[2]] \in fs THEN p[1] ELSE Append(p[1], q[p[2]])]
<1>1. n \in Nat /\ <<>> \in Seq(S) /\ \A k \in 1 .. n : q[k] \in S
  OBVIOUS
<1>2. next \in [Seq(S) \X (1 .. n) -> Seq(S)]
  OBVIOUS
<1>3. \A r \in Seq(S), k \in 1 .. n :
        next[<<r, k>>] = IF q[k] \in fs THEN r ELSE Append(r, q[k])
  OBVIOUS
<1> HIDE DEF next
<1>4. \E g : Left(g)
  <2>1. PICK g \in [0 .. n -> Seq(S)] : Follows(g, n, <<>>, next)
    BY <1>1, <1>2, Iteration
  <2>2. \A k \in 1 .. n : k - 1 \in 0 .. n /\ g[k - 1] \in Seq(S)
    OBVIOUS
  <2> HIDE DEF n
  <2>3. \A k \in 1 .. n :
          g[k] = IF q[k] \in fs THEN g[k - 1] ELSE Append(g[k - 1], q[k])
    BY <1>3, <2>1, <2>2 DEF Follows
  <2>4. g[0] = <<>> /\ \A k \in 0 .. n : k # 0 => k \in 1 .. n
    BY <1>1, <2>1 DEF Follows
  <2>5. Left(g)
    BY <2>1, <2>3, <2>4
  <2> QED
    BY <2>5
<1>5. Left(left)
  BY <1>4
<1>6. NotIn(fs, q) = left[n]
  BY DEF NotIn
<1> HIDE DEF left, n
<1>7. /\ left[0] = <<>>
      /\ \A k \in 1 .. n :
           left[k] = IF q[k] \in fs THEN left[k - 1] ELSE Append(left[k - 1], q[k])
  <2>1. 0 \in 0 .. n /\ \A k \in 1 .. n : k \in 0 .. n /\ k # 0
    BY <1>1
  <2> QED
    BY <1>5, <2>1, Zenon
<1> DEFINE Good(k) == /\ left[k] \in Seq(S)
                      /\ Elements(left[k]) = {q[i] : i \in 1 .. k} \ fs
                      /\ Distinct(q) => Distinct(left[k])
           G == {k \in 0 .. n : Good(k)}
<1> HIDE DEF Left
<1>8. 0 \in G
  <2>1. Elements(<<>>) = {} /\ Distinct(<<>>)
    BY DEF Elements, Distinct
  <2>2. {q[i] : i \in 1 .. 0} = {}
    OBVIOUS
  <2>3. Good(0)
    BY <1>1, <1>7, <2>1, <2>2
  <2> QED
    BY <1>1, <2>3
<1>9. ASSUME NEW k \in 1 .. n, k - 1 \in G
      PROVE  k \in G
  <2> DEFINE r == left[k - 1]
  <2>1. /\ r \in Seq(S)
        /\ Elements(r) = {q[i] : i \in 1 .. k - 1} \ fs
        /\ Distinct(q) => Distinct(r)
    BY <1>9
  <2>2. left[k] = IF q[k] \in fs THEN r ELSE Append(r, q[k])
    BY <1>7
  <2> HIDE DEF r
  <2>3. {q[i] : i \in 1 .. k} = {q[i] : i \in 1 .. k - 1} \union {q[k]}
    BY <1>1
  <2>4. CASE q[k] \in fs
    BY <1>1, <2>1, <2>2, <2>3, <2>4
  <2>5. CASE q[k] \notin fs
    <3>1. Append(r, q[k]) \in Seq(S)
      BY <1>1, <2>1
    <3>2. Elements(Append(r, q[k])) = Elements(r) \union {q[k]}
      BY <1>1, <2>1, AppendElements
    <3>3. ASSUME Distinct(q)
          PROVE  Distinct(Append(r, q[k]))
      <4>1. q[k] \notin Elements(r)
        BY <1>1, <2>1, <3>3 DEF Distinct, n
      <4> QED
        BY <1>1, <2>1, <3>3, <4>1, AppendDistinct
    <3>4. left[k] = Append(r, q[k])
      BY <2>2, <2>5
    <3>5. Elements(left[k]) = {q[i] : i \in 1 .. k} \ fs
      BY <2>1, <2>3, <2>5, <3>2, <3>4
    <3>6. Good(k)
      BY <3>1, <3>3, <3>4, <3>5
    <3> QED
      BY <1>1, <3>6
  <2> QED
    BY <2>4, <2>5
<1>10. G = 0 .. n
  <2>1. G \subseteq 0 .. n
    OBVIOUS
  <2> HIDE DEF G
  <2> QED
    BY <1>1, <1>8, <1>9, <2>1, OneByOne
<1>11. Good(n)
  BY <1>1, <1>10
<1>12. Elements(q) = {q[i] : i \in 1 .. n}
  BY DEF Elements, n
<1> QED
  BY <1>6, <1>11, <1>12

-----------------------------------------------------------------------------
(***************************************************************************)
(* Types.                                                                  *)
(***************************************************************************)
Hows == {"completed", "failed", "cancelled"}

\* The directory and what the pool does in it.
LEMMA StorageTypes ==
  ASSUME StorageTypeOK,
         \/ \E f \in Files : OpenStaging(f) \/ Finalize(f) \/ PoolWorks(f) \/ RemoveStaging(f)
         \/ UserWorks
  PROVE  StorageTypeOK'
<1> USE DEF StorageTypeOK, PoolStep, stagingVars
<1>1. ASSUME NEW f \in Files, OpenStaging(f) \/ Finalize(f)
      PROVE  StorageTypeOK'
  BY <1>1 DEF OpenStaging, Finalize
<1>2. ASSUME NEW f \in Files, RemoveStaging(f) \/ StagingOpened(f) \/ Unlink(f)
      PROVE  StorageTypeOK'
  BY <1>2 DEF RemoveStaging, StagingOpened, Unlink
<1>3. ASSUME NEW f \in Files, Probe(f)
      PROVE  StorageTypeOK'
  BY <1>3, StorageAssumption DEF Probe
<1>4. ASSUME NEW f \in Files, Link(f)
      PROVE  StorageTypeOK'
  <2>1. CASE UNCHANGED disk
    BY <1>4, <2>1, StorageAssumption DEF Link, Put
  <2>2. CASE Put(Place(f), f) /\ PoolStep(f, "link", "unlink") /\ UNCHANGED index
    BY <1>4, <2>2 DEF Link, Put
  <2> QED
    BY <1>4, <2>1, <2>2 DEF Link
<1>5. ASSUME NEW p \in UserPlaces, UserPuts(p)
      PROVE  StorageTypeOK'
  BY <1>5 DEF UserPuts, Put
<1> QED
  BY <1>1, <1>2, <1>3, <1>4, <1>5 DEF PoolWorks, UserWorks

\* The files of a transfer.
LEMMA TransferFiles ==
  ASSUME NEW t \in Transfers
  PROVE  FilesOf[t] \subseteq Files
BY TrafficAssumption

\* A step outside the directory.
LEMMA StorageUntouched ==
  ASSUME StorageTypeOK, UNCHANGED <<name, disk, part, pool, index, missed>>,
         cleaning' \subseteq Files
  PROVE  StorageTypeOK'
BY DEF StorageTypeOK, Places

\* A transfer that leaves.
LEMMA LeaveSenderTypes ==
  ASSUME TypeOK, NEW t \in Transfers, NEW how \in Hows, LeaveSender(t, how)
  PROVE  TypeOK'
<1> USE DEF TypeOK, LeaveSender, storageVars, fixedVars
<1>1. StorageTypeOK'
  BY DEF StorageTypeOK
<1>2. snd' \in [Transfers -> Active \union {"idle", "completed", "failed", "cancelled"}]
  BY DEF Hows
<1>3. out' \in [Files -> Sending \union {"idle", "queued", "done", "gone"}]
  BY DEF Sending
<1>4. NotIn(FilesOf[t], sendQueue[from[t]]) \in Seq(Files)
  BY NotInLeaves
<1>5. sendQueue' \in [Senders -> Seq(Files)]
  BY <1>4
<1> QED
  BY <1>1, <1>2, <1>3, <1>5 DEF Places

LEMMA LeaveReceiverTypes ==
  ASSUME TypeOK, NEW t \in Transfers, NEW how \in Hows, LeaveReceiver(t, how)
  PROVE  TypeOK'
<1> USE DEF TypeOK, LeaveReceiver, storageVars, fixedVars
<1>1. StorageTypeOK'
  <2>1. cleaning \subseteq Files /\ FilesOf[t] \subseteq Files
    <3>1. cleaning \subseteq Files
      BY DEF StorageTypeOK
    <3> QED
      BY <3>1, TransferFiles
  <2>2. cleaning' \subseteq cleaning \union FilesOf[t]
    BY DEF CleanUp, FilesAt
  <2> QED
    BY <2>1, <2>2, StorageUntouched
<1>2. rcv' \in [Transfers -> Underway \union {"idle", "completed", "failed", "cancelled"}]
  BY DEF Hows
<1>3. in' \in [Files -> Receiving \union
                        {"none", "arrived", "routed", "waiting", "answered",
                         "gone", "refused"}]
  BY DEF Receiving
<1>4. receiveQueue' \in Seq(Files)
  BY NotInLeaves
<1>5. routes' \in [Senders \X Ids -> Transfers \union {"none"}]
  BY DEF DropRoute, Key
<1> QED
  BY <1>1, <1>2, <1>3, <1>4, <1>5 DEF Places

(***************************************************************************)
(* Every step keeps the types.                                             *)
(***************************************************************************)
LEMMA TypeStep == TypeOK /\ [Next]_trafficVars => TypeOK'
<1> SUFFICES ASSUME TypeOK, [Next]_trafficVars PROVE TypeOK'
  OBVIOUS
<1> USE DEF TypeOK
<1>1. CASE UNCHANGED trafficVars
  BY <1>1 DEF trafficVars, taskVars, fixedVars, storageVars, StorageTypeOK, Places
<1>2. ASSUME NEW s \in Senders, EnsureRouter(s)
      PROVE  TypeOK'
  BY <1>2 DEF EnsureRouter, taskVars, storageVars, StorageTypeOK, Places
<1>3. ASSUME NEW t \in Transfers, Offer(t) \/ StartTransfer(t) \/ TakeOffer(t) \/ Accept(t)
      PROVE  TypeOK'
  <2>1. UNCHANGED <<storageVars, fixedVars, out, in, sendQueue, receiveQueue, path, paused>>
    BY <1>3 DEF Offer, StartTransfer, TakeOffer, Accept
  <2>2. StorageTypeOK'
    BY <2>1, StorageUntouched DEF storageVars, StorageTypeOK
  <2>3. snd' \in [Transfers -> Active \union {"idle", "completed", "failed", "cancelled"}]
    <3>1. UNCHANGED snd \/ \E s \in {"offered", "transfer"} : snd' = [snd EXCEPT ![t] = s]
      BY <1>3, Zenon DEF Offer, StartTransfer, TakeOffer, Accept
    <3> QED
      BY <3>1 DEF Active
  <2>4. rcv' \in [Transfers -> Underway \union {"idle", "completed", "failed", "cancelled"}]
    <3>1. UNCHANGED rcv \/ \E s \in {"asked", "failed", "receive"} : rcv' = [rcv EXCEPT ![t] = s]
      BY <1>3, Zenon DEF Offer, StartTransfer, TakeOffer, Accept, Register
    <3> QED
      BY <3>1 DEF Underway
  <2>5. routes' \in [Senders \X Ids -> Transfers \union {"none"}]
    <3>1. UNCHANGED routes \/ routes' = [routes EXCEPT ![Key(t)] = t]
      BY <1>3, Zenon DEF Offer, StartTransfer, TakeOffer, Accept, Register
    <3> QED
      BY <3>1
  <2> QED
    BY <2>1, <2>2, <2>3, <2>4, <2>5 DEF fixedVars, Places
<1>4. ASSUME NEW t \in Transfers, NEW f \in FilesOf[t],
             \/ QueueFile(t, f) \/ OpenStream(t, f)
             \/ ReadHeader(f) \/ SendData(t, f) \/ ReadResult(f)
      PROVE  TypeOK'
  <2>1. f \in Files
    BY TrafficAssumption
  <2> USE DEF storageVars, fixedVars, StorageTypeOK, Sending
  <2>2. CASE QueueFile(t, f)
    <3>1. Append(sendQueue[from[t]], f) \in Seq(Files)
      BY <2>1
    <3> QED
      BY <2>1, <2>2, <3>1 DEF QueueFile, Places
  <2>3. CASE OpenStream(t, f)
    <3>1. Tail(sendQueue[from[t]]) \in Seq(Files)
      BY <2>3 DEF OpenStream
    <3> QED
      BY <2>1, <2>3, <3>1 DEF OpenStream, Places
  <2>4. CASE ReadHeader(f) \/ SendData(t, f) \/ ReadResult(f)
    <3>1. /\ \E new \in {"data", "sent", "done"} : out' = [out EXCEPT ![f] = new]
          /\ UNCHANGED <<storageVars, fixedVars, snd, rcv, routes, in, sendQueue,
                         receiveQueue, path, paused>>
      BY <2>4, Zenon DEF ReadHeader, SendData, ReadResult, OutStep
    <3> QED
      BY <2>1, <3>1 DEF Places
  <2> QED
    BY <1>4, <2>2, <2>3, <2>4
<1>5. ASSUME NEW t \in Transfers, NEW f \in FilesOf[t],
             \/ RouteStream(t, f) \/ TakeStream(t, f) \/ StartReceive(f)
             \/ WriteHeader(f) \/ ReadData(t, f) \/ AnswerFile(f)
      PROVE  TypeOK'
  <2>1. f \in Files
    BY TrafficAssumption
  <2> USE DEF fixedVars, InStep, Receiving
  <2>2. CASE RouteStream(t, f) \/ TakeStream(t, f) \/ WriteHeader(f)
    <3>1. StorageTypeOK'
      BY <2>2 DEF RouteStream, TakeStream, WriteHeader, storageVars, StorageTypeOK, Places
    <3>2. UNCHANGED receiveQueue \/ receiveQueue' = Append(receiveQueue, f)
      BY <2>2, Zenon DEF RouteStream, TakeStream, WriteHeader
    <3>3. /\ \E new \in {"routed", "refused", "waiting", "ready"} : in' = [in EXCEPT ![f] = new]
          /\ UNCHANGED <<fixedVars, snd, rcv, routes, out, sendQueue, paused, path>>
      BY <2>2, Zenon DEF RouteStream, TakeStream, WriteHeader
    <3>4. receiveQueue' \in Seq(Files)
      <4>1. receiveQueue \in Seq(Files)
        OBVIOUS
      <4>2. Append(receiveQueue, f) \in Seq(Files)
        BY <2>1, <4>1
      <4> QED
        BY <3>2, <4>1, <4>2
    <3>5. path' \in [Files -> Places \union {NoPath}]
      BY <3>3
    <3> QED
      BY <2>1, <3>1, <3>3, <3>4, <3>5
  <2>3. CASE StartReceive(f)
    <3>1. StorageTypeOK'
      BY <2>1, <2>3, StorageTypes DEF StartReceive
    <3>2. receiveQueue' \in Seq(Files)
      BY <2>3 DEF StartReceive
    <3> QED
      BY <2>1, <2>3, <3>1, <3>2 DEF StartReceive, Places
  <2>4. CASE ReadData(t, f)
    <3>1. StorageTypeOK'
      BY <2>1, <2>4, StorageTypes DEF ReadData
    <3> QED
      BY <2>1, <2>4, <3>1 DEF ReadData, Places
  <2>5. CASE AnswerFile(f)
    <3>1. Place(f) \in Places
      BY <2>1, StorageAssumption DEF StorageTypeOK, Place, Places
    <3>2. StorageTypeOK'
      BY <2>5 DEF AnswerFile, storageVars, StorageTypeOK, Places
    <3> QED
      BY <2>1, <2>5, <3>1, <3>2 DEF AnswerFile
  <2> QED
    BY <1>5, <2>2, <2>3, <2>4, <2>5
<1>6. ASSUME NEW f \in Files, BlockingPool(f)
      PROVE  TypeOK'
  <2>1. StorageTypeOK'
    BY <1>6, StorageTypes DEF BlockingPool
  <2> QED
    BY <1>6, <2>1 DEF BlockingPool, taskVars, fixedVars, Places
<1>7. ASSUME NEW t \in Transfers, NEW e \in {"sender", "receiver"}, Pause(t, e) \/ Resume(t, e)
      PROVE  TypeOK'
  <2>1. <<t, e>> \in Transfers \X {"sender", "receiver"}
    OBVIOUS
  <2>2. /\ UNCHANGED <<storageVars, taskVars, from, wireId, routers>>
        /\ paused' \subseteq paused \union {<<t, e>>}
    BY <1>7 DEF Pause, Resume, fixedVars
  <2>3. delayed' \in BOOLEAN
    <3>1. CASE Pause(t, e)
      BY <3>1, Zenon DEF Pause
    <3>2. CASE Resume(t, e)
      BY <3>2, Zenon DEF Resume, fixedVars
    <3> QED
      BY <1>7, <3>1, <3>2
  <2>4. paused' \subseteq Transfers \X {"sender", "receiver"}
    BY <2>1, <2>2
  <2>5. StorageTypeOK'
    BY <2>2 DEF storageVars, StorageTypeOK, Places
  <2> QED
    BY <2>2, <2>3, <2>4, <2>5 DEF taskVars, Places
<1>8. CASE UserWorks /\ UNCHANGED <<taskVars, fixedVars, paused>>
  <2>1. StorageTypeOK'
    BY <1>8, StorageTypes
  <2> QED
    BY <1>8, <2>1 DEF taskVars, fixedVars, Places
<1>9. ASSUME NEW t \in Transfers, SenderStep(t) \/ ReceiverStep(t) \/ Cancel(t)
      PROVE  TypeOK'
  <2>1. "completed" \in Hows /\ "failed" \in Hows /\ "cancelled" \in Hows
    BY DEF Hows
  <2>2. ASSUME NEW how \in Hows, LeaveSender(t, how) \/ LeaveReceiver(t, how)
        PROVE  TypeOK'
    BY <2>2, LeaveSenderTypes, LeaveReceiverTypes
  <2>3. CASE SenderStep(t)
    BY <1>3, <1>4, <2>1, <2>2, <2>3 DEF SenderStep, CompleteSender, SenderFails
  <2>4. CASE ReceiverStep(t)
    BY <1>3, <1>5, <2>1, <2>2, <2>4 DEF ReceiverStep, CompleteReceiver, ReceiverFails
  <2>5. CASE Cancel(t)
    BY <2>1, <2>2, <2>5 DEF Cancel
  <2> QED
    BY <1>9, <2>3, <2>4, <2>5
<1>10. CASE UserStep
  BY <1>3, <1>7, <1>8, <1>9, <1>10 DEF UserStep
<1> QED
  BY <1>1, <1>2, <1>6, <1>9, <1>10 DEF Next, SystemStep

LEMMA TypeInit == Init => TypeOK
<1>1. 0 \in 0 .. MaxIndex
  BY StorageAssumption
<1>2. <<>> \in Seq(Files)
  OBVIOUS
<1>3. StorageInit => StorageTypeOK
  BY <1>1 DEF StorageInit, StorageTypeOK
<1>4. sendQueue = [s \in Senders |-> <<>>] => sendQueue \in [Senders -> Seq(Files)]
  BY <1>2
<1> SUFFICES ASSUME Init PROVE TypeOK
  OBVIOUS
<1>5. receiveQueue \in Seq(Files) /\ sendQueue \in [Senders -> Seq(Files)]
  BY <1>2, <1>4 DEF Init
<1> QED
  BY <1>3, <1>5 DEF Init, TypeOK

(***************************************************************************)
(* Every variable keeps its type, for any number of transfers that share a *)
(* manager (manager.rs:209-211, router.rs, filesystem.rs:117-196).         *)
(***************************************************************************)
THEOREM TrafficTypes == Spec => []TypeOK
BY TypeInit, TypeStep, PTL DEF Spec

-----------------------------------------------------------------------------
(***************************************************************************)
(* Who waits for a slot, and who has one.  The moves of each end first.    *)
(***************************************************************************)
SenderKeeps == UNCHANGED <<from, snd, out, sendQueue>>

SenderFileStep(t, f) ==
  \/ QueueFile(t, f) \/ OpenStream(t, f)
  \/ ReadHeader(f) \/ SendData(t, f) \/ ReadResult(f)

\* A sender leaves while it is active, and completes after the receiver.
SenderLeaves(t, how) ==
  /\ LeaveSender(t, how)
  /\ snd[t] \in Active
  /\ how = "completed" => rcv[t] = "completed"

LEMMA SenderMoves ==
  ASSUME [Next]_trafficVars
  PROVE  \/ SenderKeeps
         \/ \E t \in Transfers : Offer(t) \/ StartTransfer(t)
         \/ \E t \in Transfers, how \in Hows : SenderLeaves(t, how)
         \/ \E t \in Transfers : \E f \in FilesOf[t] : SenderFileStep(t, f)
<1> USE DEF SenderKeeps
<1>1. CASE UNCHANGED trafficVars
  BY <1>1 DEF trafficVars, taskVars, fixedVars
<1>2. ASSUME NEW t \in Transfers, NEW how, LeaveReceiver(t, how)
      PROVE  SenderKeeps
  BY <1>2 DEF LeaveReceiver, fixedVars
<1>3. "completed" \in Hows /\ "failed" \in Hows /\ "cancelled" \in Hows
  BY DEF Hows
<1>4. ASSUME NEW t \in Transfers, NEW f \in FilesOf[t],
             \/ RouteStream(t, f) \/ TakeStream(t, f) \/ StartReceive(f)
             \/ WriteHeader(f) \/ ReadData(t, f) \/ AnswerFile(f)
      PROVE  SenderKeeps
  BY <1>4 DEF RouteStream, TakeStream, StartReceive, WriteHeader, ReadData,
     AnswerFile, InStep, fixedVars
<1>5. ASSUME NEW t \in Transfers,
             \/ TakeOffer(t) \/ Accept(t)
             \/ \E e \in {"sender", "receiver"} : Pause(t, e) \/ Resume(t, e)
      PROVE  SenderKeeps
  BY <1>5 DEF TakeOffer, Accept, Pause, Resume, fixedVars, taskVars
<1>6. ASSUME NEW t \in Transfers, SenderStep(t)
      PROVE  \/ StartTransfer(t) \/ \E how \in Hows : SenderLeaves(t, how)
             \/ \E f \in FilesOf[t] : SenderFileStep(t, f)
  <2>1. CompleteSender(t) => SenderLeaves(t, "completed")
    BY DEF CompleteSender, SenderLeaves, Active
  <2>2. SenderFails(t) => SenderLeaves(t, "failed")
    BY DEF SenderFails, SenderLeaves
  <2> QED
    BY <1>3, <1>6, <2>1, <2>2 DEF SenderStep, SenderFileStep
<1>7. ASSUME NEW t \in Transfers, ReceiverStep(t)
      PROVE  SenderKeeps
  BY <1>2, <1>4, <1>5, <1>7 DEF ReceiverStep, CompleteReceiver, ReceiverFails
<1>8. ASSUME NEW t \in Transfers, Cancel(t)
      PROVE  SenderKeeps \/ \E how \in Hows : SenderLeaves(t, how)
  BY <1>2, <1>3, <1>8 DEF Cancel, SenderLeaves
<1>9. CASE UNCHANGED <<taskVars, fixedVars, paused>>
  BY <1>9 DEF taskVars, fixedVars
<1>10. CASE UserStep
  BY <1>5, <1>8, <1>9, <1>10 DEF UserStep
<1>11. CASE SystemStep
  BY <1>6, <1>7, <1>9, <1>11 DEF SystemStep, BlockingPool
<1> QED
  BY <1>1, <1>10, <1>11 DEF Next, EnsureRouter, taskVars

ReceiverKeeps == UNCHANGED <<from, wireId, rcv, routes, in, receiveQueue>>

ReceiverFileStep(t, f) ==
  \/ RouteStream(t, f) \/ TakeStream(t, f) \/ StartReceive(f)
  \/ WriteHeader(f) \/ ReadData(t, f) \/ AnswerFile(f)

\* A receiver leaves while it is under way, and completes with every file.
ReceiverLeaves(t, how) ==
  /\ LeaveReceiver(t, how)
  /\ rcv[t] \in Underway
  /\ how = "completed" => \A f \in FilesOf[t] : in[f] = "answered"

LEMMA ReceiverMoves ==
  ASSUME [Next]_trafficVars
  PROVE  \/ ReceiverKeeps
         \/ \E t \in Transfers : TakeOffer(t) \/ Accept(t)
         \/ \E t \in Transfers, how \in Hows : ReceiverLeaves(t, how)
         \/ \E t \in Transfers : \E f \in FilesOf[t] : OpenStream(t, f)
         \/ \E t \in Transfers : \E f \in FilesOf[t] : ReceiverFileStep(t, f)
<1> USE DEF ReceiverKeeps
<1>1. CASE UNCHANGED trafficVars
  BY <1>1 DEF trafficVars, taskVars, fixedVars
<1>2. ASSUME NEW t \in Transfers, NEW how, LeaveSender(t, how)
      PROVE  ReceiverKeeps
  BY <1>2 DEF LeaveSender, fixedVars
<1>3. "completed" \in Hows /\ "failed" \in Hows /\ "cancelled" \in Hows
  BY DEF Hows
<1>4. ASSUME NEW t \in Transfers, NEW f \in FilesOf[t],
             QueueFile(t, f) \/ ReadHeader(f) \/ SendData(t, f) \/ ReadResult(f)
      PROVE  ReceiverKeeps
  BY <1>4 DEF QueueFile, ReadHeader, SendData, ReadResult, OutStep, fixedVars
<1>5. ASSUME NEW t \in Transfers,
             \/ Offer(t) \/ StartTransfer(t)
             \/ \E e \in {"sender", "receiver"} : Pause(t, e) \/ Resume(t, e)
      PROVE  ReceiverKeeps
  BY <1>5 DEF Offer, StartTransfer, Pause, Resume, taskVars, fixedVars
<1>6. ASSUME NEW t \in Transfers, SenderStep(t)
      PROVE  ReceiverKeeps \/ \E f \in FilesOf[t] : OpenStream(t, f)
  BY <1>2, <1>4, <1>5, <1>6 DEF SenderStep, CompleteSender, SenderFails
<1>7. ASSUME NEW t \in Transfers, ReceiverStep(t)
      PROVE  \/ TakeOffer(t) \/ \E how \in Hows : ReceiverLeaves(t, how)
             \/ \E f \in FilesOf[t] : ReceiverFileStep(t, f)
  <2>1. CompleteReceiver(t) => ReceiverLeaves(t, "completed")
    BY DEF CompleteReceiver, ReceiverLeaves, Underway, FilesAt
  <2>2. ReceiverFails(t) => ReceiverLeaves(t, "failed")
    BY DEF ReceiverFails, ReceiverLeaves
  <2> QED
    BY <1>3, <1>7, <2>1, <2>2 DEF ReceiverStep, ReceiverFileStep
<1>8. ASSUME NEW t \in Transfers, Cancel(t)
      PROVE  ReceiverKeeps \/ \E how \in Hows : ReceiverLeaves(t, how)
  BY <1>2, <1>3, <1>8 DEF Cancel, ReceiverLeaves
<1>9. CASE UNCHANGED <<taskVars, from, wireId>>
  BY <1>9 DEF taskVars
<1>10. CASE UserStep
  BY <1>5, <1>8, <1>9, <1>10 DEF UserStep, fixedVars
<1>11. CASE SystemStep
  BY <1>6, <1>7, <1>9, <1>11 DEF SystemStep, BlockingPool, fixedVars
<1> QED
  BY <1>1, <1>9, <1>10, <1>11 DEF Next, EnsureRouter

(***************************************************************************)
(* Queues.  Who waits for a slot is in its queue, once, and nobody else    *)
(* is: a dropped task gives its place up, and nobody's place is lost with  *)
(* it (send_permits and receive_permits, manager.rs:209-211).              *)
(***************************************************************************)
SendQueuesExact ==
  \A s \in Senders :
    /\ Distinct(sendQueue[s])
    /\ Elements(sendQueue[s]) = FilesAt(out, FilesFrom(s), {"queued"})

ReceiveQueueExact ==
  /\ Distinct(receiveQueue)
  /\ Elements(receiveQueue) = FilesAt(in, Files, {"waiting"})

\* A file is sent by one manager.
LEMMA FromOne ==
  ASSUME from \in [Transfers -> Senders], NEW t \in Transfers, NEW f \in FilesOf[t],
         NEW s \in Senders
  PROVE  f \in FilesFrom(s) <=> s = from[t]
BY TrafficAssumption DEF FilesFrom

\* The first of a queue leaves it.
LEMMA TailLeaves ==
  ASSUME NEW S, NEW q \in Seq(S), q # <<>>, Distinct(q)
  PROVE  Distinct(Tail(q)) /\ Elements(Tail(q)) = Elements(q) \ {Head(q)}
<1>1. /\ Len(q) \in Nat /\ Len(q) > 0 /\ Len(Tail(q)) = Len(q) - 1
      /\ DOMAIN q = 1 .. Len(q) /\ DOMAIN Tail(q) = 1 .. Len(q) - 1
      /\ \A i \in 1 .. Len(q) - 1 : Tail(q)[i] = q[i + 1]
      /\ Head(q) = q[1]
  OBVIOUS
<1>2. Distinct(Tail(q))
  BY <1>1 DEF Distinct
<1>3. ASSUME NEW x \in Elements(Tail(q))
      PROVE  x \in Elements(q) \ {Head(q)}
  BY <1>1, <1>3 DEF Distinct, Elements
<1>4. ASSUME NEW x \in Elements(q), x # Head(q)
      PROVE  x \in Elements(Tail(q))
  <2>1. PICK i \in 1 .. Len(q) : x = q[i]
    BY <1>1, <1>4 DEF Elements
  <2>2. i - 1 \in 1 .. Len(q) - 1 /\ i = (i - 1) + 1
    BY <1>1, <1>4, <2>1
  <2> QED
    BY <1>1, <2>1, <2>2 DEF Elements
<1> QED
  BY <1>2, <1>3, <1>4

LEMMA SendQueueStep ==
  ASSUME TypeOK, SendQueuesExact, [Next]_trafficVars
  PROVE  SendQueuesExact'
<1> DEFINE Queued(s) == FilesAt(out, FilesFrom(s), {"queued"})
<1>1. /\ from \in [Transfers -> Senders] /\ sendQueue \in [Senders -> Seq(Files)]
      /\ DOMAIN out = Files
  BY DEF TypeOK
<1>2. \A s \in Senders : FilesFrom(s) \subseteq Files
  BY TransferFiles DEF FilesFrom
<1>3. from' = from => \A s \in Senders : FilesFrom(s)' = FilesFrom(s)
  BY DEF FilesFrom
<1>4. CASE SenderKeeps
  BY <1>3, <1>4 DEF SenderKeeps, SendQueuesExact, FilesAt
<1>5. ASSUME NEW t \in Transfers, Offer(t) \/ StartTransfer(t)
      PROVE  SendQueuesExact'
  BY <1>3, <1>5 DEF Offer, StartTransfer, fixedVars, SendQueuesExact, FilesAt
<1>6. ASSUME NEW t \in Transfers, NEW how \in Hows, LeaveSender(t, how)
      PROVE  SendQueuesExact'
  <2>1. /\ from' = from
        /\ out' = [f \in Files |->
             IF f \in FilesOf[t] /\ out[f] # "done" THEN "gone" ELSE out[f]]
        /\ sendQueue' = [sendQueue EXCEPT ![from[t]] = NotIn(FilesOf[t], @)]
    BY <1>6 DEF LeaveSender, fixedVars
  <2>2. ASSUME NEW s \in Senders
        PROVE  Queued(s)' = Queued(s) \ FilesOf[t]
    BY <1>2, <1>3, <2>1 DEF FilesAt
  <2>3. ASSUME NEW s \in Senders, s # from[t]
        PROVE  Queued(s) \intersect FilesOf[t] = {}
    BY <1>1, <2>3, FromOne DEF FilesAt
  <2>4. ASSUME NEW s \in Senders
        PROVE  /\ Distinct(sendQueue'[s])
               /\ Elements(sendQueue'[s]) = Queued(s)'
    <3>1. Distinct(sendQueue[s]) /\ Elements(sendQueue[s]) = Queued(s)
      BY DEF SendQueuesExact
    <3>2. CASE s = from[t]
      <4>1. sendQueue'[s] = NotIn(FilesOf[t], sendQueue[s])
        BY <1>1, <2>1, <3>2
      <4>2. sendQueue[s] \in Seq(Files)
        BY <1>1
      <4>3. Queued(s)' = Queued(s) \ FilesOf[t]
        BY <2>2
      <4> HIDE DEF Queued
      <4> QED
        BY <3>1, <4>1, <4>2, <4>3, NotInLeaves
    <3>3. CASE s # from[t]
      <4>1. sendQueue'[s] = sendQueue[s]
        BY <1>1, <2>1, <3>3
      <4> QED
        BY <2>2, <2>3, <3>1, <3>3, <4>1
    <3> QED
      BY <3>2, <3>3
  <2> QED
    BY <2>4 DEF SendQueuesExact
<1>7. ASSUME NEW t \in Transfers, NEW f \in FilesOf[t], QueueFile(t, f)
      PROVE  SendQueuesExact'
  <2>1. /\ from' = from /\ out[f] = "idle" /\ out' = [out EXCEPT ![f] = "queued"]
        /\ sendQueue' = [sendQueue EXCEPT ![from[t]] = Append(@, f)]
    BY <1>7 DEF QueueFile, fixedVars
  <2>2. f \in Files
    BY TransferFiles
  <2>3. ASSUME NEW s \in Senders
        PROVE  /\ Distinct(sendQueue'[s])
               /\ Elements(sendQueue'[s]) = Queued(s)'
    <3>1. Distinct(sendQueue[s]) /\ Elements(sendQueue[s]) = Queued(s)
      BY DEF SendQueuesExact
    <3>2. CASE s = from[t]
      <4>1. sendQueue'[s] = Append(sendQueue[s], f)
        BY <1>1, <2>1, <3>2
      <4>2. Queued(s)' = Queued(s) \union {f} /\ f \notin Queued(s)
        BY <1>1, <1>2, <1>3, <2>1, <2>2, <3>2, FromOne DEF FilesAt
      <4>3. sendQueue[s] \in Seq(Files)
        BY <1>1
      <4> HIDE DEF Queued
      <4> QED
        BY <2>2, <3>1, <4>1, <4>2, <4>3, AppendElements, AppendDistinct
    <3>3. CASE s # from[t]
      <4>1. sendQueue'[s] = sendQueue[s]
        BY <1>1, <2>1, <3>3
      <4>2. f \notin FilesFrom(s)
        BY <1>1, <3>3, FromOne
      <4>3. Queued(s)' = Queued(s)
        BY <1>1, <1>2, <1>3, <2>1, <4>2 DEF FilesAt
      <4> QED
        BY <3>1, <4>1, <4>3
    <3> QED
      BY <3>2, <3>3
  <2> QED
    BY <2>3 DEF SendQueuesExact
<1>8. ASSUME NEW t \in Transfers, NEW f \in FilesOf[t], OpenStream(t, f)
      PROVE  SendQueuesExact'
  <2>1. /\ from' = from /\ out' = [out EXCEPT ![f] = "open"]
        /\ sendQueue[from[t]] # <<>> /\ f = Head(sendQueue[from[t]])
        /\ sendQueue' = [sendQueue EXCEPT ![from[t]] = Tail(@)]
    BY <1>8 DEF OpenStream, fixedVars
  <2>2. f \in Files
    BY TransferFiles
  <2>3. ASSUME NEW s \in Senders
        PROVE  /\ Distinct(sendQueue'[s])
               /\ Elements(sendQueue'[s]) = Queued(s)'
    <3>1. Distinct(sendQueue[s]) /\ Elements(sendQueue[s]) = Queued(s)
      BY DEF SendQueuesExact
    <3>2. CASE s = from[t]
      <4>1. sendQueue'[s] = Tail(sendQueue[s]) /\ f = Head(sendQueue[s]) /\ sendQueue[s] # <<>>
        BY <1>1, <2>1, <3>2
      <4>2. Queued(s)' = Queued(s) \ {f}
        BY <1>1, <1>2, <1>3, <2>1, <2>2 DEF FilesAt
      <4>3. sendQueue[s] \in Seq(Files)
        BY <1>1
      <4> HIDE DEF Queued
      <4> QED
        BY <3>1, <4>1, <4>2, <4>3, TailLeaves
    <3>3. CASE s # from[t]
      <4>1. sendQueue'[s] = sendQueue[s]
        BY <1>1, <2>1, <3>3
      <4>2. f \notin FilesFrom(s)
        BY <1>1, <3>3, FromOne
      <4>3. Queued(s)' = Queued(s)
        BY <1>1, <1>2, <1>3, <2>1, <4>2 DEF FilesAt
      <4> QED
        BY <3>1, <4>1, <4>3
    <3> QED
      BY <3>2, <3>3
  <2> QED
    BY <2>3 DEF SendQueuesExact
<1>9. ASSUME NEW t \in Transfers, NEW f \in FilesOf[t],
             ReadHeader(f) \/ SendData(t, f) \/ ReadResult(f)
      PROVE  SendQueuesExact'
  <2>1. /\ from' = from /\ sendQueue' = sendQueue /\ out[f] # "queued"
        /\ \E new \in {"data", "sent", "done"} : out' = [out EXCEPT ![f] = new]
    BY <1>9 DEF ReadHeader, SendData, ReadResult, OutStep, fixedVars
  <2>2. f \in Files
    BY TransferFiles
  <2>3. \A s \in Senders : Queued(s)' = Queued(s)
    BY <1>1, <1>2, <1>3, <2>1, <2>2 DEF FilesAt
  <2> QED
    BY <2>1, <2>3 DEF SendQueuesExact
<1> QED
  BY <1>4, <1>5, <1>6, <1>7, <1>8, <1>9, SenderMoves
     DEF SenderFileStep, SenderLeaves

LEMMA ReceiveQueueStep ==
  ASSUME TypeOK, UnopenedInv, ReceiveQueueExact, [Next]_trafficVars
  PROVE  ReceiveQueueExact'
<1> DEFINE Waiting == FilesAt(in, Files, {"waiting"})
<1>1. receiveQueue \in Seq(Files) /\ DOMAIN in = Files
  BY DEF TypeOK
<1>2. Distinct(receiveQueue) /\ Elements(receiveQueue) = Waiting
  BY DEF ReceiveQueueExact
<1>3. ASSUME Distinct(receiveQueue'), Elements(receiveQueue') = Waiting'
      PROVE  ReceiveQueueExact'
  BY <1>3 DEF ReceiveQueueExact
<1>4. ASSUME UNCHANGED receiveQueue, Waiting' = Waiting
      PROVE  ReceiveQueueExact'
  BY <1>2, <1>4 DEF ReceiveQueueExact
<1>5. ASSUME NEW f \in Files, NEW new, in[f] # "waiting", new # "waiting",
             in' = [in EXCEPT ![f] = new]
      PROVE  Waiting' = Waiting
  BY <1>1, <1>5 DEF FilesAt
<1>6. CASE ReceiverKeeps
  BY <1>4, <1>6 DEF ReceiverKeeps, FilesAt
<1>7. ASSUME NEW t \in Transfers, TakeOffer(t) \/ Accept(t)
      PROVE  ReceiveQueueExact'
  BY <1>4, <1>7 DEF TakeOffer, Accept, FilesAt
<1>8. ASSUME NEW t \in Transfers, NEW how \in Hows, LeaveReceiver(t, how)
      PROVE  ReceiveQueueExact'
  <2> DEFINE dropped == FilesAt(in, FilesOf[t], {"waiting"} \union Receiving) \union InRoute(t)
  <2>1. /\ in' = [f \in Files |-> IF f \in dropped THEN "gone" ELSE in[f]]
        /\ receiveQueue' = NotIn(FilesOf[t], receiveQueue)
    BY <1>8 DEF LeaveReceiver
  <2>2. Waiting' = Waiting \ FilesOf[t]
    <3>1. \A f \in InRoute(t) : in[f] = "routed"
      BY DEF InRoute, FilesAt
    <3>2. \A f \in FilesAt(in, FilesOf[t], {"waiting"} \union Receiving) : f \in FilesOf[t]
      BY DEF FilesAt
    <3>3. \A f \in FilesOf[t] : f \in Files /\ (in[f] = "waiting" => f \in dropped)
      BY TransferFiles DEF FilesAt
    <3> HIDE DEF dropped
    <3>4. \A f \in dropped : in[f] = "waiting" => f \in FilesOf[t]
      BY <3>1, <3>2 DEF dropped
    <3> QED
      BY <1>1, <2>1, <3>3, <3>4 DEF FilesAt
  <2> HIDE DEF Waiting, dropped
  <2> QED
    BY <1>3, <1>1, <1>2, <2>1, <2>2, NotInLeaves
<1>9. ASSUME NEW t \in Transfers, NEW f \in FilesOf[t], OpenStream(t, f)
      PROVE  ReceiveQueueExact'
  <2>1. f \in Files
    BY TransferFiles
  <2>2. in[f] = "none"
    BY <1>9, <2>1 DEF OpenStream, UnopenedInv
  <2>3. in' = [in EXCEPT ![f] = "arrived"] /\ UNCHANGED receiveQueue
    BY <1>9 DEF OpenStream
  <2>4. Waiting' = Waiting
    BY <1>5, <2>1, <2>2, <2>3
  <2> QED
    BY <1>4, <2>3, <2>4
<1>10. ASSUME NEW t \in Transfers, NEW f \in FilesOf[t],
             RouteStream(t, f) \/ WriteHeader(f) \/ ReadData(t, f) \/ AnswerFile(f)
      PROVE  ReceiveQueueExact'
  <2>1. f \in Files
    BY TransferFiles
  <2>2. /\ UNCHANGED receiveQueue /\ in[f] # "waiting"
        /\ \E new \in {"routed", "refused", "ready", "final", "answered"} :
             in' = [in EXCEPT ![f] = new]
    BY <1>10 DEF RouteStream, WriteHeader, ReadData, AnswerFile, InStep
  <2>3. Waiting' = Waiting
    BY <1>5, <2>1, <2>2
  <2> QED
    BY <1>4, <2>2, <2>3
<1>11. ASSUME NEW t \in Transfers, NEW f \in FilesOf[t], TakeStream(t, f)
       PROVE  ReceiveQueueExact'
  <2>1. f \in Files
    BY TransferFiles
  <2>2. /\ in[f] = "routed" /\ in' = [in EXCEPT ![f] = "waiting"]
        /\ receiveQueue' = Append(receiveQueue, f)
    BY <1>11 DEF TakeStream, InStep
  <2>3. Waiting' = Waiting \union {f} /\ f \notin Waiting
    BY <1>1, <2>1, <2>2 DEF FilesAt
  <2> HIDE DEF Waiting
  <2> QED
    BY <1>3, <1>1, <1>2, <2>1, <2>2, <2>3, AppendElements, AppendDistinct
<1>12. ASSUME NEW f \in Files, StartReceive(f)
       PROVE  ReceiveQueueExact'
  <2>1. /\ in' = [in EXCEPT ![f] = "staging"] /\ receiveQueue # <<>>
        /\ f = Head(receiveQueue) /\ receiveQueue' = Tail(receiveQueue)
    BY <1>12 DEF StartReceive, InStep
  <2>2. Waiting' = Waiting \ {f}
    BY <1>1, <2>1 DEF FilesAt
  <2> HIDE DEF Waiting
  <2> QED
    BY <1>3, <1>1, <1>2, <2>1, <2>2, TailLeaves
<1> QED
  BY <1>6, <1>7, <1>8, <1>9, <1>10, <1>11, <1>12, ReceiverMoves, TransferFiles
     DEF ReceiverFileStep, ReceiverLeaves

(***************************************************************************)
(* Whoever waits for a slot to send or to receive has one place in the     *)
(* queue, and nobody else has one, whatever is dropped meanwhile.          *)
(***************************************************************************)
THEOREM PlacesAreKept == Spec => [](SendQueuesExact /\ ReceiveQueueExact)
<1> DEFINE Inv == TypeOK /\ UnopenedInv /\ SendQueuesExact /\ ReceiveQueueExact
<1>1. Init => Inv
  <2> SUFFICES ASSUME Init PROVE Inv
    OBVIOUS
  <2>1. TypeOK /\ UnopenedInv
    BY TypeInit DEF Init, UnopenedInv
  <2>2. Elements(<<>>) = {} /\ Distinct(<<>>)
    BY DEF Elements, Distinct
  <2>3. \A s \in Senders : FilesFrom(s) \subseteq Files
    BY <2>1, TransferFiles DEF FilesFrom
  <2>4. SendQueuesExact
    BY <2>2, <2>3 DEF Init, SendQueuesExact, FilesAt
  <2>5. ReceiveQueueExact
    BY <2>2 DEF Init, ReceiveQueueExact, FilesAt
  <2> QED
    BY <2>1, <2>4, <2>5
<1>2. Inv /\ [Next]_trafficVars => Inv'
  BY TypeStep, UnopenedStep, SendQueueStep, ReceiveQueueStep
<1> QED
  BY <1>1, <1>2, PTL DEF Spec

-----------------------------------------------------------------------------
(***************************************************************************)
(* Streams in a route.  The channel of a route goes with the task that has *)
(* registered it, and so do the streams in it, whosever they are.          *)
(***************************************************************************)
RoutedInv ==
  \A t \in Transfers : \A f \in FilesOf[t] : in[f] = "routed" => routes[Key(t)] # "none"

StreamsHaveReceivers ==
  \A t \in Transfers : \A f \in FilesOf[t] : in[f] = "routed" =>
    \E u \in Transfers : Key(u) = Key(t) /\ rcv[u] = "receive"

LEMMA RoutedStep ==
  TypeOK /\ RouteInv /\ UnopenedInv /\ RoutedInv /\ [Next]_trafficVars => RoutedInv'
<1> SUFFICES ASSUME TypeOK, RouteInv, UnopenedInv, RoutedInv, [Next]_trafficVars,
                    NEW t \in Transfers, NEW f \in FilesOf[t], in'[f] = "routed"
             PROVE  routes'[Key(t)'] # "none"
  BY DEF RoutedInv
<1>1. f \in Files /\ DOMAIN in = Files /\ DOMAIN routes = Senders \X Ids
  BY TransferFiles DEF TypeOK
<1>2. in[f] = "routed" => routes[Key(t)] # "none"
  BY DEF RoutedInv
<1>3. CASE ReceiverKeeps
  BY <1>2, <1>3 DEF ReceiverKeeps, Key
<1>4. ASSUME NEW u \in Transfers, TakeOffer(u) \/ Accept(u)
      PROVE  routes'[Key(t)'] # "none"
  <2>1. UNCHANGED <<from, wireId, in>>
    BY <1>4 DEF TakeOffer, Accept, fixedVars
  <2>2. UNCHANGED routes \/ routes' = [routes EXCEPT ![Key(u)] = u]
    BY <1>4, Zenon DEF TakeOffer, Accept, Register
  <2>3. u # "none"
    BY TrafficAssumption
  <2>4. Key(t)' = Key(t) /\ Key(t) \in DOMAIN routes /\ routes[Key(t)] # "none"
    <3>1. Key(t)' = Key(t)
      BY <2>1 DEF Key
    <3>2. Key(t) \in Senders \X Ids
      BY DEF RouteInv, Key
    <3> QED
      BY <1>1, <1>2, <2>1, <3>1, <3>2
  <2> QED
    BY <2>2, <2>3, <2>4
<1>5. ASSUME NEW u \in Transfers, NEW how \in Hows, LeaveReceiver(u, how)
      PROVE  routes'[Key(t)'] # "none"
  <2>1. UNCHANGED <<from, wireId>> /\ DropRoute(u)
    BY <1>5 DEF LeaveReceiver, fixedVars
  <2>2. in[f] = "routed" /\ f \notin InRoute(u)
    BY <1>1, <1>5 DEF LeaveReceiver
  <2>3. CASE rcv[u] = "receive"
    <3>1. f \notin FilesUnder(u)
      BY <2>2, <2>3 DEF InRoute, FilesAt
    <3>2. Key(t) # Key(u)
      BY <3>1 DEF FilesUnder
    <3>3. routes' = [routes EXCEPT ![Key(u)] = "none"]
      BY <2>1, <2>3 DEF DropRoute
    <3> QED
      BY <1>1, <1>2, <2>1, <2>2, <3>2, <3>3 DEF Key
  <2>4. CASE rcv[u] # "receive"
    BY <1>1, <1>2, <2>1, <2>2, <2>4 DEF DropRoute, Key
  <2> QED
    BY <2>3, <2>4
<1>6. ASSUME NEW u \in Transfers, NEW g \in FilesOf[u], OpenStream(u, g)
      PROVE  routes'[Key(t)'] # "none"
  <2>1. g \in Files /\ in' = [in EXCEPT ![g] = "arrived"]
    BY <1>6, TransferFiles DEF OpenStream
  <2>2. UNCHANGED <<from, wireId, routes>>
    BY <1>6 DEF OpenStream, fixedVars
  <2> QED
    BY <1>1, <1>2, <2>1, <2>2 DEF Key
<1>7. ASSUME NEW u \in Transfers, NEW g \in FilesOf[u], ReceiverFileStep(u, g)
      PROVE  routes'[Key(t)'] # "none"
  <2>1. UNCHANGED <<from, wireId, routes>> /\ g \in Files
    BY <1>7, TransferFiles DEF ReceiverFileStep, RouteStream, TakeStream, StartReceive,
       WriteHeader, ReadData, AnswerFile, InStep, fixedVars
  <2>2. CASE RouteStream(u, g)
    <3>1. \/ routes[Key(u)] # "none"
          \/ in' = [in EXCEPT ![g] = "refused"]
      BY <2>2 DEF RouteStream, InStep
    <3>2. \E new : in' = [in EXCEPT ![g] = new]
      BY <2>2, Zenon DEF RouteStream, InStep
    <3>3. g = f => t = u
      BY TrafficAssumption
    <3> QED
      BY <1>1, <1>2, <2>1, <3>1, <3>2, <3>3 DEF Key
  <2>3. CASE ~RouteStream(u, g)
    <3>1. \E new \in {"waiting", "staging", "ready", "final", "answered"} :
            in' = [in EXCEPT ![g] = new]
      BY <1>7, <2>3, Zenon DEF ReceiverFileStep, TakeStream, StartReceive, WriteHeader,
         ReadData, AnswerFile, InStep
    <3> QED
      BY <1>1, <1>2, <2>1, <3>1 DEF Key
  <2> QED
    BY <2>2, <2>3
<1> QED
  BY <1>3, <1>4, <1>5, <1>6, <1>7, ReceiverMoves DEF ReceiverLeaves

(***************************************************************************)
(* A stream in a route has a transfer that receives under its id and takes *)
(* the stream, or drops it when it ends: none is held for nobody.          *)
(***************************************************************************)
THEOREM StreamsAreHeldBySomeone == Spec => []StreamsHaveReceivers
<1> DEFINE Inv == TypeOK /\ RouteInv /\ UnopenedInv /\ RoutedInv
<1>1. Init => Inv
  <2> SUFFICES ASSUME Init PROVE Inv
    OBVIOUS
  <2>1. TypeOK /\ RouteInv
    BY TypeInit, RoutesStart
  <2>2. UnopenedInv
    BY DEF Init, UnopenedInv
  <2>3. RoutedInv
    BY TransferFiles DEF Init, RoutedInv
  <2> QED
    BY <2>1, <2>2, <2>3
<1>2. Inv /\ [Next]_trafficVars => Inv'
  BY TypeStep, RouteStep, UnopenedStep, RoutedStep
<1>3. Inv => StreamsHaveReceivers
  <2> SUFFICES ASSUME Inv, NEW t \in Transfers, NEW f \in FilesOf[t], in[f] = "routed"
               PROVE  \E u \in Transfers : Key(u) = Key(t) /\ rcv[u] = "receive"
    BY DEF StreamsHaveReceivers
  <2>1. routes[Key(t)] # "none"
    BY DEF RoutedInv
  <2>2. Key(t) \in Senders \X Ids
    BY DEF RouteInv, Key
  <2> QED
    BY <2>1, <2>2 DEF RouteInv, RoutesEnd
<1> QED
  BY <1>1, <1>2, <1>3, PTL DEF Spec

-----------------------------------------------------------------------------
(***************************************************************************)
(* What a completed transfer has delivered.  The receiver completes with   *)
(* every file answered, each answered after its place was recorded, and    *)
(* the sender completes after the receiver.                                *)
(***************************************************************************)
DeliveredInv ==
  /\ \A f \in Files : in[f] = "answered" => path[f] # NoPath
  /\ \A t \in Transfers : rcv[t] = "completed" => \A f \in FilesOf[t] : in[f] = "answered"
  /\ \A t \in Transfers : snd[t] = "completed" => rcv[t] = "completed"

CompletedIsInPlace ==
  \A t \in Transfers : "completed" \in {snd[t], rcv[t]} =>
    /\ rcv[t] = "completed"
    /\ \A f \in FilesOf[t] : path[f] \in Places /\ disk[path[f]] = f

\* A place that has been recorded stays recorded.
LEMMA PathsStay ==
  ASSUME TypeOK, [Next]_trafficVars, NEW f \in Files, path[f] # NoPath
  PROVE  path'[f] # NoPath
<1>1. NoPath \notin Places
  BY TrafficAssumption DEF NoPath, Places
<1>2. UNCHANGED path => path'[f] # NoPath
  OBVIOUS
<1>3. ASSUME NEW t \in Transfers, NEW g \in FilesOf[t], AnswerFile(g)
      PROVE  path'[f] # NoPath
  <2>1. path' = [path EXCEPT ![g] = Place(g)] /\ g \in Files
    BY <1>3, TransferFiles DEF AnswerFile
  <2>2. Place(g) \in Places /\ path \in [Files -> Places \union {NoPath}]
    BY <2>1, StorageAssumption DEF TypeOK, StorageTypeOK, Place, Places
  <2> QED
    BY <1>1, <2>1, <2>2
<1> QED
  BY <1>2, <1>3, StoreMoves DEF StoreKeeps

\* What a step of a file at the receiver leaves as it is.
LEMMA AnswersStay ==
  ASSUME TypeOK, UnopenedInv, [Next]_trafficVars, NEW f \in Files, in[f] = "answered"
  PROVE  in'[f] = "answered"
<1>1. DOMAIN in = Files
  BY DEF TypeOK
<1>2. ASSUME NEW g \in Files, in[g] # "answered", NEW new, in' = [in EXCEPT ![g] = new]
      PROVE  in'[f] = "answered"
  BY <1>1, <1>2
<1>3. ReceiverKeeps => in'[f] = "answered"
  BY DEF ReceiverKeeps
<1>4. ASSUME NEW t \in Transfers, TakeOffer(t) \/ Accept(t)
      PROVE  in'[f] = "answered"
  BY <1>4 DEF TakeOffer, Accept
<1>5. ASSUME NEW t \in Transfers, NEW how \in Hows, LeaveReceiver(t, how)
      PROVE  in'[f] = "answered"
  BY <1>5 DEF LeaveReceiver, FilesAt, InRoute, Receiving
<1>6. ASSUME NEW t \in Transfers, NEW g \in FilesOf[t], OpenStream(t, g)
      PROVE  in'[f] = "answered"
  <2>1. g \in Files
    BY TransferFiles
  <2>2. in[g] = "none" /\ in' = [in EXCEPT ![g] = "arrived"]
    BY <1>6, <2>1 DEF OpenStream, UnopenedInv
  <2> QED
    BY <1>2, <2>1, <2>2
<1>7. ASSUME NEW t \in Transfers, NEW g \in FilesOf[t], ReceiverFileStep(t, g)
      PROVE  in'[f] = "answered"
  <2>1. g \in Files
    BY TransferFiles
  <2>2. in[g] # "answered" /\ \E new : in' = [in EXCEPT ![g] = new]
    BY <1>7 DEF ReceiverFileStep, RouteStream, TakeStream, StartReceive, WriteHeader,
       ReadData, AnswerFile, InStep
  <2> QED
    BY <1>2, <2>1, <2>2
<1> QED
  BY <1>3, <1>4, <1>5, <1>6, <1>7, ReceiverMoves DEF ReceiverLeaves

\* A file is answered with its place, a transfer completes with its files.
LEMMA AnswersBegin ==
  ASSUME TypeOK, UnopenedInv, [Next]_trafficVars
  PROVE  /\ \A f \in Files : in[f] # "answered" /\ in'[f] = "answered" => path'[f] # NoPath
         /\ \A t \in Transfers :
              rcv'[t] = "completed" /\ rcv[t] # "completed" =>
                \A f \in FilesOf[t] : in[f] = "answered"
         /\ \A t \in Transfers : rcv[t] = "completed" => rcv'[t] = "completed"
<1> DEFINE Begins ==
             /\ \A f \in Files : in[f] # "answered" /\ in'[f] = "answered" => path'[f] # NoPath
             /\ \A t \in Transfers :
                  rcv'[t] = "completed" /\ rcv[t] # "completed" =>
                    \A f \in FilesOf[t] : in[f] = "answered"
             /\ \A t \in Transfers : rcv[t] = "completed" => rcv'[t] = "completed"
<1>1. DOMAIN in = Files /\ DOMAIN rcv = Transfers
  BY DEF TypeOK
<1>2. ReceiverKeeps => Begins
  BY DEF ReceiverKeeps
<1>3. ASSUME NEW t \in Transfers, TakeOffer(t) \/ Accept(t)
      PROVE  Begins
  <2>1. /\ in' = in /\ rcv[t] # "completed"
        /\ UNCHANGED rcv \/ \E r \in {"asked", "receive", "failed"} : rcv' = [rcv EXCEPT ![t] = r]
    BY <1>3 DEF TakeOffer, Accept, Register
  <2> QED
    BY <1>1, <2>1
<1>4. ASSUME NEW t \in Transfers, NEW how \in Hows, ReceiverLeaves(t, how)
      PROVE  Begins
  <2>1. /\ \A f \in Files : in'[f] \in {in[f], "gone"}
        /\ rcv' = [rcv EXCEPT ![t] = how] /\ rcv[t] # "completed"
        /\ how = "completed" => \A f \in FilesOf[t] : in[f] = "answered"
    BY <1>4 DEF ReceiverLeaves, LeaveReceiver, Underway
  <2> QED
    BY <1>1, <2>1
<1>5. ASSUME NEW t \in Transfers, NEW f \in FilesOf[t],
             \/ OpenStream(t, f) \/ RouteStream(t, f) \/ TakeStream(t, f)
             \/ StartReceive(f) \/ WriteHeader(f) \/ ReadData(t, f)
      PROVE  Begins
  <2>1. /\ rcv' = rcv
        /\ \E new \in {"arrived", "routed", "refused", "waiting", "staging", "ready", "final"} :
             in' = [in EXCEPT ![f] = new]
    BY <1>5, Zenon DEF OpenStream, RouteStream, TakeStream, StartReceive, WriteHeader,
       ReadData, InStep
  <2> QED
    BY <1>1, <2>1
<1>6. ASSUME NEW t \in Transfers, NEW f \in FilesOf[t], AnswerFile(f)
      PROVE  Begins
  <2>1. f \in Files
    BY TransferFiles
  <2>2. /\ rcv' = rcv /\ in' = [in EXCEPT ![f] = "answered"]
        /\ path' = [path EXCEPT ![f] = Place(f)]
    BY <1>6 DEF AnswerFile, InStep
  <2>3. path'[f] = Place(f) /\ Place(f) # NoPath
    <3>1. Place(f) \in Places
      BY <2>1, StorageAssumption DEF TypeOK, StorageTypeOK, Place, Places
    <3>2. NoPath \notin Places
      BY TrafficAssumption DEF NoPath, Places
    <3> QED
      BY <2>1, <2>2, <3>1, <3>2 DEF TypeOK
  <2> QED
    BY <1>1, <2>1, <2>2, <2>3
<1> HIDE DEF Begins
<1>7. Begins
  BY <1>2, <1>3, <1>4, <1>5, <1>6, ReceiverMoves DEF ReceiverFileStep
<1> QED
  BY <1>7 DEF Begins

LEMMA DeliveredStep ==
  ASSUME TypeOK, UnopenedInv, DeliveredInv, [Next]_trafficVars
  PROVE  DeliveredInv'
<1>1. ASSUME NEW f \in Files, in'[f] = "answered"
      PROVE  path'[f] # NoPath
  BY <1>1, AnswersBegin, PathsStay DEF DeliveredInv
<1>2. ASSUME NEW t \in Transfers, rcv'[t] = "completed", NEW f \in FilesOf[t]
      PROVE  in'[f] = "answered"
  <2>1. f \in Files
    BY TransferFiles
  <2>2. in[f] = "answered"
    BY <1>2, AnswersBegin DEF DeliveredInv
  <2> QED
    BY <2>1, <2>2, AnswersStay
<1>3. ASSUME NEW t \in Transfers, snd'[t] = "completed"
      PROVE  rcv'[t] = "completed"
  <2>1. rcv[t] = "completed" => rcv'[t] = "completed"
    BY AnswersBegin
  <2>2. CASE snd[t] = "completed"
    BY <2>1, <2>2 DEF DeliveredInv
  <2>3. CASE snd[t] # "completed"
    <3>1. DOMAIN snd = Transfers
      BY DEF TypeOK
    <3>2. ~ SenderKeeps
      BY <1>3, <2>3 DEF SenderKeeps
    <3>3. ASSUME NEW u \in Transfers, Offer(u) \/ StartTransfer(u)
          PROVE  FALSE
      BY <1>3, <2>3, <3>1, <3>3 DEF Offer, StartTransfer
    <3>4. ASSUME NEW u \in Transfers, NEW f \in FilesOf[u], SenderFileStep(u, f)
          PROVE  FALSE
      BY <1>3, <2>3, <3>4
         DEF SenderFileStep, QueueFile, OpenStream, ReadHeader, SendData, ReadResult, OutStep
    <3>5. ASSUME NEW u \in Transfers, NEW how \in Hows, SenderLeaves(u, how)
          PROVE  rcv[t] = "completed"
      <4>1. snd' = [snd EXCEPT ![u] = how]
        BY <3>5 DEF SenderLeaves, LeaveSender
      <4>2. u = t /\ how = "completed"
        BY <1>3, <2>3, <3>1, <4>1
      <4> QED
        BY <3>5, <4>2 DEF SenderLeaves
    <3> QED
      BY <2>1, <3>2, <3>3, <3>4, <3>5, SenderMoves
  <2> QED
    BY <2>2, <2>3
<1> QED
  BY <1>1, <1>2, <1>3 DEF DeliveredInv

(***************************************************************************)
(* A transfer that is Completed at an end is Completed at the receiver,    *)
(* and every file of it is in the directory at the place recorded for it,  *)
(* whatever the other transfers and the user have put there.               *)
(***************************************************************************)
THEOREM CompletedStays == Spec => []CompletedIsInPlace
<1> DEFINE Inv == TypeOK /\ UnopenedInv /\ StoreInv /\ DeliveredInv
<1>1. Init => Inv
  <2> SUFFICES ASSUME Init PROVE Inv
    OBVIOUS
  <2>1. UnopenedInv
    BY DEF Init, UnopenedInv
  <2>2. \A t \in Transfers : FilesOf[t] \subseteq Files
    BY TransferFiles
  <2>3. DeliveredInv
    BY <2>2 DEF Init, DeliveredInv
  <2> QED
    BY <2>1, <2>3, TypeInit, StoreInit
<1>2. Inv /\ [Next]_trafficVars => Inv'
  BY TypeStep, UnopenedStep, StoreStep, DeliveredStep
<1>3. Inv => CompletedIsInPlace
  <2> SUFFICES ASSUME Inv, NEW t \in Transfers, "completed" \in {snd[t], rcv[t]}
               PROVE  /\ rcv[t] = "completed"
                      /\ \A f \in FilesOf[t] : path[f] \in Places /\ disk[path[f]] = f
    BY DEF CompletedIsInPlace
  <2>1. rcv[t] = "completed"
    BY DEF DeliveredInv
  <2>2. ASSUME NEW f \in FilesOf[t]
        PROVE  path[f] \in Places /\ disk[path[f]] = f
    <3>1. f \in Files
      BY TransferFiles
    <3>2. path[f] # NoPath
      BY <2>1, <3>1 DEF DeliveredInv
    <3> QED
      BY <3>1, <3>2 DEF StoreInv, StoreShape, FilesWhereReported
  <2> QED
    BY <2>1, <2>2
<1> QED
  BY <1>1, <1>2, <1>3, PTL DEF Spec
=============================================================================
