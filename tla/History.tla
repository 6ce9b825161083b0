------------------------------- MODULE History -------------------------------
(***************************************************************************)
(* The transfer history on its way to disk: push_transfer and              *)
(* mutate_transfer change the list under its lock and drop what is too     *)
(* old, schedule_history_persist copies the list and then publishes the    *)
(* copy, and one worker per manager saves what was published last          *)
(* (src/src/application/manager.rs:667-695,805-871).  The file is replaced *)
(* in one step (src/src/infrastructure/persistence.rs:33-70), so a crash   *)
(* leaves the old list or the new one.                                     *)
(*                                                                         *)
(* A list is the status of every transfer, "unlisted" for those that are   *)
(* not in it; place[t] is the same for all lists of a process.             *)
(***************************************************************************)
EXTENDS TransferStatus, Naturals, FiniteSets

CONSTANTS
  Transfers,
  Tasks,        \* transfer tasks, which shutdown waits for
  Calls,        \* users' calls, which it does not wait for
  Statuses,     \* the statuses the model uses, a subset of Status
  MaxFinished,  \* MAX_TERMINAL_HISTORY, for the list of the manager
  MaxStored,    \* MAX_STORED_TRANSFERS, for the file
  Failures,     \* what may go wrong, a subset of {"crash", "save"}
  None          \* no list

ASSUME StatusesAssumption ==
  {"Transferring", "Failed"} \subseteq Statuses /\ Statuses \subseteq Status

Writers == Tasks \union Calls

List == [Transfers -> Statuses \union {"unlisted"}]

ASSUME NoneAssumption == None \notin List

ASSUME HistoryAssumption ==
  IsFiniteSet(Transfers) /\ {MaxFinished, MaxStored} \subseteq Nat

NoTransfers == [t \in Transfers |-> "unlisted"]

VARIABLES
  up,           \* the process runs
  fresh,        \* the transfers that have not begun
  place,        \* of each transfer of this process, the higher the nearer to
                \* the front of the list; 0 for the others
  state,        \* the manager's list
  at,           \* [Writers -> "idle", "changed" or "copied"]
  copy,         \* [Writers -> the list the writer is about to publish]
  published,    \* the value of the watch channel, a list or None
  unseen,       \* the channel has changed since the worker last looked
  dropped,      \* the manager is gone, and with it the sender of the channel
  closing,      \* shutdown has begun: tasks are being waited for
  stopping,     \* history_stopping is cancelled
  lastWord,     \* what was published when it was, a list or None; recorded
                \* for OutcomesArePersisted and read by no action
  worker,       \* where the worker is
  stop,         \* its local `stop`
  saving,       \* the list it is saving
  disk          \* the history file, a list or None

vars == <<up, fresh, place, state, at, copy, published, unseen, dropped,
          closing, stopping, lastWord, worker, stop, saving, disk>>

orderVars == <<fresh, place>>
endVars == <<dropped, closing, stopping, lastWord>>
workerVars == <<worker, stop, saving>>
writerVars == <<at, copy>>

TypeOK ==
  /\ up \in BOOLEAN /\ unseen \in BOOLEAN
  /\ dropped \in BOOLEAN /\ closing \in BOOLEAN
  /\ stopping \in BOOLEAN /\ stop \in BOOLEAN
  /\ fresh \subseteq Transfers
  /\ place \in [Transfers -> 0 .. Cardinality(Transfers)]
  /\ state \in List
  /\ at \in [Writers -> {"idle", "changed", "copied"}]
  /\ copy \in [Writers -> List \union {None}]
  /\ worker \in {"wait", "delay", "take", "save", "saved", "ended"}
  /\ {published, lastWord, saving, disk} \subseteq List \union {None}

\* What a new process starts with, given the list it loaded.
Start(list) ==
  /\ state' = list
  /\ at' = [w \in Writers |-> "idle"]
  /\ copy' = [w \in Writers |-> None]
  /\ published' = None
  /\ unseen' = FALSE
  /\ dropped' = FALSE
  /\ closing' = FALSE
  /\ stopping' = FALSE
  /\ lastWord' = None
  /\ worker' = "wait"
  /\ stop' = FALSE
  /\ saving' = None

Init ==
  /\ up = TRUE
  /\ fresh = Transfers
  /\ place = [t \in Transfers |-> 0]
  /\ state = NoTransfers
  /\ at = [w \in Writers |-> "idle"]
  /\ copy = [w \in Writers |-> None]
  /\ published = None
  /\ unseen = FALSE
  /\ dropped = FALSE
  /\ closing = FALSE
  /\ stopping = FALSE
  /\ lastWord = None
  /\ worker = "wait"
  /\ stop = FALSE
  /\ saving = None
  /\ disk = None

-----------------------------------------------------------------------------
(* Writers.                                                                *)

Finished(list) == {t \in Transfers : list[t] \in Terminal}
Listed(list) == {t \in Transfers : list[t] # "unlisted"}

\* Those of S in front of t.
InFront(order, S, t) == {u \in S : order[u] > order[t]}

\* Mutation: everything in front counts.
PruneByLength(list, order) ==
  [t \in Transfers |->
     IF t \in Finished(list)
        /\ Cardinality(InFront(order, Listed(list), t)) >= MaxFinished
       THEN "unlisted" ELSE list[t]]

\* prune_transfer_history keeps what is under way, and so many that finished.
Prune(list, order) ==
  [t \in Transfers |->
     IF t \in Finished(list)
        /\ Cardinality(InFront(order, Finished(list), t)) >= MaxFinished
       THEN "unlisted" ELSE list[t]]

\* Tasks have ended when history_stopping is cancelled; a call that was past
\* its check of `stopping`, and what it spawns, may still go on.
MayWrite(w) ==
  /\ up /\ ~dropped
  /\ at[w] = "idle"
  /\ w \in Tasks => ~stopping

\* A new transfer is put in front of the others.
Push(w, t, s) ==
  /\ MayWrite(w)
  /\ t \in fresh
  /\ s \notin Terminal
  /\ fresh' = fresh \ {t}
  /\ place' = [place EXCEPT ![t] = 1 + Cardinality({u \in Transfers : place[u] > 0})]
  /\ state' = Prune([state EXCEPT ![t] = s], place')
  /\ at' = [at EXCEPT ![w] = "changed"]
  /\ UNCHANGED <<up, copy, published, unseen, endVars, workerVars, disk>>

\* Mutation: any status may follow any other.
AnyTransition(t, s) == state[t] # s

MayMutate(t, s) == CanTransition(state[t], s) /\ state[t] # s

\* The status of a listed transfer changes under the write lock.
Mutate(w, t, s) ==
  /\ MayWrite(w)
  /\ MayMutate(t, s)
  /\ state' = Prune([state EXCEPT ![t] = s], place)
  /\ at' = [at EXCEPT ![w] = "changed"]
  /\ UNCHANGED <<up, orderVars, copy, published, unseen, endVars, workerVars,
                 disk>>

\* schedule_history_persist copies the list under the read lock ...
CopyList(w) ==
  /\ up
  /\ at[w] = "changed"
  /\ copy' = [copy EXCEPT ![w] = state]
  /\ at' = [at EXCEPT ![w] = "copied"]
  /\ UNCHANGED <<up, orderVars, state, published, unseen, endVars, workerVars,
                 disk>>

\* ... and publishes the copy without it.
Publish(w) ==
  /\ up
  /\ at[w] = "copied"
  /\ published' = copy[w]
  /\ unseen' = TRUE
  /\ at' = [at EXCEPT ![w] = "idle"]
  /\ copy' = [copy EXCEPT ![w] = None]
  /\ UNCHANGED <<up, orderVars, state, endVars, workerVars, disk>>

-----------------------------------------------------------------------------
(* persist_history_updates.                                                *)

manager == <<orderVars, state, writerVars, endVars>>

\* Mutation: between two changes the worker does not look for a stop.
ChangeOnly == FALSE

StopAsked == stopping

\* changed() fails without a sender, once the last value has been seen.
NoMoreChanges == dropped /\ ~unseen

\* select! on a stop and a change, in either order when both are there.
AwaitChange ==
  /\ up
  /\ worker = "wait"
  /\ \/ /\ StopAsked \/ NoMoreChanges
        /\ stop' = TRUE /\ worker' = "take" /\ UNCHANGED unseen
     \/ unseen /\ unseen' = FALSE /\ stop' = FALSE /\ worker' = "delay"
  /\ UNCHANGED <<up, manager, published, saving, disk>>

Delay ==
  /\ up
  /\ worker = "delay"
  /\ worker' = "take"
  /\ UNCHANGED <<up, manager, published, unseen, stop, saving, disk>>

Stops == stop \/ stopping

\* Mutation: a list taken once is saved again and again.
TakeOld == saving' = IF saving = None THEN published ELSE saving

TakeLatest == saving' = published

Take ==
  /\ up
  /\ worker = "take"
  /\ unseen' = FALSE
  /\ TakeLatest
  /\ worker' = IF published # None THEN "save"
               ELSE IF Stops THEN "ended" ELSE "wait"
  /\ UNCHANGED <<up, manager, published, stop, disk>>

\* save takes so many transfers from the front of the list.
Stored(list) ==
  [t \in Transfers |->
     IF Cardinality(InFront(place, Listed(list), t)) < MaxStored
       THEN list[t] ELSE "unlisted"]

\* A failed save is reported and not repeated.
Save ==
  /\ up
  /\ worker = "save"
  /\ \/ disk' = Stored(saving)
     \/ "save" \in Failures /\ UNCHANGED disk
  /\ worker' = "saved"
  /\ UNCHANGED <<up, manager, published, unseen, stop, saving>>

AfterSave ==
  /\ up
  /\ worker = "saved"
  /\ worker' = IF Stops THEN "ended" ELSE "wait"
  /\ UNCHANGED <<up, manager, published, unseen, stop, saving, disk>>

WorkerStep == AwaitChange \/ Delay \/ Take \/ Save \/ AfterSave

-----------------------------------------------------------------------------
(* The process.                                                            *)

\* shutdown cancels every job and waits for the tasks.
BeginShutdown ==
  /\ up /\ ~dropped
  /\ ~closing
  /\ closing' = TRUE
  /\ UNCHANGED <<up, orderVars, state, writerVars, dropped, stopping, lastWord,
                 published, unseen, workerVars, disk>>

\* The tasks have ended, wherever a task may end.
StopWorker ==
  /\ up /\ ~dropped
  /\ closing
  /\ ~stopping
  /\ \A w \in Tasks : at[w] = "idle"
  /\ stopping' = TRUE
  /\ lastWord' = published
  /\ UNCHANGED <<up, orderVars, state, writerVars, dropped, closing, published,
                 unseen, workerVars, disk>>

\* The last owner of the manager lets it go: no task and no call is left.
DropManager ==
  /\ up /\ ~dropped
  /\ \A w \in Writers : at[w] = "idle"
  /\ dropped' = TRUE
  /\ UNCHANGED <<up, orderVars, state, writerVars, closing, stopping, lastWord,
                 published, unseen, workerVars, disk>>

\* The process ends, by itself after the worker or by a crash.
Exit ==
  /\ up
  /\ worker = "ended" \/ "crash" \in Failures
  /\ up' = FALSE
  /\ UNCHANGED <<manager, published, unseen, workerVars, disk>>

\* load: what was still under way when the application exited has failed. There
\* may be no file.
Loaded(list) ==
  IF list = None THEN NoTransfers
  ELSE [t \in Transfers |->
          IF list[t] \in Terminal \union {"unlisted"} THEN list[t] ELSE "Failed"]

\* The places for S, in any order.
Orders(S) ==
  {order \in [Transfers -> 0 .. Cardinality(S)] :
     /\ \A t \in Transfers : order[t] > 0 <=> t \in S
     /\ \A t, u \in S : order[t] = order[u] => t = u}

\* A new process knows what the file holds, in the order of the last changes
\* by the clock of the computer, and has no transfer of its own.
Restart ==
  /\ ~up
  /\ up' = TRUE
  /\ place' \in Orders(Listed(Loaded(disk)))
  /\ Start(Prune(Loaded(disk), place'))
  /\ UNCHANGED <<fresh, disk>>

WriterStep(w) ==
  (\E t \in Transfers, s \in Statuses : Push(w, t, s) \/ Mutate(w, t, s))
    \/ CopyList(w) \/ Publish(w)

Next ==
  \/ \E w \in Writers : WriterStep(w)
  \/ WorkerStep
  \/ BeginShutdown \/ StopWorker \/ DropManager \/ Exit \/ Restart

(***************************************************************************)
(* The worker is a task of the runtime; a mutation that has begun ends.    *)
(***************************************************************************)
Fairness ==
  /\ WF_vars(WorkerStep)
  /\ \A w \in Writers : WF_vars(CopyList(w) \/ Publish(w))

Spec == Init /\ [][Next]_vars /\ Fairness

-----------------------------------------------------------------------------
(***************************************************************************)
(* The file never shows an outcome the transfer has not had: whatever race *)
(* of copies, saves and crashes wrote it, a final status in the file is the*)
(* one the manager shows, as long as it lists the transfer                 *)
(* (manager.rs:805-871, persistence.rs:33-70).                             *)
(***************************************************************************)
DiskIsTruthful ==
  up /\ disk # None =>
    \A t \in Transfers :
      disk[t] \in Terminal => state[t] \in {disk[t], "unlisted"}

(***************************************************************************)
(* A transfer disappears from the list only behind MaxFinished others that *)
(* began after it and have finished: no transfer pushes out one that is    *)
(* under way, whatever the order in which they end (manager.rs:829-840).   *)
(***************************************************************************)
OnlyOldAreForgotten ==
  \A t \in Transfers :
    place[t] > 0 /\ state[t] = "unlisted" =>
      Cardinality(InFront(place, Finished(state), t)) >= MaxFinished

(***************************************************************************)
(* Once no more is published, what was published last has been handed to   *)
(* the repository and the worker waits for more, or has ended as there is  *)
(* no manager any more, unless the manager is told to stop: no wake-up of  *)
(* the worker is lost while it delays, saves or starts over                *)
(* (manager.rs:847-870).                                                   *)
(***************************************************************************)
LastIsSaved ==
  <>[][FALSE]_published =>
    <>[](\/ published = None \/ stopping \/ ~up
         \/ /\ saving = published /\ ~unseen
            /\ worker = IF dropped THEN "ended" ELSE "wait")

(***************************************************************************)
(* The worker ends once it is told to (manager.rs:279-282 waits for it) or *)
(* there is no manager any more.                                           *)
(***************************************************************************)
WorkerEnds == stopping \/ dropped ~> worker = "ended" \/ ~up

-----------------------------------------------------------------------------
(***************************************************************************)
(* "long-lived history worker must persist terminal state"                 *)
(* (manager.rs:1088, after shutdown): when the worker has ended, every     *)
(* transfer whose final status was published before it was told to stop    *)
(* has that status in the file.                                            *)
(***************************************************************************)
OutcomesArePersisted ==
  worker = "ended" /\ stopping /\ lastWord # None =>
    \A t \in Finished(lastWord) : disk # None /\ disk[t] = lastWord[t]

=============================================================================
