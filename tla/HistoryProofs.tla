---------------------------- MODULE HistoryProofs ----------------------------
(***************************************************************************)
(* The history file never shows an outcome the transfer has not had, for   *)
(* every set of transfers, writers and statuses.  The invariant says so of *)
(* every list there is between the manager and the file: a final status in *)
(* a copy is the status of the transfer, because a final status never      *)
(* changes again, or the transfer has been dropped from the list.          *)
(***************************************************************************)
EXTENDS History, Induction, FiniteSetTheorems, TLAPS

\* A list knows no final status but the current one, and no transfer that has
\* not begun.
Agrees(list) ==
  /\ list \in List
  /\ \A t \in Transfers :
       /\ list[t] \in Terminal => state[t] \in {list[t], "unlisted"}
       /\ t \in fresh => list[t] = "unlisted"

AgreesOrNone(list) == list = None \/ Agrees(list)

IInv ==
  /\ Agrees(state)
  /\ copy \in [Writers -> List \union {None}]
  /\ \A w \in Writers : AgreesOrNone(copy[w])
  /\ AgreesOrNone(published)
  /\ AgreesOrNone(saving)
  /\ AgreesOrNone(disk)
  /\ worker = "save" => saving # None

(***************************************************************************)
(* The file and the list after a prune have the transfers of the list they *)
(* are made from, or fewer (persistence.rs:53-69, manager.rs:829-840).     *)
(***************************************************************************)
Within(less, list) ==
  /\ less \in List
  /\ \A t \in Transfers : less[t] \in {list[t], "unlisted"}

LEMMA PruneWithin ==
  ASSUME NEW list \in List, NEW order
  PROVE  Within(Prune(list, order), list)
  BY DEF Within, Prune, List

LEMMA StoredWithin ==
  ASSUME NEW list \in List
  PROVE  Within(Stored(list), list)
  BY DEF Within, Stored, List

(***************************************************************************)
(* A new process agrees with the file it starts with (manager.rs:179-180). *)
(***************************************************************************)
LEMMA LoadedAgrees ==
  ASSUME AgreesOrNone(disk), NEW order,
         state' = Prune(Loaded(disk), order), UNCHANGED <<fresh, disk>>
  PROVE  Agrees(state)' /\ AgreesOrNone(disk)'
<1>1. Loaded(disk) \in List
  <2>1. "Failed" \in Statuses
    BY StatusesAssumption
  <2> QED
    BY <2>1 DEF Loaded, List, NoTransfers, AgreesOrNone, Agrees
<1>2. Within(state', Loaded(disk))
  BY <1>1, PruneWithin
<1>3. ASSUME NEW t \in Transfers, t \in fresh
      PROVE  state'[t] = "unlisted"
  <2>1. Loaded(disk)[t] = "unlisted"
    BY <1>3 DEF Loaded, NoTransfers, AgreesOrNone, Agrees
  <2> QED
    BY <1>2, <2>1 DEF Within
<1>4. Agrees(state)'
  BY <1>2, <1>3 DEF Agrees, Within
<1>5. ASSUME disk # None
      PROVE  Agrees(disk)'
  <2>1. ASSUME NEW t \in Transfers, disk[t] \in Terminal
        PROVE  state'[t] \in {disk[t], "unlisted"}
    <3>1. Loaded(disk)[t] = disk[t]
      BY <1>5, <2>1 DEF Loaded
    <3> QED
      BY <1>2, <3>1 DEF Within
  <2> QED
    BY <1>5, <2>1 DEF AgreesOrNone, Agrees
<1> QED
  BY <1>4, <1>5 DEF AgreesOrNone

(***************************************************************************)
(* A transfer that is changed has not ended, so no list knows how it ends; *)
(* one that begins is in no list yet (TransferView::transition).           *)
(***************************************************************************)
LEMMA ChangeAgrees ==
  ASSUME Agrees(state), NEW t \in Transfers, NEW s \in Statuses, NEW order,
         state[t] \notin Terminal,
         state' = Prune([state EXCEPT ![t] = s], order),
         fresh' = fresh \ {t},
         NEW list, AgreesOrNone(list),
         state[t] = "unlisted" => t \in fresh
  PROVE  AgreesOrNone(list)'
<1> DEFINE changed == [state EXCEPT ![t] = s]
<1>1. changed \in List
  BY DEF Agrees, List
<1>2. Within(state', changed)
  BY <1>1, PruneWithin
<1>3. ASSUME Agrees(list), NEW u \in Transfers
      PROVE  /\ list[u] \in Terminal => state'[u] \in {list[u], "unlisted"}
             /\ u \in fresh' => list[u] = "unlisted"
  <2>1. state'[u] \in {changed[u], "unlisted"}
    BY <1>2 DEF Within
  <2>2. CASE u # t
    <3>1. changed[u] = state[u]
      BY <2>2 DEF Agrees, List
    <3> QED
      BY <1>3, <2>1, <3>1 DEF Agrees
  <2>3. CASE u = t
    <3>1. list[t] \in Terminal => FALSE
      BY <1>3 DEF Agrees, Terminal
    <3> QED
      BY <2>3, <3>1
  <2> QED
    BY <2>2, <2>3
<1> QED
  BY <1>3 DEF AgreesOrNone, Agrees

LEMMA ListAfterChange ==
  ASSUME Agrees(state), NEW t \in Transfers, NEW s \in Statuses, NEW order,
         state' = Prune([state EXCEPT ![t] = s], order),
         fresh' = fresh \ {t}
  PROVE  Agrees(state)'
<1> DEFINE changed == [state EXCEPT ![t] = s]
<1>1. changed \in List
  BY DEF Agrees, List
<1>2. Within(state', changed)
  BY <1>1, PruneWithin
<1>3. ASSUME NEW u \in Transfers, u \in fresh'
      PROVE  state'[u] = "unlisted"
  <2>1. u \in fresh /\ u # t
    BY <1>3
  <2>2. changed[u] = "unlisted"
    BY <2>1 DEF Agrees, List
  <2> QED
    BY <1>2, <2>2 DEF Within
<1> QED
  BY <1>2, <1>3 DEF Agrees, Within

\* The list, the file and every copy agree when the manager starts
\* (manager.rs:187-226).
LEMMA HistoryInit == Init => IInv
<1> SUFFICES ASSUME Init PROVE IInv
  OBVIOUS
<1> QED
  BY DEF Init, IInv, AgreesOrNone, Agrees, List, NoTransfers, Terminal

\* Every step of writers, worker, crash and restart keeps them in agreement.
LEMMA HistoryStep == IInv /\ [Next]_vars => IInv'
<1> SUFFICES ASSUME IInv, [Next]_vars PROVE IInv'
  OBVIOUS
<1>1. ASSUME NEW w \in Writers, NEW t \in Transfers, NEW s \in Statuses,
             Push(w, t, s) \/ Mutate(w, t, s)
      PROVE  IInv'
  <2>1. \E order : state' = Prune([state EXCEPT ![t] = s], order)
    BY <1>1 DEF Push, Mutate
  <2>2. PICK order : state' = Prune([state EXCEPT ![t] = s], order)
    BY <2>1
  <2>3. /\ fresh' = fresh \ {t}
        /\ state[t] \notin Terminal
        /\ state[t] = "unlisted" => t \in fresh
    <3>1. CASE Push(w, t, s)
      BY <3>1 DEF Push, IInv, Agrees, Terminal
    <3>2. CASE Mutate(w, t, s)
      <4>1. state[t] \notin Terminal /\ state[t] # "unlisted"
        BY <3>2 DEF Mutate, MayMutate, CanTransition, Allowed, Status, Terminal
      <4>2. t \notin fresh /\ fresh' = fresh
        BY <3>2, <4>1 DEF Mutate, orderVars, IInv, Agrees
      <4> QED
        BY <4>1, <4>2
    <3> QED
      BY <1>1, <3>1, <3>2
  <2>4. UNCHANGED <<copy, published, saving, worker, disk>>
    BY <1>1 DEF Push, Mutate, workerVars
  <2>5. Agrees(state)
    BY DEF IInv
  <2>6. \A list : AgreesOrNone(list) => AgreesOrNone(list)'
    BY <2>2, <2>3, <2>5, ChangeAgrees
  <2>7. Agrees(state)'
    BY <2>2, <2>3, <2>5, ListAfterChange
  <2> QED
    BY <2>4, <2>6, <2>7 DEF IInv, AgreesOrNone, Agrees
<1>2. ASSUME NEW w \in Writers, CopyList(w)
      PROVE  IInv'
  BY <1>2 DEF CopyList, IInv, AgreesOrNone, Agrees, workerVars, orderVars
<1>3. ASSUME NEW w \in Writers, Publish(w)
      PROVE  IInv'
  BY <1>3 DEF Publish, IInv, AgreesOrNone, Agrees, workerVars, orderVars
<1>4. CASE AwaitChange \/ Delay \/ AfterSave
  BY <1>4 DEF AwaitChange, Delay, AfterSave, manager, writerVars, orderVars,
              IInv, AgreesOrNone, Agrees
<1>5. CASE Take
  BY <1>5 DEF Take, TakeLatest, manager, writerVars, orderVars, IInv,
              AgreesOrNone, Agrees
<1>6. CASE Save
  <2>1. UNCHANGED <<state, fresh, copy, published, saving>> /\ worker' = "saved"
    BY <1>6 DEF Save, manager, writerVars, orderVars
  <2>2. CASE UNCHANGED disk
    BY <2>1, <2>2 DEF IInv, AgreesOrNone, Agrees
  <2>3. CASE saving # None /\ disk' = Stored(saving)
    <3>1. Agrees(saving)
      BY <2>3 DEF IInv, AgreesOrNone
    <3>2. Within(Stored(saving), saving)
      BY <3>1, StoredWithin DEF Agrees
    <3>3. Agrees(Stored(saving))
      BY <3>1, <3>2 DEF Agrees, Within, Terminal
    <3> QED
      BY <2>1, <2>3, <3>3 DEF IInv, AgreesOrNone, Agrees
  <2> QED
    BY <1>6, <2>2, <2>3 DEF Save, IInv
<1>7. CASE BeginShutdown \/ StopWorker \/ DropManager \/ Exit
  BY <1>7 DEF BeginShutdown, StopWorker, DropManager, Exit, manager, writerVars, workerVars,
              orderVars, IInv, AgreesOrNone, Agrees
<1>8. CASE Restart
  <2>1. PICK order : order = place' /\ state' = Prune(Loaded(disk), order)
    BY <1>8 DEF Restart, Start
  <2>2. copy' = [w \in Writers |-> None] /\ published' = None
          /\ saving' = None /\ worker' = "wait" /\ UNCHANGED <<fresh, disk>>
    BY <1>8 DEF Restart, Start
  <2>3. Agrees(state)' /\ AgreesOrNone(disk)'
    BY <2>1, <2>2, LoadedAgrees DEF IInv
  <2> QED
    BY <2>2, <2>3 DEF IInv, AgreesOrNone
<1>9. CASE UNCHANGED vars
  BY <1>9 DEF vars, writerVars, workerVars, orderVars, IInv, AgreesOrNone, Agrees
<1> QED
  BY <1>1, <1>2, <1>3, <1>4, <1>5, <1>6, <1>7, <1>8, <1>9
     DEF Next, WriterStep, WorkerStep

(***************************************************************************)
(* DiskIsTruthful: copies may be published late and saved later, the       *)
(* process may stop between any two steps, and still a final status in the *)
(* file is the one the manager shows (manager.rs:805-871).                 *)
(***************************************************************************)
THEOREM FileIsTruthful == Spec => []DiskIsTruthful
<1>1. IInv => DiskIsTruthful
  BY DEF IInv, AgreesOrNone, Agrees, DiskIsTruthful
<1> QED
  BY HistoryInit, HistoryStep, <1>1, PTL DEF Spec

-----------------------------------------------------------------------------
(***************************************************************************)
(* No transfer disappears from the list unless MaxFinished others that     *)
(* began after it have finished.                                           *)
(***************************************************************************)

\* OnlyOldAreForgotten of a list.
OldGone(list, order) ==
  \A t \in Transfers :
    order[t] > 0 /\ list[t] = "unlisted" =>
      Cardinality(InFront(order, Finished(list), t)) >= MaxFinished

LEMMA InFrontCounts ==
  ASSUME NEW order \in [Transfers -> Nat], NEW S \in SUBSET Transfers, NEW t
  PROVE  /\ IsFiniteSet(InFront(order, S, t))
         /\ Cardinality(InFront(order, S, t)) \in Nat
BY HistoryAssumption, FS_Subset, FS_CardinalityType DEF InFront

LEMMA MoreInFront ==
  ASSUME NEW order \in [Transfers -> Nat], NEW S \in SUBSET Transfers, NEW t,
         NEW A, A \subseteq InFront(order, S, t)
  PROVE  Cardinality(A) <= Cardinality(InFront(order, S, t))
BY InFrontCounts, FS_Subset

\* A prune leaves enough in front of those it drops: of the ones it drops in
\* front of t take the one with the fewest before it; the prune keeps these.
LEMMA PruneLeavesEnough ==
  ASSUME NEW list \in List, NEW order \in [Transfers -> Nat], NEW t \in Transfers,
         Cardinality(InFront(order, Finished(list), t)) >= MaxFinished
  PROVE  Cardinality(InFront(order, Finished(Prune(list, order)), t)) >= MaxFinished
<1> DEFINE F == Finished(list)
           G == Finished(Prune(list, order))
           Before(u) == Cardinality(InFront(order, F, u))
           Dropped == {u \in InFront(order, F, t) : Before(u) >= MaxFinished}
<1>1. F \subseteq Transfers /\ G \subseteq Transfers /\ MaxFinished \in Nat
  BY HistoryAssumption DEF Finished
<1>2. \A u \in F : Before(u) < MaxFinished => u \in G
  <2>1. \A u \in F : Before(u) \in Nat
    BY <1>1, InFrontCounts
  <2>2. ASSUME NEW u \in F, ~ (Before(u) >= MaxFinished)
        PROVE  Prune(list, order)[u] = list[u]
    BY <1>1, <2>2 DEF Prune
  <2>3. \A u \in F : u \in Transfers /\ list[u] \in Terminal
    BY DEF Finished
  <2>4. \A u \in F : ~ (Before(u) >= MaxFinished) => u \in G
    BY <2>2, <2>3 DEF Finished
  <2> HIDE DEF F, G, Before
  <2> QED
    BY <1>1, <2>1, <2>4
<1>3. CASE Dropped = {}
  <2>1. \A u \in InFront(order, F, t) : u \in F /\ Before(u) \in Nat
    BY <1>1, InFrontCounts DEF InFront
  <2>2. \A u \in InFront(order, F, t) : u \in G
    BY <1>1, <1>2, <1>3, <2>1
  <2>3. InFront(order, F, t) \subseteq InFront(order, G, t)
    BY <2>2 DEF InFront
  <2> QED
    BY <1>1, <2>3, MoreInFront, InFrontCounts
<1>4. CASE Dropped # {}
  <2> DEFINE Counts == {Before(u) : u \in Dropped}
  <2>1. Counts \subseteq Nat /\ Counts # {}
    BY <1>1, <1>4, InFrontCounts
  <2>2. \E n \in Counts : \A m \in Counts : n <= m
    BY <2>1, Least
  <2>3. PICK u \in Dropped : \A v \in Dropped : Before(u) <= Before(v)
    BY <2>2
  <2>4. ASSUME NEW v \in InFront(order, F, u)
        PROVE  v \in InFront(order, G, t)
    <3>1. /\ u \in F /\ v \in F /\ order[u] \in Nat /\ order[v] \in Nat
          /\ order[v] > order[u] /\ order[u] > order[t] /\ order[t] \in Nat
      BY <1>1, <2>3, <2>4 DEF InFront
    <3>2. /\ InFront(order, F, v) \subseteq InFront(order, F, u)
          /\ v \notin InFront(order, F, v)
      BY <1>1, <3>1 DEF InFront
    <3>3. Before(v) < Before(u)
      BY <1>1, <2>4, <3>2, FS_Subset, InFrontCounts
    <3>4. v \in InFront(order, F, t)
      BY <3>1 DEF InFront
    <3>5. Before(v) < MaxFinished
      <4>1. v \notin Dropped
        BY <1>1, <2>3, <3>3, InFrontCounts
      <4> QED
        BY <1>1, <3>4, <4>1, InFrontCounts
    <3> QED
      BY <1>2, <3>1, <3>5 DEF InFront
  <2>5. Before(u) <= Cardinality(InFront(order, G, t))
    BY <1>1, <2>4, MoreInFront
  <2> QED
    BY <1>1, <2>3, <2>5, InFrontCounts
<1> QED
  BY <1>3, <1>4

LEMMA PruneOldGone ==
  ASSUME NEW list \in List, NEW order \in [Transfers -> Nat], OldGone(list, order)
  PROVE  OldGone(Prune(list, order), order)
<1> SUFFICES ASSUME NEW t \in Transfers, order[t] > 0, Prune(list, order)[t] = "unlisted"
             PROVE  Cardinality(InFront(order, Finished(list), t)) >= MaxFinished
  BY PruneLeavesEnough DEF OldGone
<1> QED
  BY DEF OldGone, Prune

\* A change of one transfer that had not finished keeps what is in front of
\* the others, or adds to it.
LEMMA ChangeOldGone ==
  ASSUME state \in List, place \in [Transfers -> Nat], OldGone(state, place),
         NEW t \in Transfers, NEW s \in Statuses, state[t] \notin Terminal,
         NEW order \in [Transfers -> Nat],
         \A u \in Transfers \ {t} : order[u] = place[u],
         order[t] = place[t] \/ s \notin Terminal
  PROVE  OldGone([state EXCEPT ![t] = s], order)
<1> DEFINE changed == [state EXCEPT ![t] = s]
<1>1. changed[t] = s /\ \A u \in Transfers \ {t} : changed[u] = state[u]
  BY DEF List
<1>2. s # "unlisted"
  BY StatusesAssumption DEF Status, Terminal
<1>3. ASSUME NEW u \in Transfers, order[u] > 0, changed[u] = "unlisted"
      PROVE  Cardinality(InFront(order, Finished(changed), u)) >= MaxFinished
  <2>1. u # t /\ place[u] > 0 /\ state[u] = "unlisted"
    BY <1>1, <1>2, <1>3
  <2>2. Cardinality(InFront(place, Finished(state), u)) >= MaxFinished
    BY <2>1 DEF OldGone
  <2>3. InFront(place, Finished(state), u) \subseteq InFront(order, Finished(changed), u)
    BY <1>1, <2>1 DEF InFront, Finished
  <2>4. Finished(state) \subseteq Transfers /\ Finished(changed) \subseteq Transfers
    BY DEF Finished
  <2> QED
    <3>1. /\ Cardinality(InFront(place, Finished(state), u)) \in Nat
          /\ Cardinality(InFront(order, Finished(changed), u)) \in Nat
          /\ MaxFinished \in Nat
      BY <2>4, HistoryAssumption, InFrontCounts
    <3>2. Cardinality(InFront(place, Finished(state), u))
            <= Cardinality(InFront(order, Finished(changed), u))
      BY <2>3, <2>4, MoreInFront
    <3> HIDE DEF changed
    <3> QED
      BY <2>2, <3>1, <3>2
<1> QED
  BY <1>3 DEF OldGone

OldInv ==
  /\ IInv
  /\ place \in [Transfers -> Nat]
  /\ OldGone(state, place)

LEMMA OldInit == Init => OldInv
BY HistoryInit DEF Init, OldInv, OldGone

LEMMA OldStep == OldInv /\ [Next]_vars => OldInv'
<1> SUFFICES ASSUME OldInv, [Next]_vars PROVE OldInv'
  OBVIOUS
<1>1. IInv' /\ state \in List /\ Agrees(state)
  BY HistoryStep DEF OldInv, IInv, Agrees
<1>2. CASE UNCHANGED <<state, place>>
  BY <1>1, <1>2 DEF OldInv, OldGone, InFront, Finished
<1>3. ASSUME NEW order \in [Transfers -> Nat], NEW list \in List,
             OldGone(list, order), place' = order, state' = Prune(list, order)
      PROVE  OldInv'
  BY <1>1, <1>3, PruneOldGone DEF OldInv, OldGone, InFront, Finished
<1>4. ASSUME NEW w \in Writers, NEW t \in Transfers, NEW s \in Statuses, Push(w, t, s)
      PROVE  OldInv'
  <2> DEFINE order == [place EXCEPT ![t] = 1 + Cardinality({u \in Transfers : place[u] > 0})]
  <2>1. /\ place' = order /\ state' = Prune([state EXCEPT ![t] = s], order)
        /\ s \notin Terminal /\ state[t] = "unlisted"
    BY <1>1, <1>4 DEF Push, Agrees
  <2>2. Cardinality({u \in Transfers : place[u] > 0}) \in Nat
    BY HistoryAssumption, FS_Subset, FS_CardinalityType
  <2>3. /\ order \in [Transfers -> Nat]
        /\ \A u \in Transfers \ {t} : order[u] = place[u]
    BY <2>2 DEF OldInv
  <2>4. [state EXCEPT ![t] = s] \in List
    BY <1>1 DEF List
  <2> HIDE DEF order
  <2>5. OldGone([state EXCEPT ![t] = s], order)
    BY <1>1, <2>1, <2>3, ChangeOldGone DEF OldInv, Terminal
  <2> QED
    BY <1>3, <2>1, <2>3, <2>4, <2>5
<1>5. ASSUME NEW w \in Writers, NEW t \in Transfers, NEW s \in Statuses, Mutate(w, t, s)
      PROVE  OldInv'
  <2>1. /\ place' = place /\ state' = Prune([state EXCEPT ![t] = s], place)
        /\ state[t] \notin Terminal
    BY <1>5 DEF Mutate, orderVars, MayMutate, CanTransition, Allowed, Status, Terminal
  <2>2. [state EXCEPT ![t] = s] \in List
    BY <1>1 DEF List
  <2>3. OldGone([state EXCEPT ![t] = s], place)
    BY <1>1, <2>1, ChangeOldGone DEF OldInv
  <2> QED
    BY <1>3, <2>1, <2>2, <2>3 DEF OldInv
<1>6. CASE Restart
  <2>1. PICK order : /\ order = place' /\ order \in Orders(Listed(Loaded(disk)))
                     /\ state' = Prune(Loaded(disk), order)
    BY <1>6 DEF Restart, Start
  <2>2. Loaded(disk) \in List
    BY StatusesAssumption DEF Loaded, List, NoTransfers, OldInv, IInv, AgreesOrNone, Agrees
  <2>3. order \in [Transfers -> Nat]
    <3>1. IsFiniteSet(Listed(Loaded(disk)))
      BY HistoryAssumption, FS_Subset DEF Listed
    <3>2. Cardinality(Listed(Loaded(disk))) \in Nat
      BY <3>1, FS_CardinalityType
    <3> QED
      BY <2>1, <3>2 DEF Orders
  <2>4. OldGone(Loaded(disk), order)
    BY <2>1 DEF Orders, Listed, OldGone
  <2> QED
    BY <1>3, <2>1, <2>2, <2>3, <2>4
<1>7. ASSUME NEW w \in Writers, CopyList(w) \/ Publish(w)
      PROVE  UNCHANGED <<state, place>>
  BY <1>7 DEF CopyList, Publish, orderVars
<1>8. CASE WorkerStep
  BY <1>2, <1>8 DEF WorkerStep, AwaitChange, Delay, Take, Save, AfterSave, manager, orderVars
<1>9. CASE BeginShutdown \/ StopWorker \/ DropManager \/ Exit \/ UNCHANGED vars
  BY <1>2, <1>9 DEF BeginShutdown, StopWorker, DropManager, Exit, manager, vars, orderVars
<1> QED
  BY <1>2, <1>4, <1>5, <1>6, <1>7, <1>8, <1>9 DEF Next, WriterStep

(***************************************************************************)
(* OnlyOldAreForgotten: in whatever order transfers begin, change and end, *)
(* and across restarts, only one with MaxFinished finished ones in front   *)
(* of it has been dropped from the list (manager.rs:829-840).              *)
(***************************************************************************)
THEOREM OnlyOldAreDropped == Spec => []OnlyOldAreForgotten
<1>1. OldInv => OnlyOldAreForgotten
  BY DEF OldInv, OldGone, OnlyOldAreForgotten
<1> QED
  BY OldInit, OldStep, <1>1, PTL DEF Spec

-----------------------------------------------------------------------------
(***************************************************************************)
(* The list never holds more than MaxFinished transfers that have ended.   *)
(***************************************************************************)

Placed == {t \in Transfers : place[t] > 0}

\* Transfers of this process have places of their own, and those to come none.
PlacesInv ==
  /\ IInv
  /\ place \in [Transfers -> Nat]
  /\ \A t \in Transfers : place[t] <= Cardinality(Placed)
  /\ \A t, u \in Placed : place[t] = place[u] => t = u
  /\ \A t \in fresh : t \notin Placed
  /\ Listed(state) \subseteq Placed

\* Each has its own place in the list.
Distinct(order, S) == \A t, u \in S : order[t] = order[u] => t = u

\* The last one that a prune keeps has all the others in front of it.
LEMMA PruneBounds ==
  ASSUME NEW list \in List, NEW order \in [Transfers -> Nat],
         Distinct(order, Finished(list))
  PROVE  Cardinality(Finished(Prune(list, order))) <= MaxFinished
<1> DEFINE F == Finished(list)
           G == Finished(Prune(list, order))
<1>1. /\ F \subseteq Transfers /\ G \subseteq F /\ MaxFinished \in Nat
      /\ IsFiniteSet(F) /\ IsFiniteSet(G) /\ Cardinality(G) \in Nat
  <2>1. F \subseteq Transfers /\ G \subseteq F
    BY DEF Finished, Prune, Terminal
  <2> QED
    BY <2>1, HistoryAssumption, FS_Subset, FS_CardinalityType
<1>2. CASE G = {}
  BY <1>1, <1>2, FS_EmptySet
<1>3. CASE G # {}
  <2>1. {order[u] : u \in G} \subseteq Nat /\ {order[u] : u \in G} # {}
    BY <1>1, <1>3
  <2>2. \E n \in {order[u] : u \in G} : \A m \in {order[u] : u \in G} : n <= m
    BY <2>1, Least
  <2>3. PICK u \in G : \A v \in G : order[u] <= order[v]
    BY <2>2
  <2>4. G \ {u} \subseteq InFront(order, F, u)
    <3>1. ASSUME NEW v \in G, v # u
          PROVE  order[v] > order[u]
      <4>1. v \in F /\ u \in F /\ order[v] \in Nat /\ order[u] \in Nat /\ order[u] <= order[v]
        BY <1>1, <2>3
      <4>2. order[v] # order[u]
        BY <3>1, <4>1 DEF Distinct
      <4> HIDE DEF F, G
      <4> QED
        BY <4>1, <4>2
    <3> QED
      BY <1>1, <3>1 DEF InFront
  <2>5. Cardinality(G \ {u}) = Cardinality(G) - 1
    BY <1>1, <2>3, FS_RemoveElement
  <2>6. Cardinality(G \ {u}) <= Cardinality(InFront(order, F, u))
    BY <1>1, <2>4, MoreInFront
  <2>7. ~ (Cardinality(InFront(order, F, u)) >= MaxFinished)
    BY <1>1, <2>3 DEF Finished, Prune, Terminal
  <2>8. Cardinality(InFront(order, F, u)) \in Nat
    BY <1>1, InFrontCounts
  <2> HIDE DEF F, G
  <2>9. Cardinality(G) <= MaxFinished
    BY <1>1, <2>5, <2>6, <2>7, <2>8
  <2> QED
    BY <2>9 DEF G
<1> QED
  BY <1>2, <1>3

LEMMA PlacesInit == Init => PlacesInv
<1> SUFFICES ASSUME Init PROVE PlacesInv
  OBVIOUS
<1>1. IInv
  BY HistoryInit
<1>2. IsFiniteSet(Placed) /\ Cardinality(Placed) \in Nat
  BY HistoryAssumption, FS_Subset, FS_CardinalityType DEF Placed
<1> QED
  BY <1>1, <1>2 DEF Init, PlacesInv, Placed, Listed, NoTransfers

\* A new transfer gets a place of its own, in front of all others.
LEMMA PlacesStep ==
  ASSUME PlacesInv, [Next]_vars
  PROVE  /\ PlacesInv'
         /\ Cardinality(Finished(state)) <= MaxFinished =>
              Cardinality(Finished(state)') <= MaxFinished
<1>1. IInv' /\ state \in List /\ Agrees(state) /\ state' \in List
  BY HistoryStep DEF PlacesInv, IInv, Agrees
<1>2. IsFiniteSet(Placed) /\ Cardinality(Placed) \in Nat
  BY HistoryAssumption, FS_Subset, FS_CardinalityType DEF Placed
<1>3. ASSUME NEW order \in [Transfers -> Nat], NEW list \in List, state' = Prune(list, order),
             Listed(list) \subseteq {t \in Transfers : order[t] > 0},
             Distinct(order, {t \in Transfers : order[t] > 0})
      PROVE  /\ Listed(state)' \subseteq {t \in Transfers : order[t] > 0}
             /\ Cardinality(Finished(state)') <= MaxFinished
  <2>1. Listed(state)' \subseteq Listed(list)
    BY <1>3 DEF Listed, Prune, List
  <2>2. Distinct(order, Finished(list))
    BY <1>3 DEF Distinct, Finished, Listed, Terminal
  <2>3. Finished(state)' = Finished(Prune(list, order))
    BY <1>3 DEF Finished
  <2> QED
    BY <1>3, <2>1, <2>2, <2>3, PruneBounds
<1>4. ASSUME UNCHANGED <<state, place, fresh>>
      PROVE  /\ PlacesInv'
             /\ Cardinality(Finished(state)) <= MaxFinished =>
                  Cardinality(Finished(state)') <= MaxFinished
  <2>1. Placed' = Placed /\ Listed(state)' = Listed(state) /\ Finished(state)' = Finished(state)
    BY <1>4 DEF Placed, Listed, Finished
  <2> QED
    BY <1>1, <1>4, <2>1 DEF PlacesInv
<1>5. ASSUME NEW w \in Writers, NEW t \in Transfers, NEW s \in Statuses, Push(w, t, s)
      PROVE  PlacesInv' /\ Cardinality(Finished(state)') <= MaxFinished
  <2> DEFINE list == [state EXCEPT ![t] = s]
             n == 1 + Cardinality(Placed)
             order == [place EXCEPT ![t] = n]
  <2>1. /\ place' = order /\ state' = Prune(list, order)
        /\ fresh' = fresh \ {t} /\ t \in fresh /\ t \notin Placed
    BY <1>5 DEF Push, Placed, PlacesInv
  <2>2. n \in Nat /\ n > 0
    BY <1>2
  <2> HIDE DEF n
  <2>3. order \in [Transfers -> Nat] /\ list \in List
    BY <1>1, <2>2 DEF PlacesInv, List
  <2>4. /\ order[t] = n /\ \A u \in Transfers \ {t} : order[u] = place[u]
        /\ \A u \in Transfers \ {t} : list[u] = state[u]
    BY <1>1 DEF PlacesInv, List
  <2> HIDE DEF order, list
  <2>5. {u \in Transfers : order[u] > 0} = Placed \union {t}
    BY <2>2, <2>4 DEF Placed
  <2>6. Cardinality(Placed \union {t}) = n
    <3>1. Cardinality(Placed \union {t}) = Cardinality(Placed) + 1
      BY <1>2, <2>1, FS_AddElement
    <3> QED
      BY <1>2, <3>1 DEF n
  <2>7. \A u \in Placed : u # t /\ order[u] = place[u] /\ place[u] \in Nat /\ place[u] < n
    BY <1>2, <2>1, <2>4 DEF PlacesInv, Placed, n
  <2>8. Distinct(order, Placed \union {t})
    BY <2>2, <2>4, <2>7 DEF Distinct, PlacesInv
  <2>9. Listed(list) \subseteq Placed \union {t}
    BY <2>4 DEF Listed, PlacesInv
  <2>10. /\ Listed(state)' \subseteq Placed \union {t}
         /\ Cardinality(Finished(state)') <= MaxFinished
    BY <1>3, <2>1, <2>3, <2>5, <2>8, <2>9
  <2>11. Placed' = Placed \union {t}
    BY <2>1, <2>5 DEF Placed
  <2>12. \A u \in Transfers : order[u] <= n
    BY <1>2, <2>2, <2>4 DEF PlacesInv, n
  <2>13. \A u \in fresh \ {t} : u \notin Placed \union {t}
    BY DEF PlacesInv
  <2> QED
    BY <1>1, <2>1, <2>3, <2>6, <2>8, <2>10, <2>11, <2>12, <2>13 DEF PlacesInv, Distinct
<1>6. ASSUME NEW w \in Writers, NEW t \in Transfers, NEW s \in Statuses, Mutate(w, t, s)
      PROVE  PlacesInv' /\ Cardinality(Finished(state)') <= MaxFinished
  <2> DEFINE list == [state EXCEPT ![t] = s]
  <2>1. /\ place' = place /\ fresh' = fresh /\ state' = Prune(list, place)
        /\ state[t] # "unlisted"
    BY <1>6 DEF Mutate, orderVars, MayMutate, CanTransition, Allowed, Status, Terminal
  <2>2. list \in List /\ \A u \in Transfers \ {t} : list[u] = state[u]
    BY <1>1 DEF List
  <2> HIDE DEF list
  <2>3. Listed(list) \subseteq Placed
    BY <2>1, <2>2 DEF PlacesInv, Listed
  <2>4. Distinct(place, Placed)
    BY DEF PlacesInv, Distinct
  <2>5. Listed(state)' \subseteq Placed /\ Cardinality(Finished(state)') <= MaxFinished
    BY <1>3, <2>1, <2>2, <2>3, <2>4 DEF PlacesInv, Placed
  <2>6. Placed' = Placed
    BY <2>1 DEF Placed
  <2> QED
    BY <1>1, <2>1, <2>5, <2>6 DEF PlacesInv
<1>7. CASE Restart
  <2> DEFINE S == Listed(Loaded(disk))
  <2>1. PICK order : /\ order = place' /\ order \in Orders(S)
                     /\ state' = Prune(Loaded(disk), order) /\ UNCHANGED <<fresh, disk>>
    BY <1>7 DEF Restart, Start
  <2>2. Loaded(disk) \in List
    BY StatusesAssumption DEF Loaded, List, NoTransfers, PlacesInv, IInv, AgreesOrNone, Agrees
  <2>3. \A t \in fresh : t \notin S
    BY DEF Listed, Loaded, NoTransfers, PlacesInv, IInv, AgreesOrNone, Agrees
  <2>4. S \subseteq Transfers /\ Cardinality(S) \in Nat
    BY HistoryAssumption, FS_Subset, FS_CardinalityType DEF Listed
  <2> HIDE DEF S
  <2>5. /\ order \in [Transfers -> Nat] /\ {t \in Transfers : order[t] > 0} = S
        /\ \A t \in Transfers : order[t] <= Cardinality(S)
        /\ Distinct(order, S)
    BY <2>1, <2>4 DEF Orders, Distinct
  <2>6. Listed(state)' \subseteq S /\ Cardinality(Finished(state)') <= MaxFinished
    BY <1>3, <2>1, <2>2, <2>5 DEF S
  <2>7. Placed' = S
    BY <2>1, <2>5 DEF Placed
  <2> QED
    BY <1>1, <2>1, <2>3, <2>5, <2>6, <2>7 DEF PlacesInv, Distinct
<1>8. ASSUME NEW w \in Writers, CopyList(w) \/ Publish(w)
      PROVE  UNCHANGED <<state, place, fresh>>
  BY <1>8 DEF CopyList, Publish, orderVars
<1>9. CASE WorkerStep
  BY <1>4, <1>9 DEF WorkerStep, AwaitChange, Delay, Take, Save, AfterSave, manager, orderVars
<1>10. CASE BeginShutdown \/ StopWorker \/ DropManager \/ Exit \/ UNCHANGED vars
  BY <1>4, <1>10 DEF BeginShutdown, StopWorker, DropManager, Exit, manager, vars, orderVars
<1> QED
  BY <1>4, <1>5, <1>6, <1>7, <1>8, <1>9, <1>10 DEF Next, WriterStep

(***************************************************************************)
(* However transfers begin, end and are loaded, no more than MaxFinished   *)
(* of those in the list have ended (manager.rs:829-840).                   *)
(***************************************************************************)
THEOREM HistoryIsBounded == Spec => [](Cardinality(Finished(state)) <= MaxFinished)
<1> DEFINE Bounded == Cardinality(Finished(state)) <= MaxFinished
<1>1. Init => Bounded
  <2>1. Init => Finished(state) = {}
    BY DEF Init, Finished, NoTransfers, Terminal
  <2> QED
    BY <2>1, FS_EmptySet, HistoryAssumption
<1>2. PlacesInv /\ Bounded /\ [Next]_vars => PlacesInv' /\ Bounded'
  BY PlacesStep
<1> QED
  BY <1>1, <1>2, PlacesInit, PTL DEF Spec

=============================================================================
