-------------------------- MODULE SubscriptionProofs --------------------------
(***************************************************************************)
(* What a consumer of events shows is neither behind what was published to *)
(* it nor ahead of the manager, and never goes back: for any files,        *)
(* writers, subscribers and capacity of the channel, and wherever a        *)
(* consumer drops the future of `next`.                                    *)
(***************************************************************************)
EXTENDS Subscription, SequenceTheorems, TLAPS

State == [Items -> Nat]
FileSet == SUBSET Files
Delta == [rev : Nat, base : Nat, files : UNION {[F -> Nat] : F \in FileSet}]
Cursor ==
  [at : {"unopened", "snapshots", "baseline", "progress", "closed"},
   started : BOOLEAN, seen : Nat, read : Nat, rev : Nat, base : Nat, view : State]

Types ==
  /\ value \in State /\ value["ended"] \in {0, 1}
  /\ rev \in Nat /\ base \in Nat
  /\ dirty \subseteq Files
  /\ at \in [Writers -> {"idle", "dropped", "changed"}]
  /\ snapshot \in [state : State, rev : Nat]
  /\ log \in Seq(Delta)
  /\ known \in Seq(State) /\ Len(known) = rev
  /\ sub \in [Subscribers -> Cursor]

\* What has been published is not ahead of the manager.
PublishedInv == Within(Known(rev), value)

\* A delta turns what was published just before it into what it publishes.
IsStep(d) ==
  /\ d.rev \in 1 .. rev
  /\ Known(d.rev) = Apply(d.files, Known(d.rev - 1))
  /\ \A f \in DOMAIN d.files : d.files[f] <= value[f]

\* A file has no fewer bytes in a later delta.
InOrder(d, e) ==
  d.rev < e.rev =>
    \A f \in DOMAIN d.files \intersect DOMAIN e.files : d.files[f] <= e.files[f]

LogInv ==
  /\ \A i \in 1 .. Len(log) : IsStep(log[i])
  /\ \A i, j \in 1 .. Len(log) : InOrder(log[i], log[j])

\* A delta that c has yet to apply takes no file back.
Ahead(c, d) ==
  d.rev > c.rev => \A f \in DOMAIN d.files : c.view[f] <= d.files[f]

ViewInv(c) ==
  /\ c.rev <= rev
  /\ c.read <= Len(log)
  /\ Within(Known(c.rev), c.view)
  /\ Within(c.view, value)
  /\ \A i \in 1 .. Len(log) : Ahead(c, log[i])

EventInv ==
  /\ Types
  /\ PublishedInv
  /\ LogInv
  /\ \A s \in Subscribers : ViewInv(sub[s])

-----------------------------------------------------------------------------
(* States, deltas and what has been published.                             *)

LEMMA BlankType == Blank \in State
BY DEF Blank, State

LEMMA DeltaType ==
  ASSUME NEW d \in Delta
  PROVE  /\ d.rev \in Nat /\ d.base \in Nat
         /\ DOMAIN d.files \subseteq Files
         /\ \A f \in DOMAIN d.files : d.files[f] \in Nat
<1>1. PICK F \in FileSet : d.files \in [F -> Nat]
  BY DEF Delta
<1> QED
  BY <1>1 DEF Delta, FileSet

\* The files of a delta replace those of a state, the rest stays.
LEMMA ApplyType ==
  ASSUME NEW F \in FileSet, NEW files \in [F -> Nat], NEW state \in State
  PROVE  /\ Apply(files, state) \in State
         /\ \A i \in Items : Apply(files, state)[i] = IF i \in F THEN files[i] ELSE state[i]
BY DEF Apply, State

LEMMA KnownType ==
  ASSUME Types, NEW r \in 0 .. rev
  PROVE  Known(r) \in State
BY BlankType DEF Types, Known

\* A new revision leaves those before it as they are.
LEMMA KnownAfter ==
  ASSUME Types, NEW state \in State, known' = Append(known, state), rev' = rev + 1
  PROVE  /\ known' \in Seq(State) /\ Len(known') = rev'
         /\ Known(rev)' = state
         /\ \A r \in 0 .. rev : Known(r)' = Known(r)
<1>1. /\ known' \in Seq(State) /\ Len(known') = rev' /\ known'[rev'] = state
      /\ \A r \in 1 .. rev : known'[r] = known[r]
  BY AppendProperties DEF Types
<1> QED
  BY <1>1 DEF Types, Known

LEMMA Transitive ==
  ASSUME NEW a \in State, NEW b \in State, NEW c \in State, Within(a, b), Within(b, c)
  PROVE  Within(a, c)
BY DEF Within, State

LEMMA Reflexive == ASSUME NEW a \in State PROVE Within(a, a)
BY DEF Within, State

-----------------------------------------------------------------------------
(* The manager.                                                            *)

\* The delta that Record sends, if it sends one.
NewDelta(f) ==
  [rev |-> rev + 1, base |-> base,
   files |-> [g \in dirty \union {f} |-> IF g = f THEN value[f] + 1 ELSE value[g]]]

LEMMA RecordMoves ==
  ASSUME Types, NEW f \in Files, Record(f)
  PROVE  /\ UNCHANGED <<base, at, snapshot, stopping, sub>>
         /\ value["ended"] = 0
         /\ value' = [value EXCEPT ![f] = value[f] + 1]
         /\ \/ dirty' = dirty \union {f} /\ UNCHANGED <<rev, log, known>>
            \/ /\ dirty' = {} /\ rev' = rev + 1
               /\ log' = Append(log, NewDelta(f))
               /\ known' = Append(known, Apply(NewDelta(f).files, Known(rev)))
BY DEF Record, NewDelta, Types, State

LEMMA RecordValue ==
  ASSUME Types, NEW f \in Files, Record(f), NEW i \in Items
  PROVE  value[i] \in Nat /\ value'[i] = IF i = f THEN value[i] + 1 ELSE value[i]
<1>1. value \in [Items -> Nat] /\ f \in Items
  BY DEF Types, State, Items
<1>2. value' = [value EXCEPT ![f] = value[f] + 1]
  BY RecordMoves
<1> QED
  BY <1>1, <1>2

LEMMA NewDeltaType ==
  ASSUME Types, NEW f \in Files
  PROVE  /\ NewDelta(f) \in Delta
         /\ NewDelta(f).files \in [dirty \union {f} -> Nat]
         /\ dirty \union {f} \in FileSet
         /\ Apply(NewDelta(f).files, Known(rev)) \in State
<1>1. dirty \union {f} \in FileSet
  BY DEF Types, FileSet
<1>2. \A g \in dirty \union {f} : value[g] \in Nat
  BY DEF Types, State, Items
<1>3. NewDelta(f).files \in [dirty \union {f} -> Nat]
  BY <1>2 DEF NewDelta
<1>4. NewDelta(f) \in Delta
  <2>1. NewDelta(f).files \in UNION {[F -> Nat] : F \in FileSet}
    BY <1>1, <1>3
  <2>2. NewDelta(f) = [rev |-> rev + 1, base |-> base, files |-> NewDelta(f).files]
    BY DEF NewDelta
  <2> QED
    BY <2>1, <2>2 DEF Delta, Types
<1>5. Known(rev) \in State
  BY KnownType DEF Types
<1> QED
  BY <1>1, <1>3, <1>4, <1>5, ApplyType

ManagerStep ==
  \/ \E w \in Writers : DropDirty(w) \/ Mutate(w) \/ Emit(w)
  \/ \E f \in Files : Record(f)
  \/ Shutdown

\* The writers and the progress of files keep the types (manager.rs:697-803).
LEMMA ManagerTypes ==
  ASSUME Types,
         ManagerStep
  PROVE  Types'
<1>1. ASSUME NEW w \in Writers, DropDirty(w)
      PROVE  Types'
  BY <1>1 DEF DropDirty, Types
<1>2. ASSUME NEW w \in Writers, Mutate(w)
      PROVE  Types'
  <2>1. value' \in State /\ value'["ended"] \in {0, 1}
    BY <1>2 DEF Mutate, Types, State, Items
  <2> QED
    BY <1>2, <2>1 DEF Mutate, Types
<1>3. ASSUME NEW w \in Writers, Emit(w)
      PROVE  Types'
  <2>1. /\ known' = Append(known, value) /\ rev' = rev + 1 /\ base' = rev'
        /\ snapshot' = [state |-> value, rev |-> rev']
        /\ at' = [at EXCEPT ![w] = "idle"]
        /\ UNCHANGED <<value, dirty, log, stopping, sub>>
    BY <1>3 DEF Emit
  <2>2. known' \in Seq(State) /\ Len(known') = rev'
    BY <2>1, KnownAfter DEF Types
  <2> QED
    BY <2>1, <2>2 DEF Types
<1>4. ASSUME NEW f \in Files, Record(f)
      PROVE  Types'
  <2>1. value' \in State /\ value'["ended"] \in {0, 1}
    BY <1>4, RecordMoves DEF Types, State, Items
  <2>2. CASE UNCHANGED <<rev, log, known>>
    BY <1>4, <2>1, <2>2, RecordMoves DEF Types
  <2>3. CASE /\ dirty' = {} /\ rev' = rev + 1
             /\ log' = Append(log, NewDelta(f))
             /\ known' = Append(known, Apply(NewDelta(f).files, Known(rev)))
    <3>1. known' \in Seq(State) /\ Len(known') = rev'
      BY <2>3, NewDeltaType, KnownAfter
    <3>2. log' \in Seq(Delta)
      BY <2>3, NewDeltaType, AppendProperties DEF Types
    <3> QED
      BY <1>4, <2>1, <2>3, <3>1, <3>2, RecordMoves DEF Types
  <2> QED
    BY <1>4, <2>2, <2>3, RecordMoves
<1>5. CASE Shutdown
  BY <1>5 DEF Shutdown, Types
<1> QED
  BY <1>1, <1>2, <1>3, <1>4, <1>5 DEF ManagerStep

\* The manager's state only grows; nothing that is published changes again.
LEMMA ManagerGrows ==
  ASSUME Types, PublishedInv,
         ManagerStep
  PROVE  /\ Within(value, value')
         /\ rev' \in {rev, rev + 1}
         /\ \A r \in 0 .. rev : Known(r)' = Known(r)
         /\ PublishedInv'
         /\ UNCHANGED sub
<1>1. Known(rev) \in State /\ Known(0) = Known(0)' /\ 0 \in 0 .. rev /\ rev \in 0 .. rev
  BY KnownType DEF Types, Known
<1>2. ASSUME UNCHANGED <<known, rev, sub>>, Within(value, value')
      PROVE  /\ \A r \in 0 .. rev : Known(r)' = Known(r)
             /\ PublishedInv'
  <2>1. \A r \in 0 .. rev : Known(r)' = Known(r)
    BY <1>2 DEF Known
  <2>2. Known(rev)' = Known(rev)
    BY <1>2 DEF Known
  <2> QED
    BY <1>1, <1>2, <2>1, <2>2, ManagerTypes, Transitive DEF PublishedInv, Types
<1>3. ASSUME NEW w \in Writers, DropDirty(w)
      PROVE  UNCHANGED <<known, rev, sub, value>>
  BY <1>3 DEF DropDirty
<1>4. ASSUME NEW w \in Writers, Mutate(w)
      PROVE  UNCHANGED <<known, rev, sub>> /\ Within(value, value')
  BY <1>4 DEF Mutate, Within, Types, State, Items
<1>5. ASSUME NEW w \in Writers, Emit(w)
      PROVE  /\ UNCHANGED <<value, sub>> /\ rev' = rev + 1
             /\ \A r \in 0 .. rev : Known(r)' = Known(r)
             /\ PublishedInv'
  <2>1. known' = Append(known, value) /\ rev' = rev + 1 /\ UNCHANGED <<value, sub>>
    BY <1>5 DEF Emit
  <2> QED
    BY <2>1, KnownAfter, Reflexive DEF Types, PublishedInv
<1>6. ASSUME NEW f \in Files, Record(f)
      PROVE  Within(value, value')
  BY <1>6, RecordValue DEF Within
<1>7. ASSUME NEW f \in Files, Record(f), rev' = rev + 1,
             known' = Append(known, Apply(NewDelta(f).files, Known(rev)))
      PROVE  /\ \A r \in 0 .. rev : Known(r)' = Known(r)
             /\ PublishedInv'
  <2>1. /\ \A r \in 0 .. rev : Known(r)' = Known(r)
        /\ Known(rev)' = Apply(NewDelta(f).files, Known(rev))
    BY <1>7, NewDeltaType, KnownAfter
  <2>2. \A i \in Items : Apply(NewDelta(f).files, Known(rev))[i] <= value'[i]
    <3>1. \A i \in Items : Known(rev)[i] <= value[i] /\ value[i] \in Nat /\ Known(rev)[i] \in Nat
      BY <1>1 DEF PublishedInv, Within, Types, State
    <3>2. value' = [value EXCEPT ![f] = value[f] + 1]
      BY <1>7, RecordMoves
    <3>3. \A i \in Items : Apply(NewDelta(f).files, Known(rev))[i] =
            IF i \in dirty \union {f} THEN NewDelta(f).files[i] ELSE Known(rev)[i]
      BY NewDeltaType DEF Apply
    <3>4. \A i \in dirty \union {f} : NewDelta(f).files[i] = value'[i]
      BY <3>2 DEF NewDelta, Types, State, Items
    <3> QED
      BY <3>1, <3>2, <3>3, <3>4 DEF Types, State
  <2> QED
    BY <2>1, <2>2 DEF PublishedInv, Within
<1>8. CASE Shutdown
  BY <1>2, <1>8, Reflexive DEF Shutdown, Types
<1> QED
  BY <1>2, <1>3, <1>4, <1>5, <1>6, <1>7, <1>8, RecordMoves, Reflexive DEF ManagerStep, Types

\* d publishes the bytes files have after this step, over what was published.
IsNews(d) ==
  /\ d.rev = rev + 1 /\ rev' = rev + 1
  /\ \A f \in DOMAIN d.files : d.files[f] = value'[f]
  /\ Known(rev)' = Apply(d.files, Known(rev))

\* A step of the manager leaves the deltas sent and sends at most one more.
LEMMA OneDelta ==
  ASSUME Types, ManagerStep
  PROVE  /\ Len(log) <= Len(log)'
         /\ \A i \in 1 .. Len(log)' :
              \/ i \in 1 .. Len(log) /\ log'[i] = log[i]
              \/ IsNews(log'[i])
<1>1. CASE UNCHANGED log
  BY <1>1 DEF Types
<1>2. ASSUME NEW f \in Files, Record(f), rev' = rev + 1,
             log' = Append(log, NewDelta(f)),
             known' = Append(known, Apply(NewDelta(f).files, Known(rev)))
      PROVE  /\ Len(log) <= Len(log)'
             /\ \A i \in 1 .. Len(log)' :
                  \/ i \in 1 .. Len(log) /\ log'[i] = log[i]
                  \/ IsNews(log'[i])
  <2>1. Known(rev)' = Apply(NewDelta(f).files, Known(rev))
    BY <1>2, NewDeltaType, KnownAfter
  <2>2. \A g \in DOMAIN NewDelta(f).files : NewDelta(f).files[g] = value'[g]
    BY <1>2, RecordValue DEF NewDelta, Types, Items
  <2>3. IsNews(NewDelta(f))
    BY <1>2, <2>1, <2>2 DEF IsNews, NewDelta
  <2>4. /\ Len(log') = Len(log) + 1 /\ log'[Len(log) + 1] = NewDelta(f)
        /\ \A i \in 1 .. Len(log) : log'[i] = log[i]
    BY <1>2, NewDeltaType, AppendProperties DEF Types
  <2> QED
    BY <2>3, <2>4 DEF Types
<1>3. UNCHANGED log \/ \E f \in Files : Record(f)
  BY DEF ManagerStep, DropDirty, Mutate, Emit, Shutdown
<1> QED
  BY <1>1, <1>2, <1>3, RecordMoves

\* The deltas in the channel stay steps between published states, in order.
LEMMA ManagerLog ==
  ASSUME Types, PublishedInv, LogInv, ManagerStep
  PROVE  LogInv'
<1>1. /\ Types' /\ Within(value, value') /\ rev' \in {rev, rev + 1}
      /\ \A r \in 0 .. rev : Known(r)' = Known(r)
  BY ManagerTypes, ManagerGrows
<1>2. \A f \in Files : value[f] \in Nat /\ value'[f] \in Nat /\ value[f] <= value'[f]
  BY <1>1 DEF Types, State, Items, Within
<1>3. ASSUME NEW i \in 1 .. Len(log)
      PROVE  /\ log[i] \in Delta /\ IsStep(log[i])
             /\ \A f \in DOMAIN log[i].files : log[i].files[f] <= value'[f]
  <2>1. log[i] \in Delta
    BY DEF Types
  <2> QED
    BY <1>2, <2>1, DeltaType DEF LogInv, IsStep
<1>4. ASSUME NEW i \in 1 .. Len(log)'
      PROVE  log'[i] \in Delta
  BY <1>1 DEF Types
<1>5. ASSUME NEW i \in 1 .. Len(log)'
      PROVE  IsStep(log[i])'
  <2>1. PICK d \in Delta : d = log'[i]
    BY <1>4
  <2>2. CASE i \in 1 .. Len(log) /\ log'[i] = log[i]
    <3>1. IsStep(d)
      BY <1>3, <2>1, <2>2
    <3>2. /\ d.rev \in 0 .. rev /\ d.rev - 1 \in 0 .. rev
          /\ \A f \in DOMAIN d.files : d.files[f] <= value'[f]
      BY <1>3, <2>1, <2>2, <3>1 DEF IsStep, Types
    <3>3. Known(d.rev)' = Known(d.rev) /\ Known(d.rev - 1)' = Known(d.rev - 1)
      BY <1>1, <3>2
    <3>4. d.rev \in 1 .. rev'
      BY <1>1, <3>1 DEF IsStep, Types
    <3>5. IsStep(d)'
      BY <3>1, <3>2, <3>3, <3>4 DEF IsStep
    <3> QED
      BY <2>1, <3>5
  <2>3. CASE IsNews(log'[i])
    <3>1. d.rev = rev' /\ d.rev - 1 = rev /\ d.rev \in 1 .. rev' /\ rev \in 0 .. rev
      BY <2>1, <2>3 DEF IsNews, Types
    <3>2. Known(rev)' = Known(d.rev)'
      BY <3>1 DEF Known
    <3>3. Known(d.rev - 1)' = Known(rev)
      BY <1>1, <3>1
    <3>4. \A f \in DOMAIN d.files : d.files[f] <= value'[f]
      BY <1>2, <2>1, <2>3, DeltaType DEF IsNews
    <3>5. IsStep(d)'
      BY <2>1, <2>3, <3>1, <3>2, <3>3, <3>4 DEF IsStep, IsNews
    <3> QED
      BY <2>1, <3>5
  <2> QED
    BY <2>2, <2>3, OneDelta
<1>6. ASSUME NEW i \in 1 .. Len(log)', NEW j \in 1 .. Len(log)'
      PROVE  InOrder(log'[i], log'[j])
  <2>1. /\ log'[i] \in Delta /\ log'[j] \in Delta
    BY <1>4
  <2>2. CASE IsNews(log'[i])
    <3>1. CASE j \in 1 .. Len(log) /\ log'[j] = log[j]
      BY <1>3, <2>2, <3>1 DEF InOrder, IsNews, IsStep, Types
    <3>2. CASE IsNews(log'[j])
      BY <2>2, <3>2 DEF InOrder, IsNews, Types
    <3> QED
      BY <3>1, <3>2, OneDelta
  <2>3. CASE /\ i \in 1 .. Len(log) /\ log'[i] = log[i]
             /\ IsNews(log'[j])
    BY <1>3, <2>3 DEF InOrder, IsNews
  <2>4. CASE /\ i \in 1 .. Len(log) /\ log'[i] = log[i]
             /\ j \in 1 .. Len(log) /\ log'[j] = log[j]
    BY <2>4 DEF LogInv
  <2> QED
    BY <2>2, <2>3, <2>4, OneDelta
<1> QED
  BY <1>5, <1>6 DEF LogInv

\* A view that was right stays right when the manager goes on.
LEMMA ManagerViews ==
  ASSUME Types, PublishedInv, LogInv, ManagerStep,
         NEW c \in Cursor, ViewInv(c)
  PROVE  ViewInv(c)'
<1>1. /\ Types' /\ Within(value, value') /\ rev' \in {rev, rev + 1}
      /\ \A r \in 0 .. rev : Known(r)' = Known(r)
  BY ManagerTypes, ManagerGrows
<1>2. c.rev \in 0 .. rev /\ c.read \in Nat /\ c.view \in State
  BY DEF ViewInv, Cursor, Types
<1>3. c.rev <= rev' /\ c.read <= Len(log)'
  BY <1>1, <1>2, OneDelta DEF ViewInv, Types
<1>4. Known(c.rev)' = Known(c.rev)
  BY <1>1, <1>2
<1>5. Within(c.view, value')
  BY <1>1, <1>2, Transitive DEF ViewInv, Types
<1>6. ASSUME NEW i \in 1 .. Len(log)'
      PROVE  Ahead(c, log'[i])
  <2>1. CASE i \in 1 .. Len(log) /\ log'[i] = log[i]
    BY <2>1 DEF ViewInv
  <2>2. CASE IsNews(log'[i])
    <3>1. DOMAIN log'[i].files \subseteq Items
      BY <1>1, DeltaType DEF Types, Items
    <3> QED
      BY <1>5, <2>2, <3>1 DEF Ahead, IsNews, Within
  <2> QED
    BY <2>1, <2>2, OneDelta
<1> QED
  BY <1>3, <1>4, <1>5, <1>6 DEF ViewInv

-----------------------------------------------------------------------------
(* A subscription.                                                         *)

\* No event takes what a consumer shows back.
Later(c, d) == c.rev <= d.rev /\ Within(c.view, d.view)

\* The step of s makes d its cursor, which is right and no earlier.
Moves(s, d) ==
  /\ Set(s, d)
  /\ d \in Cursor
  /\ ViewInv(d)
  /\ Later(sub[s], d)

\* Steps that only move the place in one of the channels.
LEMMA SamePicture ==
  ASSUME Types, NEW c \in Cursor, ViewInv(c), NEW d \in Cursor,
         d.rev = c.rev, d.view = c.view, d.read <= Len(log)
  PROVE  ViewInv(d) /\ Later(c, d)
BY Reflexive DEF ViewInv, Ahead, Later, Cursor

\* The state and its revision, read together (manager.rs:306-317).
LEMMA BaselineMoves ==
  ASSUME EventInv, NEW s \in Subscribers, ReadBaseline(s)
  PROVE  \E d : Moves(s, d)
<1> DEFINE c == sub[s]
           d == [c EXCEPT !.at = "snapshots", !.started = TRUE, !.base = base,
                          !.rev = rev, !.view = value]
<1>1. Set(s, d)
  BY DEF ReadBaseline, CurrentState
<1>2. c \in Cursor /\ ViewInv(c)
  BY DEF EventInv, Types
<1>3. /\ d \in Cursor /\ d.rev = rev /\ d.view = value /\ d.read = c.read
      /\ c.read <= Len(log) /\ c.rev <= rev
  BY <1>2 DEF EventInv, Types, Cursor, ViewInv
<1> HIDE DEF d
<1>4. \A i \in 1 .. Len(log) : Ahead(d, log[i])
  BY <1>3 DEF EventInv, LogInv, IsStep, Ahead, Types
<1>5. ViewInv(d)
  BY <1>3, <1>4, Reflexive DEF EventInv, PublishedInv, ViewInv, Types
<1>6. Later(c, d)
  BY <1>2, <1>3 DEF ViewInv, Later
<1> QED
  BY <1>1, <1>3, <1>5, <1>6 DEF Moves

\* The next delta, over the state it was made from (subscription.rs:59-68).
LEMMA ApplyIsRight ==
  ASSUME EventInv, NEW c \in Cursor, ViewInv(c), c.read < Len(log),
         NEW x \in Delta, x = log[c.read + 1], x.rev = c.rev + 1,
         NEW d \in Cursor, d.rev = x.rev, d.read = c.read + 1,
         d.view = Apply(x.files, c.view)
  PROVE  ViewInv(d) /\ Later(c, d)
<1>1. /\ c.read + 1 \in 1 .. Len(log) /\ d.read <= Len(log)
      /\ c.rev \in Nat /\ c.view \in State /\ d.view \in State
  BY DEF Cursor, Types, EventInv
<1>2. IsStep(x) /\ Ahead(c, x) /\ \A j \in 1 .. Len(log) : InOrder(x, log[j])
  BY <1>1 DEF EventInv, LogInv, ViewInv
<1>3. DOMAIN x.files \subseteq Items /\ \A f \in DOMAIN x.files : x.files[f] \in Nat
  BY DeltaType DEF Items
<1>4. \A i \in Items : d.view[i] = IF i \in DOMAIN x.files THEN x.files[i] ELSE c.view[i]
  BY DEF Apply
<1>5. Known(x.rev) = Apply(x.files, Known(c.rev)) /\ d.rev <= rev
  BY <1>1, <1>2 DEF IsStep
<1>6. \A i \in Items : /\ value[i] \in Nat /\ c.view[i] \in Nat
                       /\ Known(c.rev)[i] <= c.view[i] /\ c.view[i] <= value[i]
  BY <1>1 DEF EventInv, Types, State, ViewInv, Within
<1>7. Within(Known(d.rev), d.view)
  BY <1>3, <1>4, <1>5, <1>6 DEF Within, Apply
<1>8. Within(d.view, value)
  BY <1>2, <1>4, <1>6 DEF Within, IsStep
<1>9. Within(c.view, d.view)
  BY <1>1, <1>2, <1>4, <1>6 DEF Within, Ahead
<1>10. ASSUME NEW j \in 1 .. Len(log)
       PROVE  Ahead(d, log[j])
  <2>1. log[j] \in Delta
    BY DEF EventInv, Types
  <2>2. Ahead(c, log[j]) /\ InOrder(x, log[j])
    BY <1>2 DEF ViewInv
  <2>3. DOMAIN log[j].files \subseteq Items /\ log[j].rev \in Nat
    BY <2>1, DeltaType DEF Items
  <2> QED
    BY <1>1, <1>4, <2>2, <2>3 DEF Ahead, InOrder
<1> QED
  BY <1>1, <1>5, <1>7, <1>8, <1>9, <1>10 DEF ViewInv, Later

LEMMA ProgressMoves ==
  ASSUME EventInv, NEW s \in Subscribers, PollProgress(s)
  PROVE  \E d : Moves(s, d)
<1> DEFINE c == sub[s]
           x == log[c.read + 1]
           passed == [c EXCEPT !.read = c.read + 1]
<1>1. c \in Cursor /\ ViewInv(c)
  BY DEF EventInv, Types
<1>2. c.read \in Nat /\ c.read <= Len(log) /\ Len(log) \in Nat /\ c.rev \in Nat
  BY <1>1 DEF Cursor, ViewInv, EventInv, Types
<1>3. ASSUME NEW d \in Cursor, Set(s, d),
             d.rev = c.rev, d.view = c.view, d.read <= Len(log)
      PROVE  Moves(s, d)
  BY <1>1, <1>3, SamePicture DEF Moves, EventInv
<1>4. CASE Len(log) = c.read
  <2> DEFINE d == [c EXCEPT !.at = "snapshots"]
  <2>1. Set(s, d)
    BY <1>4 DEF PollProgress
  <2>2. d \in Cursor /\ d.rev = c.rev /\ d.view = c.view /\ d.read = c.read
    BY <1>1 DEF Cursor
  <2> HIDE DEF d
  <2> QED
    BY <1>2, <1>3, <2>1, <2>2
<1>5. CASE Len(log) # c.read /\ Lagged(c)
  <2> DEFINE d == [c EXCEPT !.at = "baseline", !.seen = snapshot.rev,
                            !.read = Len(log) - Cap]
  <2>1. Set(s, d)
    BY <1>5 DEF PollProgress
  <2>2. Cap \in Nat /\ Len(log) - Cap \in Nat /\ Len(log) - Cap <= Len(log)
    BY <1>2, <1>5, BoundsAssumption DEF Lagged
  <2>3. d \in Cursor /\ d.rev = c.rev /\ d.view = c.view /\ d.read = Len(log) - Cap
    BY <1>1, <2>2 DEF Cursor, EventInv, Types
  <2> HIDE DEF d
  <2> QED
    BY <1>3, <2>1, <2>2, <2>3
<1>6. CASE Len(log) # c.read /\ ~ Lagged(c)
  <2>1. c.read + 1 \in 1 .. Len(log) /\ x \in Delta /\ x.rev \in Nat
    BY <1>2, <1>6, DeltaType DEF EventInv, Types
  <2>2. /\ passed \in Cursor /\ passed.rev = c.rev /\ passed.view = c.view
        /\ passed.read = c.read + 1
    BY <1>1, <1>2 DEF Cursor
  <2>3. CASE Disposition(c, x) = "skip"
    <3> DEFINE d == [passed EXCEPT !.at = "snapshots"]
    <3>1. Set(s, d)
      BY <1>6, <2>3 DEF PollProgress
    <3> HIDE DEF passed
    <3>2. d \in Cursor /\ d.rev = c.rev /\ d.view = c.view /\ d.read = c.read + 1
      BY <2>2 DEF Cursor
    <3> HIDE DEF d
    <3> QED
      BY <1>2, <1>3, <2>1, <3>1, <3>2
  <2>4. CASE Disposition(c, x) = "apply"
    <3> DEFINE d == [passed EXCEPT !.at = "snapshots", !.rev = x.rev,
                                   !.view = Apply(x.files, c.view)]
    <3>1. Set(s, d)
      BY <1>6, <2>4 DEF PollProgress
    <3> HIDE DEF passed
    <3>2. x.rev = c.rev + 1
      BY <2>4 DEF Disposition
    <3>3. Apply(x.files, c.view) \in State
      <4>1. PICK F \in FileSet : x.files \in [F -> Nat]
        BY <2>1 DEF Delta
      <4> QED
        BY <1>1, <4>1, ApplyType DEF Cursor
    <3>4. /\ d \in Cursor /\ d.rev = x.rev /\ d.read = c.read + 1
          /\ d.view = Apply(x.files, c.view)
      BY <2>1, <2>2, <3>3 DEF Cursor
    <3> HIDE DEF d
    <3>5. ViewInv(d) /\ Later(c, d)
      BY <1>1, <1>2, <1>6, <2>1, <3>2, <3>4, ApplyIsRight
    <3> QED
      BY <3>1, <3>4, <3>5 DEF Moves
  <2>5. CASE Disposition(c, x) \notin {"skip", "apply"}
    <3> DEFINE d == [passed EXCEPT !.at = "baseline", !.seen = snapshot.rev]
    <3>1. Set(s, d)
      BY <1>6, <2>5 DEF PollProgress
    <3> HIDE DEF passed
    <3>2. d \in Cursor /\ d.rev = c.rev /\ d.view = c.view /\ d.read = c.read + 1
      BY <2>2 DEF Cursor, EventInv, Types
    <3> HIDE DEF d
    <3> QED
      BY <1>2, <1>3, <2>1, <3>1, <3>2
  <2> QED
    BY <2>3, <2>4, <2>5
<1> QED
  BY <1>4, <1>5, <1>6

\* Every step of a subscription.
LEMMA CursorMoves ==
  ASSUME EventInv, NEW s \in Subscribers, Open(s) \/ Step(s) \/ DropNext(s)
  PROVE  \E d : Moves(s, d)
<1> DEFINE c == sub[s]
<1>1. c \in Cursor /\ ViewInv(c) /\ c.read <= Len(log) /\ Len(log) \in Nat
  BY DEF EventInv, Types, ViewInv
<1>2. ASSUME NEW d \in Cursor, Set(s, d),
             d.rev = c.rev, d.view = c.view, d.read <= Len(log)
      PROVE  Moves(s, d)
  BY <1>1, <1>2, SamePicture DEF Moves, EventInv
<1>3. snapshot.rev \in Nat
  BY DEF EventInv, Types
<1>4. CASE Open(s)
  <2> DEFINE d == [c EXCEPT !.at = "snapshots", !.seen = snapshot.rev,
                            !.read = Len(log)]
  <2>1. Set(s, d)
    BY <1>4 DEF Open
  <2>2. d \in Cursor /\ d.rev = c.rev /\ d.view = c.view /\ d.read = Len(log)
    BY <1>1, <1>3 DEF Cursor
  <2> HIDE DEF d
  <2> QED
    BY <1>1, <1>2, <2>1, <2>2
<1>5. ASSUME NEW place \in {"closed", "snapshots", "progress"},
             Set(s, [c EXCEPT !.at = place])
      PROVE  \E d : Moves(s, d)
  <2> DEFINE d == [c EXCEPT !.at = place]
  <2>1. d \in Cursor /\ d.rev = c.rev /\ d.view = c.view /\ d.read = c.read
    BY <1>1 DEF Cursor
  <2>2. Set(s, d)
    BY <1>5
  <2> HIDE DEF d
  <2> QED
    BY <1>1, <1>2, <2>1, <2>2
<1>6. CASE PollSnapshots(s)
  <2> DEFINE d == [c EXCEPT !.at = "baseline", !.seen = snapshot.rev]
  <2>1. \/ Set(s, [c EXCEPT !.at = "closed"])
        \/ Set(s, [c EXCEPT !.at = "progress"])
        \/ Set(s, d)
    BY <1>6 DEF PollSnapshots
  <2>2. d \in Cursor /\ d.rev = c.rev /\ d.view = c.view /\ d.read = c.read
    BY <1>1, <1>3 DEF Cursor
  <2> HIDE DEF d
  <2> QED
    BY <1>1, <1>2, <1>5, <2>1, <2>2
<1>7. CASE DropNext(s)
  BY <1>5, <1>7 DEF DropNext
<1> QED
  BY <1>4, <1>6, <1>7, BaselineMoves, ProgressMoves DEF Step

-----------------------------------------------------------------------------
LEMMA EventInit == Init => EventInv
<1> SUFFICES ASSUME Init PROVE EventInv
  OBVIOUS
<1>1. Types
  BY BlankType DEF Init, Types, Blank, Items, Cursor
<1>2. PublishedInv /\ LogInv
  BY BlankType, Reflexive DEF Init, PublishedInv, LogInv, Known
<1>3. \A s \in Subscribers : ViewInv(sub[s])
  BY BlankType, Reflexive DEF Init, ViewInv, Known
<1> QED
  BY <1>1, <1>2, <1>3 DEF EventInv

\* Whatever happens the invariant stays, and no consumer goes back.
LEMMA EventStep ==
  ASSUME EventInv, [Next]_vars
  PROVE  EventInv' /\ \A s \in Subscribers : Later(sub[s], sub'[s])
<1>1. CASE ManagerStep
  <2>1. Types' /\ PublishedInv' /\ LogInv' /\ sub' = sub
    BY <1>1, ManagerTypes, ManagerGrows, ManagerLog DEF EventInv
  <2>2. ASSUME NEW s \in Subscribers
        PROVE  ViewInv(sub[s])' /\ Later(sub[s], sub'[s])
    <3>1. PICK c \in Cursor : c = sub[s] /\ ViewInv(c)
      BY DEF EventInv, Types
    <3>2. ViewInv(c)'
      BY <1>1, <3>1, ManagerViews DEF EventInv
    <3>3. Later(c, c)
      BY <3>1, Reflexive DEF Later, Cursor
    <3> QED
      BY <2>1, <3>1, <3>2, <3>3
  <2> QED
    BY <2>1, <2>2 DEF EventInv
<1>2. ASSUME NEW s \in Subscribers, Open(s) \/ Step(s) \/ DropNext(s)
      PROVE  EventInv' /\ \A t \in Subscribers : Later(sub[t], sub'[t])
  <2>1. PICK d : Moves(s, d)
    BY <1>2, CursorMoves
  <2>2. UNCHANGED manager /\ sub' = [sub EXCEPT ![s] = d]
    BY <2>1 DEF Moves, Set
  <2>3. Types' /\ PublishedInv' /\ LogInv'
    BY <2>1, <2>2 DEF EventInv, Types, PublishedInv, LogInv, IsStep, Known, manager, Moves
  <2>4. \A c : ViewInv(c) => ViewInv(c)'
    BY <2>2 DEF ViewInv, Known, manager
  <2>5. ASSUME NEW t \in Subscribers
        PROVE  ViewInv(sub[t])' /\ Later(sub[t], sub'[t])
    <3>1. CASE t = s
      BY <2>1, <2>2, <2>4, <3>1 DEF EventInv, Types, Moves
    <3>2. CASE t # s
      <4>1. PICK c \in Cursor : c = sub[t] /\ ViewInv(c)
        BY DEF EventInv, Types
      <4>2. sub'[t] = c /\ Later(c, c)
        BY <2>2, <3>2, <4>1, Reflexive DEF Later, Cursor, EventInv, Types
      <4> QED
        BY <2>4, <4>1, <4>2
    <3> QED
      BY <3>1, <3>2
  <2> QED
    BY <2>3, <2>5 DEF EventInv
<1>3. CASE UNCHANGED vars
  <2>1. Types' /\ PublishedInv' /\ LogInv' /\ sub' = sub
    BY <1>3 DEF EventInv, Types, PublishedInv, LogInv, IsStep, Known, vars
  <2>2. \A c : ViewInv(c) => ViewInv(c)'
    BY <1>3 DEF ViewInv, Known, vars
  <2>3. \A c \in Cursor : Later(c, c)
    BY Reflexive DEF Later, Cursor
  <2> QED
    BY <2>1, <2>2, <2>3 DEF EventInv, Types
<1> QED
  BY <1>1, <1>2, <1>3 DEF Next, ManagerStep

THEOREM EventsSafe == Spec => []EventInv
BY EventInit, EventStep, PTL DEF Spec

(***************************************************************************)
(* What a consumer shows at a revision holds all that was published up to  *)
(* it, and nothing the manager has not: for any number of writers and      *)
(* subscribers, any capacity of the progress channel, and wherever the     *)
(* consumer drops the future of `next` (subscription.rs:30-74).            *)
(***************************************************************************)
THEOREM ViewsAreCurrent == Spec => []NoStaleView
<1>1. EventInv => NoStaleView
  BY DEF EventInv, ViewInv, NoStaleView
<1> QED
  BY <1>1, EventsSafe, PTL

(***************************************************************************)
(* No event takes a consumer back, in whatever order snapshots and deltas  *)
(* reach it (subscription.rs:43-74).                                       *)
(***************************************************************************)
THEOREM ViewsOnlyGrow == Spec => NeverBackwards
<1>1. EventInv /\ [Next]_vars =>
        [\A s \in Subscribers : /\ sub[s].rev <= sub'[s].rev
                                /\ Within(sub[s].view, sub'[s].view)]_vars
  BY EventStep DEF Later
<1> QED
  BY <1>1, EventsSafe, PTL DEF Spec, NeverBackwards
=============================================================================
