--------------------------- MODULE DeliveryProofs ---------------------------
(***************************************************************************)
(* Delivery proved for any files, changes to them and timeouts that leave  *)
(* the grants their time: what is kept is what was prepared, no grant      *)
(* expires before its stream comes, and no offer is refused for its        *)
(* previews or its total.                                                  *)
(***************************************************************************)
EXTENDS Delivery, Induction, FiniteSetTheorems, TLAPS

(***************************************************************************)
(* The data.  While a prepared file shows its time of change, it has the   *)
(* data it was prepared with, and so has what was sent of it.              *)
(***************************************************************************)
Shape ==
  /\ disk \in [Files -> [Inodes -> [data : Seq(Versions), time : Nat]]]
  /\ named \in [Files -> Inodes]
  /\ held \in [Files -> Inodes \union {"none"}]
  /\ manifest \in [Files -> [data : Seq(Versions), time : Nat]]
  /\ place \in [Files -> {"waiting", "opened", "taken", "data", "digest", "done"}]
  /\ sent \in [Files -> Seq(Versions)]
  /\ kept \in [Files -> [done : BOOLEAN, data : Seq(Versions)]]
  /\ edits \in Nat

\* Nothing is sent of a file before it is prepared.
NotYet(f) == place[f] = "waiting" /\ sent[f] = <<>> /\ ~kept[f].done

Prefix(f) ==
  /\ Len(sent[f]) <= Len(manifest[f].data)
  /\ \A i \in 1 .. Len(sent[f]) : sent[f][i] = manifest[f].data[i]

Fresh(f) == Source(f).time = manifest[f].time

PreparedInv(f) ==
  /\ held[f] = "none" => NotYet(f)
  /\ held[f] = "new" => named[f] = "new"
  /\ phase \notin {"selected", "preparing", "failed"} => held[f] # "none"
  /\ held[f] # "none" => Source(f).time >= manifest[f].time

ContentInv(f) ==
  /\ held[f] # "none" /\ Fresh(f) => Source(f).data = manifest[f].data /\ Prefix(f)
  /\ place[f] \in {"digest", "done"} => sent[f] = manifest[f].data
  /\ kept[f].done => kept[f].data = manifest[f].data

DataInv ==
  /\ Shape
  /\ \A f \in Files : PreparedInv(f) /\ (f \notin blind => ContentInv(f))

(***************************************************************************)
(* Time.  Of the files taken, at most i came after the time by which all   *)
(* but i have come; while there is room, the next one is due by its time.  *)
(***************************************************************************)
Taken == Running \union In({"done"})
Count == Cardinality(Taken)

TimeInv(OpenBy) ==
  /\ now \in Nat /\ wait \in Nat /\ start \in [Files -> Nat]
  /\ wait <= now
  /\ \A i \in 0 .. Count :
       Cardinality({f \in Taken : start[f] > OpenBy[Count - i]}) <= i
  /\ Cardinality(Running) <= Concurrency
  /\ \A f \in Running : now <= start[f] + FileTimeout
  /\ HasRoom /\ Pending # {} =>
       /\ now <= wait + OpenTimeout
       /\ wait + OpenTimeout <= OpenBy[Count + 1]
  /\ reason # "expired"

(***************************************************************************)
(* Files change (the user's programs; preparation.rs:57-99).               *)
(***************************************************************************)
LEMMA EditedType ==
  ASSUME NEW data \in Seq(Versions), NEW v \in Versions, NEW new \in Edited(data, v)
  PROVE  new \in Seq(Versions)
<1>1. CASE new = Append(data, v)
  BY <1>1
<1>2. ASSUME NEW i \in DOMAIN data, new = [data EXCEPT ![i] = v]
      PROVE  new \in Seq(Versions)
  BY <1>2
<1>3. ASSUME 1 \in DOMAIN data, new = Front(data)
      PROVE  new \in Seq(Versions)
  BY <1>3 DEF Front
<1> QED
  BY <1>1, <1>2, <1>3 DEF Edited

\* A file that stays as it is, with what was made of it.
LEMMA Untouched ==
  ASSUME NEW f \in Files, PreparedInv(f), f \notin blind => ContentInv(f),
         disk'[f] = disk[f], held'[f] = held[f], manifest'[f] = manifest[f],
         named'[f] = named[f], sent'[f] = sent[f], kept'[f] = kept[f], place'[f] = place[f],
         f \notin blind' => f \notin blind,
         phase' \in {"failed", phase} \/ held[f] # "none"
  PROVE  PreparedInv(f)' /\ (f \notin blind => ContentInv(f))'
BY DEF PreparedInv, ContentInv, NotYet, Prefix, Fresh, Source

LEMMA EditStep ==
  ASSUME DataInv, NEW g \in Files, NEW inode \in Inodes, NEW tick \in {0, 1},
         Edit(g, inode, tick)
  PROVE  DataInv'
<1> USE DEF DataInv, preparedVars, dataVars
<1>1. edits' \in Versions /\ edits' \in Nat
  BY DeliveryAssumption DEF Edit, Shape, Versions
<1>2. PICK data \in Edited(disk[g][inode].data, edits') :
        disk' = [disk EXCEPT ![g][inode] = FileOf(data, @.time + tick)]
  BY DEF Edit
<1>3. data \in Seq(Versions)
  <2>1. disk[g][inode].data \in Seq(Versions)
    BY DEF Shape
  <2> QED
    BY <1>1, <1>2, <2>1, EditedType
<1>4. disk[g][inode].time + tick \in Nat
  BY DEF Shape
<1>5. Shape'
  <2>1. FileOf(data, disk[g][inode].time + tick) \in [data : Seq(Versions), time : Nat]
    BY <1>3, <1>4 DEF FileOf
  <2>2. disk' \in [Files -> [Inodes -> [data : Seq(Versions), time : Nat]]]
    BY <1>2, <2>1 DEF Shape
  <2> QED
    BY <1>1, <2>2 DEF Edit, Shape
<1>6. /\ UNCHANGED <<named, held, manifest, sent, kept, place, phase>>
      /\ blind' = IF held[g] = inode /\ tick = 0 THEN blind \union {g} ELSE blind
  BY DEF Edit
<1>7. ASSUME NEW f \in Files, f # g
      PROVE  PreparedInv(f)' /\ (f \notin blind => ContentInv(f))'
  BY <1>2, <1>6, <1>7, Untouched DEF Shape
<1>8. PreparedInv(g)' /\ (g \notin blind => ContentInv(g))'
  <2>1. CASE held[g] # inode
    <3>1. held[g] # "none" => disk'[g][held[g]] = disk[g][held[g]]
      BY <1>2, <2>1 DEF Shape
    <3> QED
      BY <1>6, <2>1, <3>1 DEF PreparedInv, ContentInv, NotYet, Prefix, Fresh, Source
  <2>2. CASE held[g] = inode
    <3>1. disk'[g][inode] = FileOf(data, disk[g][inode].time + tick)
      BY <1>2 DEF Shape
    <3>2. disk'[g][inode].time = disk[g][inode].time + tick
      BY <3>1 DEF FileOf
    <3>3. disk[g][inode].time \in Nat /\ manifest[g].time \in Nat
      BY DEF Shape
    <3>4. inode # "none"
      BY DEF Inodes
    <3>5. PreparedInv(g)'
      BY <1>6, <2>2, <3>2, <3>3, <3>4 DEF PreparedInv, NotYet, Source
    <3>6. ASSUME g \notin blind'
          PROVE  ContentInv(g)'
      <4>1. tick = 1 /\ g \notin blind
        BY <1>6, <2>2, <3>6
      <4>2. ~Fresh(g)'
        BY <1>6, <2>2, <3>2, <3>3, <3>4, <4>1 DEF PreparedInv, Fresh, Source
      <4> QED
        BY <1>6, <4>1, <4>2 DEF ContentInv
    <3> QED
      BY <3>5, <3>6
  <2> QED
    BY <2>1, <2>2
<1> QED
  BY <1>5, <1>7, <1>8

LEMMA ReplaceStep ==
  ASSUME DataInv, NEW g \in Files, Replace(g)
  PROVE  DataInv'
<1> USE DEF DataInv, preparedVars, dataVars
<1> DEFINE data == [i \in DOMAIN disk[g]["old"].data |-> edits']
<1>1. edits' \in Versions /\ edits' \in Nat
  BY DeliveryAssumption DEF Replace, Shape, Versions
<1>2. data \in Seq(Versions)
  <2>1. disk[g]["old"].data \in Seq(Versions)
    BY DEF Shape, Inodes
  <2>2. PICK n \in Nat : DOMAIN disk[g]["old"].data = 1 .. n
    BY <2>1
  <2>3. \A e \in Versions : [i \in 1 .. n |-> e] \in Seq(Versions)
    OBVIOUS
  <2> QED
    BY <1>1, <2>2, <2>3
<1>3. disk' = [disk EXCEPT ![g]["new"] = FileOf(data, 0)]
  BY DEF Replace
<1>4. Shape'
  <2>1. FileOf(data, 0) \in [data : Seq(Versions), time : Nat]
    BY <1>2 DEF FileOf
  <2>2. disk' \in [Files -> [Inodes -> [data : Seq(Versions), time : Nat]]]
    <3> HIDE DEF data
    <3> QED
      BY <1>3, <2>1 DEF Shape
  <2> QED
    BY <1>1, <2>2 DEF Replace, Shape, Inodes
<1>5. /\ UNCHANGED <<held, manifest, sent, kept, place, phase, blind>>
      /\ named[g] = "old" /\ named' = [named EXCEPT ![g] = "new"]
  BY DEF Replace
<1>6. ASSUME NEW f \in Files, f # g
      PROVE  PreparedInv(f)' /\ (f \notin blind => ContentInv(f))'
  BY <1>3, <1>5, <1>6, Untouched DEF Shape
<1>7. PreparedInv(g)' /\ (g \notin blind => ContentInv(g))'
  <2>1. held[g] # "new"
    BY <1>5 DEF PreparedInv
  <2>2. disk'[g]["old"] = disk[g]["old"]
    BY <1>3 DEF Shape, Inodes
  <2>3. held[g] \in {"old", "none"} /\ named'[g] = "new"
    BY <1>5, <2>1 DEF Shape, Inodes
  <2> QED
    BY <1>5, <2>2, <2>3 DEF PreparedInv, ContentInv, NotYet, Prefix, Fresh, Source
<1> QED
  BY <1>4, <1>6, <1>7

LEMMA PrepareStep ==
  ASSUME DataInv, NEW g \in Files, Prepare(g)
  PROVE  DataInv'
<1> USE DEF DataInv, sourceVars, dataVars
<1>1. /\ UNCHANGED <<disk, named, edits, blind, sent, kept, place, phase>>
      /\ held[g] = "none" /\ phase = "preparing"
      /\ held' = [held EXCEPT ![g] = named[g]]
      /\ manifest' = [manifest EXCEPT ![g] = disk[g][named[g]]]
  BY DEF Prepare
<1>2. Shape'
  BY <1>1 DEF Shape
<1>3. ASSUME NEW f \in Files, f # g
      PROVE  PreparedInv(f)' /\ (f \notin blind => ContentInv(f))'
  BY <1>1, <1>3, Untouched DEF Shape
<1>4. PreparedInv(g)' /\ (g \notin blind => ContentInv(g))'
  <2>1. NotYet(g) /\ NotYet(g)'
    BY <1>1 DEF PreparedInv, NotYet
  <2>2. held'[g] = named[g] /\ manifest'[g] = disk[g][named[g]] /\ named[g] \in Inodes
    BY <1>1 DEF Shape
  <2>3. manifest'[g].data \in Seq(Versions) /\ manifest'[g].time \in Nat
    BY <1>2 DEF Shape
  <2>4. Prefix(g)'
    BY <2>1, <2>3 DEF Prefix, NotYet
  <2> QED
    BY <1>1, <2>1, <2>2, <2>3, <2>4 DEF PreparedInv, ContentInv, NotYet, Source, Fresh, Inodes
<1> QED
  BY <1>2, <1>3, <1>4

(***************************************************************************)
(* The file is sent and kept (sender.rs:111-160, receiver.rs:456-513).     *)
(***************************************************************************)
\* The streams of a transfer are those of prepared files.
LEMMA ReceivingIsPrepared ==
  ASSUME DataInv, NEW g \in Files, phase = "receiving"
  PROVE  held[g] \in Inodes
BY DEF DataInv, PreparedInv, Shape

LEMMA SendChunkStep ==
  ASSUME DataInv, NEW g \in Files, SendChunk(g)
  PROVE  DataInv'
<1> USE DEF DataInv, sourceVars, preparedVars, timeVars
<1> DEFINE n == Len(sent[g]) + 1
<1>1. /\ UNCHANGED <<disk, named, edits, blind, held, manifest, kept>>
      /\ phase = "receiving" /\ phase' \in {"receiving", "failed"}
      /\ place[g] = "data" /\ place' = [place EXCEPT ![g] = "data"]
      /\ n <= Len(manifest[g].data)
  <2>1. Len(sent[g]) \in Nat /\ Len(manifest[g].data) \in Nat
    BY DEF Shape
  <2>2. n <= Len(manifest[g].data)
    <3>1. More(g)
      BY DEF SendChunk
    <3>2. Len(sent[g]) < Len(manifest[g].data)
      BY <3>1 DEF More, Sizes
    <3> QED
      BY <2>1, <3>2
  <2>3. phase' \in {"receiving", "failed"}
    BY DEF SendChunk, At, Fails
  <2> QED
    BY <2>2, <2>3 DEF SendChunk, At
<1>2. held[g] \in Inodes
  BY <1>1, ReceivingIsPrepared
<1>3. sent[g] \in Seq(Versions) /\ Source(g).data \in Seq(Versions)
      /\ manifest[g].data \in Seq(Versions)
  BY <1>2 DEF Shape, Source
<1>4. CASE n > Len(Source(g).data)
  <2>1. UNCHANGED sent /\ phase' = "failed"
    BY <1>4 DEF SendChunk, Fails
  <2>2. Shape'
    BY <1>1, <2>1 DEF Shape
  <2> QED
    BY <1>1, <2>1, <2>2, Untouched DEF Shape
<1>5. CASE ~(n > Len(Source(g).data))
  <2>1. sent' = [sent EXCEPT ![g] = Append(@, Source(g).data[n])]
    BY <1>5 DEF SendChunk
  <2>2. n \in 1 .. Len(Source(g).data) /\ Source(g).data[n] \in Versions
    BY <1>3, <1>5
  <2>3. sent'[g] = Append(sent[g], Source(g).data[n])
    BY <2>1 DEF Shape
  <2>4. /\ sent'[g] \in Seq(Versions)
        /\ Len(sent'[g]) = n
        /\ sent'[g][n] = Source(g).data[n]
        /\ \A i \in 1 .. Len(sent[g]) : sent'[g][i] = sent[g][i]
    BY <1>3, <2>2, <2>3
  <2>5. Shape'
    BY <1>1, <2>1, <2>4 DEF Shape
  <2>6. ASSUME NEW f \in Files, f # g
        PROVE  PreparedInv(f)' /\ (f \notin blind => ContentInv(f))'
    BY <1>1, <2>1, <2>6, Untouched DEF Shape
  <2>7. held[g] # "none" /\ place'[g] = "data"
    BY <1>1, <1>2 DEF Inodes, Shape
  <2>8. PreparedInv(g)'
    BY <1>1, <2>7 DEF PreparedInv, Source
  <2>9. ASSUME g \notin blind
        PROVE  ContentInv(g)'
    <3>1. ASSUME Fresh(g)
          PROVE  Prefix(g)'
      <4>1. Source(g).data = manifest[g].data /\ Prefix(g)
        BY <2>7, <2>9, <3>1 DEF ContentInv
      <4>2. ASSUME NEW i \in 1 .. Len(sent'[g])
            PROVE  sent'[g][i] = manifest[g].data[i]
        <5>1. CASE i = n
          BY <2>4, <4>1, <5>1
        <5>2. CASE i # n
          <6>1. i \in 1 .. Len(sent[g])
            BY <1>3, <2>4, <5>2
          <6> QED
            BY <2>4, <4>1, <6>1 DEF Prefix
        <5> QED
          BY <5>1, <5>2
      <4> QED
        BY <1>1, <2>4, <4>2 DEF Prefix
    <3>2. Fresh(g)' => Fresh(g)
      BY <1>1 DEF Fresh, Source
    <3> QED
      BY <1>1, <2>7, <2>9, <3>1, <3>2 DEF ContentInv, Source
  <2> QED
    BY <1>1, <2>5, <2>6, <2>8, <2>9
<1> QED
  BY <1>4, <1>5

LEMMA SendDigestStep ==
  ASSUME DataInv, NEW g \in Files, SendDigest(g)
  PROVE  DataInv'
<1> USE DEF DataInv, sourceVars, preparedVars, timeVars
<1>1. /\ UNCHANGED <<disk, named, edits, blind, held, manifest, kept, sent>>
      /\ phase = "receiving" /\ phase' \in {"receiving", "failed"}
      /\ place[g] = "data" /\ place' \in {place, [place EXCEPT ![g] = "digest"]}
      /\ place' # place => Unchanged(g)
      /\ ~More(g)
  <2>1. CASE Unchanged(g)
    BY <2>1 DEF SendDigest, At
  <2>2. CASE ~Unchanged(g)
    <3>1. place' = place
      BY <2>2 DEF SendDigest, At, Shape
    <3> QED
      BY <2>2, <3>1 DEF SendDigest, At, Fails
  <2> QED
    BY <2>1, <2>2
<1>2. Shape'
  BY <1>1 DEF Shape
<1>3. held[g] \in Inodes
  BY <1>1, ReceivingIsPrepared
<1>4. ASSUME NEW f \in Files, f # g \/ place' = place
      PROVE  PreparedInv(f)' /\ (f \notin blind => ContentInv(f))'
  BY <1>1, <1>4, Untouched DEF Shape
<1>5. ASSUME place' # place
      PROVE  PreparedInv(g)' /\ (g \notin blind => ContentInv(g))'
  <2>1. place'[g] = "digest"
    BY <1>1, <1>5 DEF Shape
  <2>2. PreparedInv(g)'
    BY <1>1, <1>3, <2>1 DEF PreparedInv, Source, Inodes
  <2>3. ASSUME g \notin blind
        PROVE  ContentInv(g)'
    <3>1. Prefix(g)
      BY <1>1, <1>3, <1>5, <2>3 DEF ContentInv, Unchanged, Fresh, Inodes
    <3>2. sent[g] \in Seq(Versions) /\ manifest[g].data \in Seq(Versions)
      BY DEF Shape
    <3>3. Len(sent[g]) = Len(manifest[g].data)
      BY <1>1, <3>1, <3>2 DEF Prefix, More, Sizes
    <3>4. sent[g] = manifest[g].data
      BY <3>1, <3>2, <3>3 DEF Prefix
    <3> QED
      BY <1>1, <2>3, <3>4 DEF ContentInv, Fresh, Source, Prefix
  <2> QED
    BY <1>1, <2>2, <2>3
<1> QED
  BY <1>1, <1>2, <1>4, <1>5

LEMMA KeepStep ==
  ASSUME DataInv, NEW g \in Files, Keep(g)
  PROVE  DataInv'
<1> USE DEF DataInv, sourceVars, preparedVars
<1>1. /\ UNCHANGED <<disk, named, edits, blind, held, manifest, sent, phase>>
      /\ phase = "receiving"
      /\ place[g] = "digest" /\ place' = [place EXCEPT ![g] = "done"]
      /\ kept' = [kept EXCEPT ![g] = [done |-> TRUE, data |-> sent[g]]]
  BY DEF Keep, At
<1>2. Shape'
  <2>1. [done |-> TRUE, data |-> sent[g]] \in [done : BOOLEAN, data : Seq(Versions)]
    BY DEF Shape
  <2> QED
    BY <1>1, <2>1 DEF Shape
<1>3. held[g] \in Inodes
  BY <1>1, ReceivingIsPrepared
<1>4. ASSUME NEW f \in Files, f # g
      PROVE  PreparedInv(f)' /\ (f \notin blind => ContentInv(f))'
  BY <1>1, <1>4, Untouched DEF Shape
<1>5. PreparedInv(g)'
  BY <1>1, <1>3 DEF PreparedInv, Source, Inodes
<1>6. ASSUME g \notin blind
      PROVE  ContentInv(g)'
  <2>1. kept'[g].data = sent[g] /\ place'[g] = "done"
    BY <1>1 DEF Shape
  <2> QED
    BY <1>1, <1>6, <2>1 DEF ContentInv, Fresh, Source, Prefix
<1> QED
  BY <1>1, <1>2, <1>4, <1>5, <1>6

\* What leaves the data alone.
LEMMA OtherStep ==
  ASSUME DataInv,
         UNCHANGED <<disk, named, edits, blind, held, manifest, sent, kept>>,
         place' = place \/ phase = "receiving",
         \A f \in Files : place'[f] = place[f] \/ place'[f] \in {"opened", "taken", "data"},
         place' \in [Files -> {"waiting", "opened", "taken", "data", "digest", "done"}],
         phase' \in {"failed", "preparing", phase} \/ \A f \in Files : held[f] # "none"
  PROVE  DataInv'
<1>1. Shape'
  BY DEF DataInv, Shape
<1>2. ASSUME NEW f \in Files
      PROVE  PreparedInv(f)' /\ (f \notin blind => ContentInv(f))'
  <2>1. place'[f] # place[f] => held[f] # "none"
    BY ReceivingIsPrepared DEF Inodes
  <2> QED
    BY <2>1 DEF DataInv, PreparedInv, ContentInv, NotYet, Prefix, Fresh, Source
<1> QED
  BY <1>1, <1>2 DEF DataInv

LEMMA DataInit == Init => DataInv
<1> SUFFICES ASSUME Init PROVE DataInv
  OBVIOUS
<1>1. <<>> \in Seq(Versions) /\ 0 \in Versions
  BY DeliveryAssumption DEF Versions
<1>2. disk \in [Files -> [Inodes -> [data : Seq(Versions), time : Nat]]]
  <2>1. PICK size \in [Files -> 0 .. MaxSize] :
          disk = [f \in Files |-> [i \in Inodes |->
                   IF i = "old" THEN FileOf([n \in 1 .. size[f] |-> 0], 0) ELSE NoFile]]
    BY DEF Init
  <2>2. NoFile \in [data : Seq(Versions), time : Nat]
    BY <1>1 DEF NoFile, FileOf
  <2>3. ASSUME NEW f \in Files
        PROVE  FileOf([n \in 1 .. size[f] |-> 0], 0) \in [data : Seq(Versions), time : Nat]
    <3>1. size[f] \in Nat
      BY DeliveryAssumption
    <3>2. [n \in 1 .. size[f] |-> 0] \in Seq(Versions)
      BY <1>1, <3>1
    <3> QED
      BY <3>2 DEF FileOf
  <2> QED
    BY <2>1, <2>2, <2>3
<1>3. Shape
  BY <1>1, <1>2 DEF Init, Shape, Inodes, NoFile, FileOf, None
<1>4. ASSUME NEW f \in Files
      PROVE  PreparedInv(f) /\ ContentInv(f)
  <2>1. held[f] = "none" /\ named[f] = "old" /\ place[f] = "waiting" /\ sent[f] = <<>>
        /\ kept[f] = None /\ phase = "selected"
    BY DEF Init
  <2> QED
    BY <2>1 DEF PreparedInv, ContentInv, NotYet, None
<1> QED
  BY <1>3, <1>4 DEF DataInv

LEMMA DataNext == DataInv /\ [Next]_vars => DataInv'
<1> SUFFICES ASSUME DataInv, [Next]_vars PROVE DataInv'
  OBVIOUS
<1> USE DEF sourceVars, preparedVars, dataVars, timeVars, At, Goes, Fails
<1>1. place \in [Files -> {"waiting", "opened", "taken", "data", "digest", "done"}]
  BY DEF DataInv, Shape
<1>2. CASE Outside
  BY <1>2, EditStep, ReplaceStep DEF Outside
<1>3. CASE Select \/ TimeOut \/ Tick \/ UNCHANGED vars
  BY <1>1, <1>3, OtherStep DEF Select, TimeOut, Tick, vars, DataInv, PreparedInv
<1>4. CASE MakeOffer
  BY <1>1, <1>4, OtherStep DEF MakeOffer
<1>5. CASE Accept \/ Complete
  BY <1>1, <1>5, OtherStep DEF Accept, Complete, DataInv, PreparedInv
<1>6. ASSUME NEW f \in Files, OpenStream(f) \/ TakeStream(f) \/ GetSlot(f)
      PROVE  DataInv'
  <2>1. place' \in {[place EXCEPT ![f] = q] : q \in {"opened", "taken", "data"}}
    BY <1>6 DEF OpenStream, TakeStream, GetSlot
  <2>2. UNCHANGED <<disk, named, edits, blind, held, manifest, sent, kept>>
        /\ phase = "receiving" /\ phase' \in {"failed", phase}
    BY <1>6 DEF OpenStream, TakeStream, GetSlot
  <2> QED
    BY <1>1, <2>1, <2>2, OtherStep
<1> QED
  BY <1>2, <1>3, <1>4, <1>5, <1>6, PrepareStep, SendChunkStep, SendDigestStep, KeepStep DEF Next

(***************************************************************************)
(* What the receiver keeps is what the sender prepared (quic.rs:56-62 and  *)
(* the checks of sender.rs:128-140), for every interleaving with changes.  *)
(***************************************************************************)
THEOREM DeliveredWhole == Spec => []DeliveredAsOffered
<1>1. DataInv => DeliveredAsOffered
  BY DEF DataInv, ContentInv, DeliveredAsOffered
<1> QED
  BY <1>1, DataInit, DataNext, PTL DEF Spec

(***************************************************************************)
(* Counting files.                                                         *)
(***************************************************************************)
LEMMA FilesAreFinite ==
  /\ FileCount \in Nat
  /\ IsFiniteSet(Files) /\ Cardinality(Files) = FileCount
  /\ \A S \in SUBSET Files : IsFiniteSet(S) /\ Cardinality(S) \in Nat
<1>1. FileCount \in Nat
  BY OffersAssumption
<1>2. IsFiniteSet(Files) /\ Cardinality(Files) = FileCount
  BY <1>1, FS_Interval DEF Files
<1> QED
  BY <1>1, <1>2, FS_Subset, FS_CardinalityType

LEMMA AddOne ==
  ASSUME NEW S \in SUBSET Files, NEW g \in Files, g \notin S
  PROVE  Cardinality(S \union {g}) = Cardinality(S) + 1
BY FilesAreFinite, FS_AddElement

LEMMA NoMore ==
  ASSUME NEW S \in SUBSET Files, NEW R \in SUBSET S
  PROVE  Cardinality(R) <= Cardinality(S)
BY FilesAreFinite, FS_Subset

LEMMA PlacesAreFiles ==
  /\ Running \subseteq Files /\ Taken \subseteq Files /\ Pending \subseteq Files
  /\ Count \in Nat /\ Cardinality(Running) \in Nat
  /\ Running \subseteq Taken
  /\ Taken \intersect Pending = {}
BY FilesAreFinite DEF Running, Taken, Pending, In, Count

\* The stream that comes next is one of the files.
LEMMA NextIsFile ==
  ASSUME Pending # {}
  PROVE  Count + 1 \in 1 .. FileCount
<1>1. PICK g \in Pending : TRUE
  OBVIOUS
<1>2. g \in Files /\ g \notin Taken
  BY <1>1, PlacesAreFiles
<1>3. Cardinality(Taken \union {g}) = Count + 1
  BY <1>2, PlacesAreFiles, AddOne DEF Count
<1>4. Cardinality(Taken \union {g}) <= Cardinality(Files)
  BY <1>2, PlacesAreFiles, NoMore
<1> QED
  BY <1>3, <1>4, FilesAreFinite, PlacesAreFiles

(***************************************************************************)
(* The steps that change neither the clock nor who is at work.             *)
(***************************************************************************)
LEMMA SameTime ==
  ASSUME NEW OpenBy, TimeInv(OpenBy), UNCHANGED <<now, wait, start>>,
         Running' = Running, Taken' = Taken, Pending' = Pending,
         reason' # "expired"
  PROVE  TimeInv(OpenBy)'
BY DEF TimeInv, Count, HasRoom

LEMMA TickTime ==
  ASSUME NEW OpenBy, TimeInv(OpenBy), Tick
  PROVE  TimeInv(OpenBy)'
<1>1. /\ UNCHANGED <<place, wait, start, reason>> /\ now' = now + 1
      /\ ~WaitIsOver /\ \A f \in Files : ~IsOverdue(f)
  BY DEF Tick, dataVars
<1>2. Running' = Running /\ Taken' = Taken /\ Pending' = Pending
  BY <1>1 DEF Running, Taken, Pending, In
<1>3. now \in Nat /\ wait \in Nat /\ start \in [Files -> Nat]
      /\ OpenTimeout \in Nat /\ FileTimeout \in Nat
  BY DeliveryAssumption DEF TimeInv
<1>4. \A f \in Running : now + 1 <= start[f] + FileTimeout
  BY <1>1, <1>3, PlacesAreFiles DEF IsOverdue
<1>5. HasRoom /\ Pending # {} => now + 1 <= wait + OpenTimeout
  BY <1>1, <1>3 DEF WaitIsOver
<1> QED
  BY <1>1, <1>2, <1>3, <1>4, <1>5 DEF TimeInv, Count, HasRoom

(***************************************************************************)
(* A stream comes: it comes in time, and the next one has its own time.    *)
(***************************************************************************)
LEMMA InTime ==
  ASSUME NEW OpenBy \in [0 .. FileCount -> 0 .. GrantTtl], TimeInv(OpenBy),
         HasRoom, Pending # {}
  PROVE  now <= OpenBy[Count + 1] /\ now <= GrantTtl
<1>1. OpenBy[Count + 1] \in 0 .. GrantTtl
  BY NextIsFile, FilesAreFinite
<1> QED
  BY <1>1, DeliveryAssumption DEF TimeInv

LEMMA TakeTime ==
  ASSUME NEW OpenBy \in [0 .. FileCount -> 0 .. GrantTtl], Schedule(OpenBy),
         TimeInv(OpenBy), NEW g \in Files, TakeStream(g), DataInv
  PROVE  TimeInv(OpenBy)'
<1> USE DeliveryAssumption, FilesAreFinite
<1>1. place[g] = "opened" /\ HasRoom
  BY DEF TakeStream, At
<1>2. g \in Pending /\ g \notin Taken
  BY <1>1, PlacesAreFiles DEF Pending, In
<1>3. now <= OpenBy[Count + 1] /\ now <= GrantTtl /\ now \in Nat /\ GrantTtl \in Nat
  BY <1>1, <1>2, InTime DEF TimeInv
<1>4. /\ place' = [place EXCEPT ![g] = "taken"]
      /\ wait' = now /\ now' = now /\ start' = [start EXCEPT ![g] = now]
      /\ reason' = reason
  BY <1>3 DEF TakeStream, At
<1>5. /\ Running' = Running \union {g}
      /\ Taken' = Taken \union {g}
      /\ Pending' = Pending \ {g}
  BY <1>1, <1>4 DEF DataInv, Shape, Running, Taken, Pending, In
<1>6. Count' = Count + 1 /\ Count \in Nat
  BY <1>2, <1>5, PlacesAreFiles, AddOne DEF Count
<1>7. Count + 1 \in 1 .. FileCount
  BY <1>2, NextIsFile
<1>8. start \in [Files -> Nat] /\ start' \in [Files -> Nat]
  BY <1>3, <1>4 DEF TimeInv
<1>9. ASSUME NEW i \in 0 .. Count'
      PROVE  Cardinality({f \in Taken' : start'[f] > OpenBy[Count' - i]}) <= i
  <2>1. CASE i = 0
    <3>1. {f \in Taken : start[f] > OpenBy[Count]} = {}
      <4> DEFINE Late == {f \in Taken : start[f] > OpenBy[Count]}
      <4>1. Cardinality({f \in Taken : start[f] > OpenBy[Count - 0]}) <= 0
        BY <1>6 DEF TimeInv
      <4>2. Cardinality(Late) <= 0
        BY <1>6, <4>1
      <4>3. Late \in SUBSET Files
        BY PlacesAreFiles
      <4> HIDE DEF Late
      <4>4. Cardinality(Late) = 0 /\ IsFiniteSet(Late)
        BY <4>2, <4>3
      <4>5. Late = {}
        BY <4>4, FS_EmptySet
      <4> QED
        BY <4>5 DEF Late
    <3>2. OpenBy[Count] <= OpenBy[Count + 1]
      BY <1>6, <1>7 DEF Schedule
    <3>3. OpenBy[Count] \in Nat /\ OpenBy[Count + 1] \in Nat
      BY <1>6, <1>7
    <3>4. \A f \in Taken : start[f] <= OpenBy[Count + 1]
      BY <1>8, <3>1, <3>2, <3>3, PlacesAreFiles
    <3>5. {f \in Taken' : start'[f] > OpenBy[Count + 1]} = {}
      BY <1>3, <1>4, <1>5, <1>8, <3>3, <3>4, PlacesAreFiles
    <3> QED
      BY <1>6, <2>1, <3>5, FS_EmptySet
  <2>2. CASE i # 0
    <3> DEFINE Late == {f \in Taken : start[f] > OpenBy[Count - (i - 1)]}
               LateNow == {f \in Taken' : start'[f] > OpenBy[Count' - i]}
    <3>1. Cardinality(Late) <= i - 1
      BY <1>6, <2>2 DEF TimeInv
    <3>2. Count' - i = Count - (i - 1)
      BY <1>6, <2>2
    <3>3. Late \in SUBSET Files /\ g \notin Late
      BY <1>2, PlacesAreFiles
    <3>4. LateNow \in SUBSET (Late \union {g})
      BY <1>4, <1>5, <1>8, <3>2, PlacesAreFiles
    <3> HIDE DEF Late, LateNow
    <3>5. Cardinality(Late \union {g}) = Cardinality(Late) + 1
      BY <3>3, AddOne
    <3>6. Cardinality(LateNow) <= Cardinality(Late \union {g})
      BY <3>3, <3>4, NoMore
    <3>7. Cardinality(LateNow) \in Nat /\ Cardinality(Late) \in Nat
      BY <3>3, <3>4
    <3>8. Cardinality(LateNow) <= i
      BY <1>6, <2>2, <3>1, <3>5, <3>6, <3>7
    <3> QED
      BY <3>8 DEF LateNow
  <2> QED
    BY <2>1, <2>2
<1>10. Cardinality(Running') <= Concurrency
  <2>1. Cardinality(Running \union {g}) = Cardinality(Running) + 1
    BY <1>2, PlacesAreFiles, AddOne
  <2>2. Cardinality(Running) < Concurrency /\ Cardinality(Running) \in Nat
    BY <1>1, PlacesAreFiles DEF HasRoom
  <2> QED
    BY <1>5, <2>1, <2>2
<1>11. \A f \in Running' : now' <= start'[f] + FileTimeout
  BY <1>3, <1>4, <1>5, <1>8, PlacesAreFiles DEF TimeInv
<1>12. ASSUME Pending' # {}
       PROVE  now' <= wait' + OpenTimeout /\ wait' + OpenTimeout <= OpenBy[Count' + 1]
  <2>1. Count + 2 \in 1 .. FileCount
    <3>1. PICK h \in Pending \ {g} : TRUE
      BY <1>5, <1>12
    <3>2. h \in Files /\ h \notin Taken \union {g} /\ Taken \union {g} \in SUBSET Files
      BY <3>1, PlacesAreFiles
    <3>3. Cardinality(Taken \union {g}) = Count + 1
      BY <1>5, <1>6 DEF Count
    <3>4. Cardinality(Taken \union {g} \union {h}) = Count + 1 + 1
      BY <3>2, <3>3, AddOne
    <3>5. Cardinality(Taken \union {g} \union {h}) <= FileCount
      BY <3>2, NoMore
    <3> QED
      BY <1>6, <3>4, <3>5
  <2>2. OpenBy[Count + 1] + OpenTimeout <= OpenBy[Count + 2]
    BY <1>6, <2>1 DEF Schedule
  <2>3. OpenBy[Count + 1] \in Nat /\ OpenBy[Count + 2] \in Nat
    BY <1>6, <1>7, <2>1
  <2> QED
    BY <1>3, <1>4, <1>6, <2>2, <2>3
<1> QED
  BY <1>3, <1>4, <1>8, <1>9, <1>10, <1>11, <1>12 DEF TimeInv

(***************************************************************************)
(* A file ends.  When all were at work, one of them is as old as the time  *)
(* by which all but them have come.                                        *)
(***************************************************************************)
LEMMA KeepTime ==
  ASSUME NEW OpenBy \in [0 .. FileCount -> 0 .. GrantTtl], Schedule(OpenBy),
         TimeInv(OpenBy), NEW g \in Files, Keep(g), DataInv
  PROVE  TimeInv(OpenBy)'
<1> USE DeliveryAssumption, FilesAreFinite
<1>1. /\ place[g] = "digest" /\ place' = [place EXCEPT ![g] = "done"]
      /\ wait' = IF HasRoom THEN wait ELSE now
      /\ UNCHANGED <<now, start, reason>>
  BY DEF Keep, At
<1>2. Running' = Running \ {g} /\ Taken' = Taken /\ Pending' = Pending
  BY <1>1 DEF DataInv, Shape, Running, Taken, Pending, In
<1>3. now \in Nat /\ wait \in Nat /\ start \in [Files -> Nat] /\ Count \in Nat /\ Count' = Count
      /\ Cardinality(Running) \in Nat
  BY <1>2, PlacesAreFiles DEF TimeInv, Count
<1>4. Cardinality(Running') <= Cardinality(Running)
  BY <1>2, NoMore, PlacesAreFiles
<1>5. ASSUME ~HasRoom, Pending # {}
      PROVE  now + OpenTimeout <= OpenBy[Count + 1]
  <2> DEFINE i == Concurrency - 1
             Late == {f \in Taken : start[f] > OpenBy[Count - i]}
  <2>1. Cardinality(Running) = Concurrency
    BY <1>3, <1>5 DEF HasRoom, TimeInv
  <2>2. Concurrency <= Count
    BY <2>1, PlacesAreFiles, NoMore DEF Count
  <2>3. i \in 0 .. Count
    BY <1>3, <2>2
  <2>4. Cardinality(Late) <= i
    BY <2>3 DEF TimeInv
  <2>5. PICK f \in Running : f \notin Late
    <3>1. SUFFICES ASSUME Running \subseteq Late PROVE FALSE
      OBVIOUS
    <3>2. Late \in SUBSET Files
      BY PlacesAreFiles
    <3>3. Cardinality(Running) <= Cardinality(Late) /\ Cardinality(Late) \in Nat
      <4> HIDE DEF Late
      <4> QED
        BY <3>1, <3>2, NoMore
    <3> QED
      BY <2>1, <2>4, <3>3
  <2>6. OpenBy[Count - i] \in Nat /\ OpenBy[Count + 1] \in Nat
    BY <1>3, <1>5, <2>3, NextIsFile
  <2>7. start[f] <= OpenBy[Count - i] /\ start[f] \in Nat
    BY <1>3, <2>5, <2>6, PlacesAreFiles
  <2>8. now <= start[f] + FileTimeout
    BY <2>5 DEF TimeInv
  <2>9. OpenBy[Count - i] + FileTimeout + OpenTimeout <= OpenBy[Count + 1]
    <3>1. Count + 1 \in 1 .. FileCount /\ Count + 1 > Concurrency
      BY <1>3, <1>5, <2>2, NextIsFile
    <3>2. (Count + 1) - Concurrency = Count - i
      BY <1>3
    <3> HIDE DEF i
    <3> QED
      BY <3>1, <3>2 DEF Schedule
  <2> DEFINE early == OpenBy[Count - i]
             next == OpenBy[Count + 1]
  <2>10. /\ early \in Nat /\ next \in Nat /\ now \in Nat /\ start[f] \in Nat
         /\ start[f] <= early /\ now <= start[f] + FileTimeout
         /\ early + FileTimeout + OpenTimeout <= next
    BY <1>3, <2>6, <2>7, <2>8, <2>9
  <2> HIDE DEF early, next, i, Late
  <2>11. now + OpenTimeout <= next
    BY <2>10
  <2> QED
    BY <2>11 DEF next
<1>6. HasRoom' /\ Pending' # {} =>
        now' <= wait' + OpenTimeout /\ wait' + OpenTimeout <= OpenBy[Count' + 1]
  <2>1. CASE HasRoom
    BY <1>1, <1>2, <1>3, <2>1 DEF TimeInv
  <2>2. CASE ~HasRoom
    BY <1>1, <1>2, <1>3, <1>5, <2>2
  <2> QED
    BY <2>1, <2>2
<1>7. Cardinality(Running') <= Concurrency /\ wait' <= now' /\ wait' \in Nat
  <2>1. Cardinality(Running') \in Nat
    BY <1>2, PlacesAreFiles
  <2> QED
    BY <1>1, <1>3, <1>4, <2>1 DEF TimeInv
<1> QED
  BY <1>1, <1>2, <1>3, <1>6, <1>7 DEF TimeInv

LEMMA TimeInit ==
  ASSUME NEW OpenBy \in [0 .. FileCount -> 0 .. GrantTtl], Schedule(OpenBy), Init
  PROVE  TimeInv(OpenBy)
<1> USE DeliveryAssumption, FilesAreFinite
<1>1. now = 0 /\ wait = 0 /\ start = [f \in Files |-> 0] /\ reason = "none"
      /\ place = [f \in Files |-> "waiting"]
  BY DEF Init
<1>2. Running = {} /\ Taken = {} /\ Pending = Files
  BY <1>1 DEF Running, Taken, Pending, In
<1>3. Cardinality(Running) = 0 /\ Count = 0
  BY <1>2, FS_EmptySet DEF Count
<1>4. 1 \in 1 .. FileCount
  BY OffersAssumption
<1>5. OpenTimeout <= OpenBy[1]
  <2>1. OpenBy[0] \in Nat /\ OpenBy[1] \in Nat
    BY <1>4
  <2>2. OpenBy[1 - 1] + OpenTimeout <= OpenBy[1]
    BY <1>4 DEF Schedule
  <2> QED
    BY <2>1, <2>2
<1>6. ASSUME NEW i \in 0 .. Count
      PROVE  Cardinality({f \in Taken : start[f] > OpenBy[Count - i]}) <= i
  BY <1>2, <1>3, FS_EmptySet
<1> QED
  BY <1>1, <1>2, <1>3, <1>5, <1>6 DEF TimeInv

LEMMA TimeNext ==
  ASSUME NEW OpenBy \in [0 .. FileCount -> 0 .. GrantTtl], Schedule(OpenBy),
         DataInv, TimeInv(OpenBy), [Next]_vars
  PROVE  TimeInv(OpenBy)'
<1> USE DEF sourceVars, preparedVars, dataVars, timeVars, At, Goes, Fails
<1>1. reason # "expired"
  BY DEF TimeInv
<1>2. ASSUME UNCHANGED <<now, wait, start, place>>, reason' # "expired"
      PROVE  TimeInv(OpenBy)'
  BY <1>2, SameTime DEF Running, Taken, Pending, In
<1>3. CASE Outside
  BY <1>1, <1>2, <1>3 DEF Outside, Edit, Replace
<1>4. CASE Select \/ MakeOffer \/ Accept \/ Complete \/ TimeOut \/ UNCHANGED vars
  BY <1>1, <1>2, <1>4 DEF Select, MakeOffer, Accept, Complete, TimeOut, vars
<1>5. ASSUME NEW f \in Files, Prepare(f) \/ SendChunk(f)
      PROVE  TimeInv(OpenBy)'
  <2>1. UNCHANGED <<now, wait, start>> /\ reason' # "expired"
    BY <1>1, <1>5 DEF Prepare, SendChunk
  <2>2. place' = place
    <3>1. CASE Prepare(f)
      BY <3>1 DEF Prepare
    <3>2. CASE SendChunk(f)
      <4>1. place[f] = "data" /\ place' = [place EXCEPT ![f] = "data"]
        BY <3>2 DEF SendChunk
      <4> QED
        BY <4>1 DEF DataInv, Shape
    <3> QED
      BY <1>5, <3>1, <3>2
  <2> QED
    BY <1>2, <2>1, <2>2
<1>6. ASSUME NEW f \in Files, OpenStream(f) \/ GetSlot(f) \/ SendDigest(f)
      PROVE  TimeInv(OpenBy)'
  <2>1. UNCHANGED <<now, wait, start>> /\ reason' # "expired"
    BY <1>1, <1>6 DEF OpenStream, GetSlot, KeepStart, SendDigest
  <2>2. \/ place[f] = "waiting" /\ place' = [place EXCEPT ![f] = "opened"]
        \/ place[f] = "taken" /\ place' = [place EXCEPT ![f] = "data"]
        \/ place[f] = "data" /\ place' = [place EXCEPT ![f] = "digest"]
        \/ place[f] = "data" /\ place' = [place EXCEPT ![f] = "data"]
    BY <1>6 DEF OpenStream, GetSlot, SendDigest
  <2>3. Running' = Running /\ Taken' = Taken /\ Pending' = Pending
    BY <2>2 DEF DataInv, Shape, Running, Taken, Pending, In
  <2> QED
    BY <2>1, <2>3, SameTime
<1> QED
  BY <1>3, <1>4, <1>5, <1>6, TickTime, TakeTime, KeepTime DEF Next

(***************************************************************************)
(* The grants last: what the comment at quic.rs:36-38 claims, for every    *)
(* number of files and every set of timeouts with a schedule.              *)
(***************************************************************************)
THEOREM GrantsLast == Spec => []NoGrantExpires
<1>1. PICK OpenBy \in [0 .. FileCount -> 0 .. GrantTtl] : Schedule(OpenBy)
  BY DeliveryAssumption
<1>2. Init => DataInv /\ TimeInv(OpenBy)
  BY <1>1, DataInit, TimeInit
<1>3. DataInv /\ TimeInv(OpenBy) /\ [Next]_vars => (DataInv /\ TimeInv(OpenBy))'
  BY <1>1, DataNext, TimeNext
<1>4. DataInv /\ TimeInv(OpenBy) => NoGrantExpires
  BY DEF TimeInv, NoGrantExpires
<1> QED
  BY <1>2, <1>3, <1>4, PTL DEF Spec

(***************************************************************************)
(* The constants of the code have such a schedule: 65 hours for 256 files  *)
(* of an hour each, four at a time, in units of ten seconds: the next      *)
(* stream comes every 910 seconds (quic.rs:33-47).                         *)
(***************************************************************************)
THEOREM CodeHasSchedule ==
  ASSUME FileCount \in 1 .. 256, Concurrency = 4, OpenTimeout = 3,
         FileTimeout = 360, GrantTtl = 65 * 360
  PROVE  \E OpenBy \in [0 .. FileCount -> 0 .. GrantTtl] : Schedule(OpenBy)
<1> DEFINE OpenBy == [k \in 0 .. FileCount |-> 91 * k]
<1>1. FileCount \in Int /\ FileCount <= 256
  OBVIOUS
<1>2. ASSUME NEW k \in Int, 0 <= k, k <= FileCount
      PROVE  91 * k \in Int /\ 0 <= 91 * k /\ 91 * k <= 65 * 360
  BY <1>1, <1>2
<1>3. OpenBy \in [0 .. FileCount -> 0 .. GrantTtl]
  BY <1>1, <1>2
<1>4. ASSUME NEW k \in 1 .. FileCount
      PROVE  /\ OpenBy[k - 1] + OpenTimeout <= OpenBy[k]
             /\ k > Concurrency =>
                  OpenBy[k - Concurrency] + FileTimeout + OpenTimeout <= OpenBy[k]
  <2>1. k \in Int /\ k - 1 \in 0 .. FileCount /\ k \in 0 .. FileCount
    BY <1>1
  <2>2. OpenBy[k - 1] = 91 * (k - 1) /\ OpenBy[k] = 91 * k
    BY <2>1
  <2>3. 91 * (k - 1) + 3 <= 91 * k
    BY <2>1
  <2>4. ASSUME k > 4
        PROVE  OpenBy[k - 4] = 91 * (k - 4) /\ 91 * (k - 4) + 360 + 3 <= 91 * k
    BY <1>1, <2>1, <2>4
  <2> HIDE DEF OpenBy
  <2> QED
    BY <2>2, <2>3, <2>4
<1> QED
  BY <1>3, <1>4 DEF Schedule

-----------------------------------------------------------------------------
(***************************************************************************)
(* Types.  Each change adds at most one chunk, and one tick of the clock.  *)
(***************************************************************************)
Bounds ==
  /\ name \in [Files -> Names]
  /\ edits <= MaxEdits /\ blind \subseteq Files
  /\ \A f \in Files, i \in Inodes :
       /\ Len(disk[f][i].data) <= MaxSize + edits
       /\ disk[f][i].time <= edits
  /\ shown \in [Files -> 0 .. MaxSize + MaxEdits]
  /\ phase \in {"selected", "preparing", "offered", "receiving", "completed", "failed"}
  /\ \A f \in Files : Len(sent[f]) <= Sizes[f]

LEMMA FileType ==
  ASSUME DataInv, NEW f \in Files, NEW i \in Inodes
  PROVE  /\ disk[f][i].data \in Seq(Versions) /\ Len(disk[f][i].data) \in Nat
         /\ disk[f][i].time \in Nat
<1>1. disk[f][i] \in [data : Seq(Versions), time : Nat]
  BY DEF DataInv, Shape
<1> QED
  BY <1>1

LEMMA EditedLength ==
  ASSUME NEW data \in Seq(Versions), NEW v, NEW new \in Edited(data, v)
  PROVE  Len(new) <= Len(data) + 1
<1>1. CASE new = Append(data, v)
  BY <1>1
<1>2. ASSUME NEW i \in DOMAIN data, new = [data EXCEPT ![i] = v]
      PROVE  Len(new) <= Len(data) + 1
  <2>1. DOMAIN new = 1 .. Len(data)
    BY <1>2
  <2>2. Len(data) \in Nat /\ Len(new) = Len(data)
    BY <1>2, <2>1
  <2> QED
    BY <2>2
<1>3. ASSUME 1 \in DOMAIN data, new = Front(data)
      PROVE  Len(new) <= Len(data) + 1
  BY <1>3 DEF Front
<1> QED
  BY <1>1, <1>2, <1>3 DEF Edited

LEMMA EditBounds ==
  ASSUME DataInv, Bounds, NEW g \in Files, NEW inode \in Inodes, NEW tick \in {0, 1},
         Edit(g, inode, tick)
  PROVE  Bounds'
<1> USE DEF preparedVars, dataVars
<1>1. PICK data \in Edited(disk[g][inode].data, edits') :
        disk' = [disk EXCEPT ![g][inode] = FileOf(data, @.time + tick)]
  BY DEF Edit
<1>2. /\ edits' = edits + 1 /\ edits \in Nat /\ edits' <= MaxEdits
      /\ MaxSize \in Nat /\ MaxEdits \in Nat
  BY DeliveryAssumption DEF Edit, DataInv, Shape
<1>3. disk[g][inode].data \in Seq(Versions) /\ disk[g][inode].time \in Nat
  BY DEF DataInv, Shape
<1>4. Len(data) <= MaxSize + edits + 1
  <2>1. Len(data) <= Len(disk[g][inode].data) + 1
    BY <1>1, <1>3, EditedLength
  <2>2. Len(disk[g][inode].data) <= MaxSize + edits
    BY DEF Bounds
  <2>3. Len(disk[g][inode].data) \in Nat
    BY <1>3
  <2>4. data \in Seq(Versions)
    BY <1>1, <1>2, <1>3, EditedType DEF Versions
  <2> QED
    BY <1>2, <2>1, <2>2, <2>3, <2>4
<1>5. ASSUME NEW f \in Files, NEW i \in Inodes
      PROVE  Len(disk[f][i].data)' <= MaxSize + edits' /\ disk'[f][i].time <= edits'
  <2>1. CASE f = g /\ i = inode
    <3>1. disk'[f][i] = FileOf(data, disk[g][inode].time + tick)
      BY <1>1, <2>1 DEF DataInv, Shape
    <3>2. disk[g][inode].time <= edits
      BY DEF Bounds
    <3>3. disk'[f][i].time = disk[g][inode].time + tick /\ disk'[f][i].data = data
      BY <3>1 DEF FileOf
    <3> QED
      BY <1>2, <1>3, <1>4, <3>2, <3>3
  <2>2. CASE ~(f = g /\ i = inode)
    <3>1. disk'[f][i] = disk[f][i]
      BY <1>1, <2>2 DEF DataInv, Shape
    <3>2. Len(disk[f][i].data) <= MaxSize + edits /\ disk[f][i].time <= edits
      BY DEF Bounds
    <3>3. disk[f][i].time \in Nat /\ Len(disk[f][i].data) \in Nat
      BY FileType
    <3> QED
      BY <1>2, <3>1, <3>2, <3>3
  <2> QED
    BY <2>1, <2>2
<1>6. UNCHANGED <<name, shown, phase, sent, Sizes>> /\ blind' \subseteq Files
  BY DEF Edit, Bounds, Sizes
<1> QED
  BY <1>2, <1>5, <1>6 DEF Bounds

LEMMA ReplaceBounds ==
  ASSUME DataInv, Bounds, NEW g \in Files, Replace(g)
  PROVE  Bounds'
<1> USE DEF preparedVars, dataVars
<1> DEFINE data == [i \in DOMAIN disk[g]["old"].data |-> edits']
<1>1. /\ disk' = [disk EXCEPT ![g]["new"] = FileOf(data, 0)]
      /\ edits' = edits + 1 /\ edits \in Nat /\ edits' <= MaxEdits
      /\ MaxSize \in Nat /\ MaxEdits \in Nat
  BY DeliveryAssumption DEF Replace, DataInv, Shape
<1>2. disk[g]["old"].data \in Seq(Versions) /\ Len(disk[g]["old"].data) <= MaxSize + edits
  BY DEF DataInv, Shape, Bounds, Inodes
<1>3. Len(data) = Len(disk[g]["old"].data)
  <2>1. PICK n \in Nat : DOMAIN disk[g]["old"].data = 1 .. n
    BY <1>2
  <2>2. data = [i \in 1 .. n |-> edits']
    BY <2>1
  <2>3. Len(disk[g]["old"].data) = n
    BY <1>2, <2>1
  <2>4. \A e : Len([i \in 1 .. n |-> e]) = n
    OBVIOUS
  <2> QED
    BY <2>2, <2>3, <2>4
<1> HIDE DEF data
<1>4. ASSUME NEW f \in Files, NEW i \in Inodes
      PROVE  Len(disk[f][i].data)' <= MaxSize + edits' /\ disk'[f][i].time <= edits'
  <2>1. CASE f = g /\ i = "new"
    <3>1. disk'[f][i] = FileOf(data, 0)
      BY <1>1, <2>1 DEF DataInv, Shape
    <3>2. disk'[f][i].time = 0 /\ disk'[f][i].data = data
      BY <3>1 DEF FileOf
    <3>3. Len(disk[g]["old"].data) \in Nat
      BY <1>2
    <3> QED
      BY <1>1, <1>2, <1>3, <3>2, <3>3
  <2>2. CASE ~(f = g /\ i = "new")
    <3>1. disk'[f][i] = disk[f][i]
      BY <1>1, <2>2 DEF DataInv, Shape
    <3>2. Len(disk[f][i].data) <= MaxSize + edits /\ disk[f][i].time <= edits
      BY DEF Bounds
    <3>3. disk[f][i].time \in Nat /\ Len(disk[f][i].data) \in Nat
      BY FileType
    <3> QED
      BY <1>1, <3>1, <3>2, <3>3
  <2> QED
    BY <2>1, <2>2
<1>5. UNCHANGED <<name, shown, phase, sent, Sizes, blind>>
  BY DEF Replace, Sizes
<1> QED
  BY <1>1, <1>4, <1>5 DEF Bounds

\* Steps that change neither the files nor what is sent of them.
LEMMA SameBounds ==
  ASSUME Bounds, UNCHANGED <<name, edits, blind, disk, shown, sent, manifest>>,
         phase' \in {phase, "preparing", "offered", "receiving", "completed", "failed"}
  PROVE  Bounds'
BY DEF Bounds, Sizes

LEMMA SelectBounds ==
  ASSUME DataInv, Bounds, Select
  PROVE  Bounds'
<1> USE DEF sourceVars, dataVars, Goes
<1>1. ASSUME NEW f \in Files
      PROVE  Len(disk[f][named[f]].data) \in 0 .. MaxSize + MaxEdits
  <2>1. disk[f][named[f]].data \in Seq(Versions) /\ named[f] \in Inodes /\ edits \in Nat
    BY DEF DataInv, Shape
  <2>2. Len(disk[f][named[f]].data) <= MaxSize + edits /\ edits <= MaxEdits
    BY <2>1 DEF Bounds
  <2>3. Len(disk[f][named[f]].data) \in Nat
    BY <2>1
  <2> QED
    BY <2>1, <2>2, <2>3, DeliveryAssumption
<1>2. shown' \in [Files -> 0 .. MaxSize + MaxEdits]
  BY <1>1 DEF Select
<1>3. UNCHANGED <<name, edits, blind, disk, sent, Sizes>> /\ phase' = "preparing"
  BY DEF Select, Sizes
<1> QED
  BY <1>2, <1>3 DEF Bounds

LEMMA PrepareBounds ==
  ASSUME DataInv, Bounds, NEW g \in Files, Prepare(g)
  PROVE  Bounds'
<1> USE DEF sourceVars, dataVars
<1>1. /\ UNCHANGED <<name, edits, blind, disk, shown, sent, phase>> /\ held[g] = "none"
      /\ manifest' = [manifest EXCEPT ![g] = disk[g][named[g]]]
  BY DEF Prepare
<1>2. sent[g] = <<>>
  BY <1>1 DEF DataInv, PreparedInv, NotYet
<1>3. ASSUME NEW f \in Files
      PROVE  Len(sent[f]) <= Sizes'[f]
  <2>1. CASE f = g
    <3>1. disk[g][named[g]].data \in Seq(Versions) /\ manifest'[g] = disk[g][named[g]]
      BY <1>1 DEF DataInv, Shape
    <3>2. Sizes'[g] = Len(disk[g][named[g]].data) /\ Len(disk[g][named[g]].data) \in Nat
      BY <3>1 DEF Sizes
    <3> QED
      BY <1>2, <2>1, <3>2
  <2>2. CASE f # g
    BY <1>1, <2>2 DEF Bounds, Sizes, DataInv, Shape
  <2> QED
    BY <2>1, <2>2
<1> QED
  BY <1>1, <1>3 DEF Bounds

LEMMA SendBounds ==
  ASSUME DataInv, Bounds, NEW g \in Files, SendChunk(g)
  PROVE  Bounds'
<1> USE DEF sourceVars, preparedVars, timeVars, At, Fails
<1>1. /\ UNCHANGED <<name, edits, blind, disk, shown, manifest, Sizes>>
      /\ phase = "receiving" /\ phase' \in {"receiving", "failed"} /\ More(g)
      /\ sent' = sent \/ \E x : sent' = [sent EXCEPT ![g] = Append(@, x)]
  BY DEF SendChunk, Sizes
<1>2. CASE sent' = sent
  BY <1>1, <1>2, SameBounds
<1>3. ASSUME NEW x, sent' = [sent EXCEPT ![g] = Append(@, x)]
      PROVE  Bounds'
  <2>1. sent[g] \in Seq(Versions) /\ Len(sent[g]) < Len(manifest[g].data)
        /\ manifest[g].data \in Seq(Versions)
    BY <1>1 DEF More, Sizes, DataInv, Shape
  <2>2. sent'[g] = Append(sent[g], x)
    BY <1>3 DEF DataInv, Shape
  <2>3. Len(sent'[g]) = Len(sent[g]) + 1
    BY <2>1, <2>2
  <2>4. Len(sent'[g]) <= Sizes[g]
    BY <2>1, <2>3 DEF Sizes
  <2>5. \A f \in Files : f # g => sent'[f] = sent[f]
    BY <1>3 DEF DataInv, Shape
  <2> QED
    BY <1>1, <2>4, <2>5 DEF Bounds
<1> QED
  BY <1>1, <1>2, <1>3

LEMMA BoundsInit == Init => Bounds
<1> SUFFICES ASSUME Init PROVE Bounds
  OBVIOUS
<1>1. DataInv /\ MaxSize \in Nat /\ MaxEdits \in Nat
  BY DataInit, DeliveryAssumption
<1>2. PICK size \in [Files -> 0 .. MaxSize] :
        disk = [f \in Files |-> [i \in Inodes |->
                 IF i = "old" THEN FileOf([n \in 1 .. size[f] |-> 0], 0) ELSE NoFile]]
  BY DEF Init
<1>3. ASSUME NEW f \in Files, NEW i \in Inodes
      PROVE  Len(disk[f][i].data) <= MaxSize /\ disk[f][i].time = 0
  <2>1. size[f] \in Nat /\ size[f] <= MaxSize
    BY <1>1
  <2>2. Len([n \in 1 .. size[f] |-> 0]) = size[f]
    BY <2>1
  <2>3. disk[f][i] = FileOf([n \in 1 .. size[f] |-> 0], 0) \/ disk[f][i] = NoFile
    BY <1>2
  <2> QED
    BY <1>1, <2>1, <2>2, <2>3 DEF FileOf, NoFile
<1>4. /\ name \in [Files -> Names] /\ edits = 0 /\ blind = {}
      /\ shown = [f \in Files |-> 0] /\ phase = "selected"
      /\ \A f \in Files : Len(sent[f]) <= Sizes[f]
  BY DEF Init, Sizes, NoFile, FileOf
<1> QED
  BY <1>1, <1>3, <1>4 DEF Bounds

LEMMA BoundsNext == DataInv /\ Bounds /\ [Next]_vars => Bounds'
<1> SUFFICES ASSUME DataInv, Bounds, [Next]_vars PROVE Bounds'
  OBVIOUS
<1> USE DEF sourceVars, preparedVars, dataVars, timeVars, At, Goes, Fails
<1>1. CASE Outside
  BY <1>1, EditBounds, ReplaceBounds DEF Outside
<1>2. CASE MakeOffer \/ Accept \/ Complete \/ TimeOut \/ Tick \/ UNCHANGED vars
  BY <1>2, SameBounds DEF MakeOffer, Accept, Complete, TimeOut, Tick, vars
<1>3. ASSUME NEW f \in Files,
             OpenStream(f) \/ TakeStream(f) \/ GetSlot(f) \/ SendDigest(f) \/ Keep(f)
      PROVE  Bounds'
  BY <1>3, SameBounds DEF OpenStream, TakeStream, GetSlot, SendDigest, Keep
<1> QED
  BY <1>1, <1>2, <1>3, SelectBounds, PrepareBounds, SendBounds DEF Next

(***************************************************************************)
(* TypeOK: with it, that a sender sends no more of a file than it offered  *)
(* (sender.rs:116-131), and a receiver works on no more files at a time    *)
(* than FILE_STREAM_CONCURRENCY (receiver.rs:335-339).                     *)
(***************************************************************************)
THEOREM DeliveryTypes == Spec => []TypeOK
<1>1. PICK OpenBy \in [0 .. FileCount -> 0 .. GrantTtl] : Schedule(OpenBy)
  BY DeliveryAssumption
<1>2. Init => DataInv /\ Bounds /\ TimeInv(OpenBy)
  BY <1>1, DataInit, BoundsInit, TimeInit
<1>3. DataInv /\ Bounds /\ TimeInv(OpenBy) /\ [Next]_vars
        => (DataInv /\ Bounds /\ TimeInv(OpenBy))'
  BY <1>1, DataNext, BoundsNext, TimeNext
<1>4. DataInv /\ Bounds /\ TimeInv(OpenBy) => TypeOK
  <2> SUFFICES ASSUME DataInv, Bounds, TimeInv(OpenBy) PROVE TypeOK
    OBVIOUS
  <2>1. edits \in 0 .. MaxEdits /\ MaxSize \in Nat /\ MaxEdits \in Nat
    BY DeliveryAssumption DEF DataInv, Shape, Bounds
  <2>2. ASSUME NEW f \in Files, NEW i \in Inodes
        PROVE  disk[f][i].data \in Data /\ disk[f][i].time \in 0 .. MaxEdits
    <3>1. disk[f][i].data \in Seq(Versions) /\ disk[f][i].time \in Nat
      BY DEF DataInv, Shape
    <3>2. Len(disk[f][i].data) <= MaxSize + edits /\ disk[f][i].time <= edits
      BY DEF Bounds
    <3>3. Len(disk[f][i].data) \in 0 .. MaxSize + MaxEdits
      BY <2>1, <3>1, <3>2
    <3>4. disk[f][i].data \in [1 .. Len(disk[f][i].data) -> Versions]
      BY <3>1
    <3>5. disk[f][i].data \in Data
      BY <3>3, <3>4 DEF Data
    <3> QED
      BY <2>1, <3>1, <3>2, <3>5
  <2> QED
    BY <2>1, <2>2 DEF TypeOK, DataInv, Shape, Bounds, TimeInv
<1> QED
  BY <1>2, <1>3, <1>4, PTL DEF Spec

-----------------------------------------------------------------------------
(***************************************************************************)
(* Going through the files one after the other: sums and offers.           *)
(***************************************************************************)
\* The sums up to each file.
LEMMA SumsUpTo ==
  ASSUME NEW x \in [Files -> Nat]
  PROVE  \E sum \in [0 .. FileCount -> Nat] :
           /\ sum[0] = 0
           /\ \A k \in Files : sum[k] = sum[k - 1] + x[k]
           /\ Total(x) = sum[FileCount]
<1> DEFINE Sums(f) == f = [k \in 0 .. FileCount |-> IF k = 0 THEN 0 ELSE f[k - 1] + x[k]]
           sum == CHOOSE f : Sums(f)
           next == [p \in Nat \X (1 .. FileCount) |-> p[1] + x[p[2]]]
<1>1. FileCount \in Nat
  BY OffersAssumption
<1>2. next \in [Nat \X (1 .. FileCount) -> Nat]
  BY DEF Files
<1>3. \A v \in Nat, k \in 1 .. FileCount : next[<<v, k>>] = v + x[k]
  OBVIOUS
<1> HIDE DEF next
<1>4. \E f : Sums(f)
  <2>1. PICK f \in [0 .. FileCount -> Nat] : Follows(f, FileCount, 0, next)
    BY <1>1, <1>2, Iteration
  <2>2. \A k \in 1 .. FileCount : f[k - 1] \in Nat /\ f[k] = f[k - 1] + x[k]
    <3>1. ASSUME NEW k \in 1 .. FileCount
          PROVE  f[k - 1] \in Nat /\ f[k] = f[k - 1] + x[k]
      <4>1. k - 1 \in 0 .. FileCount
        BY <1>1
      <4>2. f[k - 1] \in Nat
        BY <4>1
      <4>3. f[k] = next[<<f[k - 1], k>>]
        BY <2>1 DEF Follows
      <4> QED
        BY <1>3, <4>2, <4>3
    <3> QED
      BY <3>1
  <2>3. f = [k \in 0 .. FileCount |-> IF k = 0 THEN 0 ELSE f[k - 1] + x[k]]
    BY <1>1, <2>1, <2>2 DEF Follows
  <2> QED
    BY <2>3
<1>5. Sums(sum)
  BY <1>4
<1>6. Total(x) = sum[FileCount]
  BY DEF Total
<1> HIDE DEF sum
<1>7. sum[0] = 0 /\ \A k \in Files : sum[k] = sum[k - 1] + x[k]
  BY <1>1, <1>5 DEF Files
<1>8. {k \in 0 .. FileCount : sum[k] \in Nat} = 0 .. FileCount
  <2> DEFINE S == {k \in 0 .. FileCount : sum[k] \in Nat}
  <2>1. S \subseteq 0 .. FileCount /\ 0 \in S
    BY <1>1, <1>7
  <2>2. \A k \in 1 .. FileCount : k - 1 \in S => k \in S
    BY <1>1, <1>7 DEF Files
  <2> HIDE DEF S
  <2>3. S = 0 .. FileCount
    BY <1>1, <2>1, <2>2, OneByOne
  <2> QED
    BY <2>3 DEF S
<1>9. sum \in [0 .. FileCount -> Nat]
  BY <1>5, <1>8
<1> QED
  BY <1>6, <1>7, <1>9

LEMMA BytesType ==
  ASSUME NEW size \in [Files -> Nat], NEW S
  PROVE  Bytes(size, S) \in Nat
<1> DEFINE x == [f \in Files |-> IF f \in S THEN size[f] ELSE 0]
<1>1. x \in [Files -> Nat]
  OBVIOUS
<1> HIDE DEF x
<1>2. Total(x) \in Nat
  <2>1. FileCount \in 0 .. FileCount
    BY OffersAssumption
  <2> QED
    BY <1>1, <2>1, SumsUpTo
<1> QED
  BY <1>2 DEF Bytes, x

\* Nothing takes no room.
LEMMA NoBytes ==
  ASSUME NEW size \in [Files -> Nat]
  PROVE  Bytes(size, {}) = 0
<1> DEFINE x == [f \in Files |-> 0]
<1>1. x \in [Files -> Nat] /\ \A f \in Files : x[f] = 0
  OBVIOUS
<1>2. Bytes(size, {}) = Total(x)
  BY DEF Bytes
<1> HIDE DEF x
<1>3. FileCount \in Nat
  BY OffersAssumption
<1>4. PICK sum \in [0 .. FileCount -> Nat] :
        /\ sum[0] = 0
        /\ \A k \in Files : sum[k] = sum[k - 1] + x[k]
        /\ Total(x) = sum[FileCount]
  BY <1>1, SumsUpTo
<1> DEFINE S == {k \in 0 .. FileCount : sum[k] = 0}
<1>5. S \subseteq 0 .. FileCount /\ 0 \in S
  BY <1>3, <1>4
<1>6. \A k \in 1 .. FileCount : k - 1 \in S => k \in S
  BY <1>1, <1>3, <1>4 DEF Files
<1> HIDE DEF S
<1>7. S = 0 .. FileCount
  BY <1>3, <1>5, <1>6, OneByOne
<1>8. FileCount \in S
  BY <1>3, <1>7
<1> QED
  BY <1>2, <1>4, <1>8 DEF S

\* Sets of previews that the receiver lets pass.
Packable(thumbnail) ==
  {S \in SUBSET Prepared(thumbnail) : Bytes(thumbnail, S) <= MaxTotalPreviewBytes}

\* build_offer packs such a set, whatever the previews are.
LEMMA BuiltOffer ==
  ASSUME NEW thumbnail \in [Files -> Nat], NEW names, NEW size
  PROVE  \E S \in Packable(thumbnail) :
           BuildOffer(names, size, thumbnail) = Offer(names, size, thumbnail, S)
<1> DEFINE Packs(f) == f = [k \in 0 .. FileCount |->
                              IF k = 0 THEN {} ELSE Pack(thumbnail, f[k - 1], k)]
           packed == CHOOSE f : Packs(f)
           V == Packable(thumbnail)
           next == [p \in V \X (1 .. FileCount) |-> Pack(thumbnail, p[1], p[2])]
<1>1. FileCount \in Nat /\ MaxTotalPreviewBytes \in Nat
  BY OffersAssumption
<1>2. {} \in V
  BY <1>1, NoBytes DEF Packable
<1>3. \A S \in V, k \in 1 .. FileCount : Pack(thumbnail, S, k) \in V
  BY DEF Packable, Pack
<1>4. next \in [V \X (1 .. FileCount) -> V]
  BY <1>3
<1>5. \A S \in V, k \in 1 .. FileCount : next[<<S, k>>] = Pack(thumbnail, S, k)
  OBVIOUS
<1> HIDE DEF V, next
<1>6. \E f : Packs(f)
  <2>1. PICK f \in [0 .. FileCount -> V] : Follows(f, FileCount, {}, next)
    BY <1>1, <1>2, <1>4, Iteration
  <2>2. ASSUME NEW k \in 1 .. FileCount
        PROVE  f[k] = Pack(thumbnail, f[k - 1], k)
    <3>1. f[k - 1] \in V
      BY <1>1
    <3>2. f[k] = next[<<f[k - 1], k>>]
      BY <2>1 DEF Follows
    <3> QED
      BY <1>5, <3>1, <3>2
  <2>3. f = [k \in 0 .. FileCount |-> IF k = 0 THEN {} ELSE Pack(thumbnail, f[k - 1], k)]
    BY <1>1, <2>1, <2>2 DEF Follows
  <2> QED
    BY <2>3
<1>7. Packs(packed)
  BY <1>6
<1>8. BuildOffer(names, size, thumbnail) = Offer(names, size, thumbnail, packed[FileCount])
  BY DEF BuildOffer
<1> HIDE DEF packed
<1>9. packed[0] = {} /\ \A k \in 1 .. FileCount : packed[k] = Pack(thumbnail, packed[k - 1], k)
  <2>1. 0 \in 0 .. FileCount /\ \A k \in 1 .. FileCount : k \in 0 .. FileCount /\ k # 0
    BY <1>1
  <2> QED
    BY <1>7, <2>1
<1>10. packed[FileCount] \in V
  <2> DEFINE S == {k \in 0 .. FileCount : packed[k] \in V}
  <2>1. S \subseteq 0 .. FileCount /\ 0 \in S
    BY <1>1, <1>2, <1>9
  <2>2. \A k \in 1 .. FileCount : k - 1 \in S => k \in S
    BY <1>1, <1>3, <1>9
  <2> HIDE DEF S
  <2>3. S = 0 .. FileCount
    BY <1>1, <2>1, <2>2, OneByOne
  <2>4. FileCount \in S
    BY <1>1, <2>3
  <2> QED
    BY <2>4 DEF S
<1> QED
  BY <1>8, <1>10 DEF V

(***************************************************************************)
(* The offer on its way is the one that was built of what is prepared.     *)
(***************************************************************************)
RightOffer(o) ==
  /\ o.name = name /\ o.size = Sizes /\ o.total = Bytes(Sizes, Files)
  /\ DOMAIN o.preview \subseteq Files
  /\ \A f \in DOMAIN o.preview : o.preview[f] <= MaxPreviewBytes
  /\ Bytes(o.preview, DOMAIN o.preview) <= MaxTotalPreviewBytes

Refusable == ~PortableNames(name) \/ Bytes(Sizes, Files) > MaxTotalBytes

OfferInv ==
  /\ DataInv
  /\ phase = "offered" => RightOffer(offer)
  /\ reason = "invalid" => phase = "failed" /\ Refusable

LEMMA SizesType == DataInv => Sizes \in [Files -> Nat]
<1> SUFFICES ASSUME DataInv, NEW f \in Files PROVE Len(manifest[f].data) \in Nat
  BY DEF Sizes
<1> QED
  BY DEF DataInv, Shape

LEMMA MakeOfferIsRight ==
  ASSUME DataInv, MakeOffer
  PROVE  RightOffer(offer)'
<1>1. PICK thumbnail \in [Files -> Thumbnails] : offer' = BuildOffer(name, Sizes, thumbnail)
  BY DEF MakeOffer
<1>2. thumbnail \in [Files -> Nat]
  BY OffersAssumption DEF Thumbnails
<1>3. PICK S \in Packable(thumbnail) : offer' = Offer(name, Sizes, thumbnail, S)
  BY <1>1, <1>2, BuiltOffer
<1>4. S \subseteq Files /\ \A f \in S : thumbnail[f] <= MaxPreviewBytes
  BY DEF Packable, Prepared, Previewed
<1> DEFINE preview == [f \in S |-> thumbnail[f]]
<1>5. DOMAIN preview = S /\ \A f \in S : preview[f] = thumbnail[f]
  OBVIOUS
<1>6. /\ offer'.name = name /\ offer'.size = Sizes
      /\ offer'.total = Bytes(Sizes, Files) /\ offer'.preview = preview
  BY <1>3 DEF Offer
<1> HIDE DEF preview
<1>7. Bytes(preview, S) = Bytes(thumbnail, S)
  <2>1. [f \in Files |-> IF f \in S THEN preview[f] ELSE 0]
          = [f \in Files |-> IF f \in S THEN thumbnail[f] ELSE 0]
    BY <1>5
  <2> QED
    BY <2>1 DEF Bytes
<1>8. Bytes(preview, DOMAIN preview) <= MaxTotalPreviewBytes
  BY <1>5, <1>7 DEF Packable
<1>9. UNCHANGED <<name, Sizes>>
  BY DEF MakeOffer, sourceVars, Sizes
<1> QED
  BY <1>4, <1>5, <1>6, <1>8, <1>9 DEF RightOffer

LEMMA OfferStep == OfferInv /\ [Next]_vars => OfferInv'
<1> SUFFICES ASSUME OfferInv, [Next]_vars PROVE OfferInv'
  OBVIOUS
<1> USE DEF sourceVars, preparedVars, dataVars, timeVars, At, Goes, Fails
<1>1. DataInv /\ DataInv'
  BY DataNext DEF OfferInv
<1>2. ASSUME UNCHANGED <<name, manifest>>, phase' = phase \/ phase' # "offered",
             phase = "offered" => UNCHANGED offer \/ phase' # "offered",
             phase # "failed" \/ phase' = "failed",
             reason' = reason \/ reason' # "invalid"
      PROVE  OfferInv'
  BY <1>1, <1>2 DEF OfferInv, RightOffer, Refusable, Sizes
<1>3. ASSUME NEW f \in Files, NEW inode \in Inodes, NEW tick \in {0, 1}, Edit(f, inode, tick)
      PROVE  OfferInv'
  BY <1>2, <1>3 DEF Edit
<1>4. ASSUME NEW f \in Files, Replace(f)
      PROVE  OfferInv'
  BY <1>2, <1>4 DEF Replace
<1>5. CASE Select \/ Complete \/ TimeOut \/ Tick \/ UNCHANGED vars
  BY <1>2, <1>5 DEF Select, Complete, TimeOut, Tick, vars
<1>6. ASSUME NEW f \in Files, Prepare(f)
      PROVE  OfferInv'
  BY <1>1, <1>6 DEF Prepare, OfferInv
<1>7. CASE MakeOffer
  BY <1>1, <1>7, MakeOfferIsRight DEF MakeOffer, OfferInv
<1>8. CASE Accept
  <2>1. UNCHANGED <<name, manifest>> /\ phase = "offered" /\ RightOffer(offer)
    BY <1>8 DEF Accept, OfferInv
  <2>2. Bytes(Sizes, Files) \in Nat /\ MaxTotalBytes \in Nat
    BY <1>1, SizesType, BytesType, OffersAssumption
  <2>3. ASSUME ~(ValidOffer(offer) /\ ValidAccept(DOMAIN offer.size))
        PROVE  Refusable
    <3>1. DOMAIN offer.size = Files
      BY <2>1 DEF RightOffer, Sizes
    <3> QED
      BY <2>1, <2>2, <2>3, <3>1 DEF RightOffer, ValidOffer, ValidAccept, Refusable
  <2>4. Refusable' = Refusable
    BY <2>1 DEF Refusable, Sizes
  <2> QED
    BY <1>1, <1>8, <2>3, <2>4 DEF Accept, OfferInv
<1>9. ASSUME NEW f \in Files,
             \/ OpenStream(f) \/ TakeStream(f) \/ GetSlot(f)
             \/ SendChunk(f) \/ SendDigest(f) \/ Keep(f)
      PROVE  OfferInv'
  <2>1. /\ UNCHANGED <<name, manifest, offer>> /\ phase = "receiving"
        /\ phase' \in {"receiving", "failed"}
        /\ reason' = reason \/ reason' # "invalid"
    BY <1>9 DEF OpenStream, TakeStream, GetSlot, SendChunk, SendDigest, Keep
  <2> QED
    BY <1>2, <2>1
<1> QED
  BY <1>3, <1>4, <1>5, <1>6, <1>7, <1>8, <1>9 DEF Next, Outside

(***************************************************************************)
(* OnlyNamesAreRefused: whatever previews there are, and with any limits,  *)
(* the receiver refuses an offer for nothing but its names and its total   *)
(* (preparation.rs:101-140, quic.rs:389-487).                              *)
(***************************************************************************)
THEOREM OffersPass == Spec => []OnlyNamesAreRefused
<1>1. Init => OfferInv
  BY DataInit DEF Init, OfferInv
<1>2. OfferInv => OnlyNamesAreRefused
  BY DEF OfferInv, Refusable, OnlyNamesAreRefused
<1> QED
  BY <1>1, <1>2, OfferStep, PTL DEF Spec

=============================================================================
