------------------------------ MODULE Delivery ------------------------------
(***************************************************************************)
(* The contents of a transfer, from the selection of its files to their    *)
(* delivery, while other programs change the files and time passes:        *)
(* insert_preparing_transfer and the sending of files (src/src/            *)
(* infrastructure/quic.rs:99-345), prepare_file (quic/preparation.rs),     *)
(* the grants and receive_files (quic/receiver.rs:236-402), send_one_file  *)
(* (quic/sender.rs) and what is left of receive_one_file.                  *)
(*                                                                         *)
(* Slots, streams and the receive directory are those of Traffic and       *)
(* Storage; here they only take time.  A transfer can be given up or lose  *)
(* its connection in every state (TransferSession): nothing that is        *)
(* modelled here comes after that.                                         *)
(***************************************************************************)
EXTENDS Offers

CONSTANTS
  Concurrency,   \* FILE_STREAM_CONCURRENCY
  OpenTimeout,   \* FILE_STREAM_OPEN_TIMEOUT
  FileTimeout,   \* FILE_TRANSFER_TIMEOUT
  GrantTtl,      \* FILE_GRANT_TTL
  MaxSize,       \* chunks of a file
  MaxEdits       \* changes to the files from outside

(***************************************************************************)
(* OpenBy[k] is the time by which k streams have come: the next stream     *)
(* comes within OpenTimeout, if need be after one of the files at work has *)
(* ended.                                                                  *)
(***************************************************************************)
Schedule(OpenBy) ==
  \A k \in 1 .. FileCount :
    /\ OpenBy[k - 1] + OpenTimeout <= OpenBy[k]
    /\ k > Concurrency => OpenBy[k - Concurrency] + FileTimeout + OpenTimeout <= OpenBy[k]

\* The grants are valid for so long: in seconds, 256 files by 4 need
\* 63 * (3600 + 30) + 4 * 30 of 65 * 3600.
ASSUME DeliveryAssumption ==
  /\ Concurrency \in Nat \ {0}
  /\ OpenTimeout \in Nat \ {0} /\ FileTimeout \in Nat \ {0}
  /\ GrantTtl \in Nat /\ MaxSize \in Nat /\ MaxEdits \in Nat
  /\ \E OpenBy \in [0 .. FileCount -> 0 .. GrantTtl] : Schedule(OpenBy)

VARIABLES
  name,      \* the name of each file
  disk,      \* each file's data and time of change: `old`, that was selected,
             \* and `new`, that may take its place
  named,     \* which of them the path names
  edits,     \* changes so far
  blind,     \* files changed after they were prepared, in the same tick of the
             \* file system's clock as before
  shown,     \* sizes in the view of the sender
  held,      \* the open file that has been prepared
  manifest,  \* its size, time of change and, for the properties, its data
  offer,     \* on its way to the receiver
  phase,     \* of the transfer
  reason,    \* why it failed
  place,     \* of each file
  sent,      \* the data sent
  kept,      \* files the receiver has kept
  now,       \* the time since the grants were given out
  wait,      \* since when the receiver has waited for a stream
  start      \* when it took the stream of each file

sourceVars == <<name, disk, named, edits, blind>>
preparedVars == <<shown, held, manifest, offer>>
timeVars == <<now, wait, start>>
dataVars == <<place, sent, kept>>
vars == <<sourceVars, preparedVars, phase, reason, dataVars, timeVars>>

Inodes == {"old", "new"}
Versions == 0 .. MaxEdits
Data == UNION {[1 .. n -> Versions] : n \in 0 .. MaxSize + MaxEdits}
FileOf(data, time) == [data |-> data, time |-> time]
NoFile == FileOf(<<>>, 0)
None == [done |-> FALSE, data |-> <<>>]

Init ==
  /\ name \in [Files -> Names]
  /\ \E size \in [Files -> 0 .. MaxSize] :
       disk = [f \in Files |-> [i \in Inodes |->
                 IF i = "old" THEN FileOf([n \in 1 .. size[f] |-> 0], 0) ELSE NoFile]]
  /\ named = [f \in Files |-> "old"]
  /\ edits = 0 /\ blind = {}
  /\ shown = [f \in Files |-> 0]
  /\ held = [f \in Files |-> "none"]
  /\ manifest = [f \in Files |-> NoFile]
  /\ offer = NoOffer
  /\ phase = "selected" /\ reason = "none"
  /\ place = [f \in Files |-> "waiting"]
  /\ sent = [f \in Files |-> <<>>]
  /\ kept = [f \in Files |-> None]
  /\ now = 0 /\ wait = 0
  /\ start = [f \in Files |-> 0]

(***************************************************************************)
(* Other programs write to a file, cut it off, or put one in its place.    *)
(***************************************************************************)
Edited(data, version) ==
  {[data EXCEPT ![i] = version] : i \in DOMAIN data}
    \union {Append(data, version)}
    \union {Front(data) : i \in {1} \intersect DOMAIN data}

Ended == phase \in {"completed", "failed"}

Edit(f, inode, tick) ==
  /\ ~Ended
  /\ edits < MaxEdits
  /\ edits' = edits + 1
  /\ inode \in {"old", named[f]}
  /\ \E data \in Edited(disk[f][inode].data, edits') :
       disk' = [disk EXCEPT ![f][inode] = FileOf(data, @.time + tick)]
  /\ blind' = IF held[f] = inode /\ tick = 0 THEN blind \union {f} ELSE blind
  /\ UNCHANGED <<name, named, preparedVars, phase, reason, dataVars, timeVars>>

Replace(f) ==
  /\ ~Ended
  /\ edits < MaxEdits
  /\ edits' = edits + 1
  /\ named[f] = "old"
  /\ named' = [named EXCEPT ![f] = "new"]
  /\ disk' = [disk EXCEPT ![f]["new"] =
                FileOf([i \in DOMAIN disk[f]["old"].data |-> edits'], 0)]
  /\ UNCHANGED <<name, blind, preparedVars, phase, reason, dataVars, timeVars>>

(***************************************************************************)
(* The offer.                                                              *)
(***************************************************************************)
Goes(from, to) == phase = from /\ phase' = to /\ UNCHANGED reason
Fails(why) == phase' = "failed" /\ reason' = why

\* insert_preparing_transfer: sizes as the paths have them now.
Select ==
  /\ Goes("selected", "preparing")
  /\ shown' = [f \in Files |-> Len(disk[f][named[f]].data)]
  /\ UNCHANGED <<sourceVars, held, manifest, offer, dataVars, timeVars>>

\* prepare_file: the file is opened, its size and time of change are noted.
Prepare(f) ==
  /\ phase = "preparing"
  /\ held[f] = "none"
  /\ held' = [held EXCEPT ![f] = named[f]]
  /\ manifest' = [manifest EXCEPT ![f] = disk[f][named[f]]]
  /\ UNCHANGED <<sourceVars, shown, offer, phase, reason, dataVars, timeVars>>

Sizes == [f \in Files |-> Len(manifest[f].data)]

\* The offer takes the previews of those files that are images.
MakeOffer ==
  /\ phase = "preparing"
  /\ \A f \in Files : held[f] # "none"
  /\ \E thumbnail \in [Files -> Thumbnails] :
       offer' = BuildOffer(name, Sizes, thumbnail)
  /\ IF Fits(offer')
       THEN Goes("preparing", "offered")
       ELSE Fails("too large")
  /\ UNCHANGED <<sourceVars, shown, held, manifest, dataVars, timeVars>>

\* The receiver checks the offer, and its user accepts it.
Accept ==
  /\ phase = "offered"
  /\ IF ValidOffer(offer) /\ ValidAccept(DOMAIN offer.size)
       THEN Goes("offered", "receiving")
       ELSE Fails("invalid")
  /\ offer' = NoOffer
  /\ UNCHANGED <<sourceVars, shown, held, manifest, dataVars, timeVars>>

(***************************************************************************)
(* The streams.                                                            *)
(***************************************************************************)
At(f, from, to) ==
  phase = "receiving" /\ place[f] = from /\ place' = [place EXCEPT ![f] = to]
In(places) == {f \in Files : place[f] \in places}

\* The receiver works on these.
Running == In({"taken", "data", "digest"})
HasRoom == Cardinality(Running) < Concurrency

\* The sender has joined all files but the last few.
OpenStream(f) ==
  /\ At(f, "waiting", "opened")
  /\ f <= Cardinality(In({"done"})) + Concurrency
  /\ UNCHANGED <<sourceVars, preparedVars, phase, reason, sent, kept, timeVars>>

\* receive_files: a task for the stream, unless its grant has expired.
TakeStream(f) ==
  /\ HasRoom
  /\ IF now > GrantTtl
       THEN /\ At(f, "opened", "opened")
            /\ Fails("expired")
            /\ UNCHANGED timeVars
       ELSE /\ At(f, "opened", "taken")
            /\ wait' = now
            /\ start' = [start EXCEPT ![f] = now]
            /\ UNCHANGED <<now, phase, reason>>
  /\ UNCHANGED <<sourceVars, preparedVars, sent, kept>>

\* Mutation: the time of a file starts with its slot.
SlotFirst(f) == start' = [start EXCEPT ![f] = now]

\* The time a file may take includes the wait for a slot.
KeepStart(f) == UNCHANGED start

\* A slot is free: the header goes out, the data follows.
GetSlot(f) ==
  /\ At(f, "taken", "data")
  /\ KeepStart(f)
  /\ UNCHANGED <<sourceVars, preparedVars, phase, reason, sent, kept, now, wait>>

\* Mutation: the path is opened again.
Reopened(f) == disk[f][named[f]]

\* The handle of the prepared file.
Source(f) == disk[f][held[f]]

\* Mutation: the file is read to its end.
MoreOfSource(f) == Len(sent[f]) < Len(Source(f).data)

More(f) == Len(sent[f]) < Sizes[f]

\* A chunk is read, sent, and counted in the sender's view.
SendChunk(f) ==
  LET n == Len(sent[f]) + 1
  IN  /\ At(f, "data", "data")
      /\ More(f)
      /\ IF n > Len(Source(f).data)
           THEN Fails("ended early") /\ UNCHANGED sent
           ELSE /\ sent' = [sent EXCEPT ![f] = Append(@, Source(f).data[n])]
                /\ IF n > shown[f] THEN Fails("progress") ELSE UNCHANGED <<phase, reason>>
      /\ UNCHANGED <<sourceVars, preparedVars, kept, timeVars>>

Unchanged(f) ==
  /\ Len(Source(f).data) = Sizes[f]
  /\ Source(f).time = manifest[f].time

\* The digest follows the data of a file that has not changed.
SendDigest(f) ==
  /\ place[f] = "data" /\ ~More(f)
  /\ IF Unchanged(f)
       THEN At(f, "data", "digest") /\ UNCHANGED <<phase, reason>>
       ELSE At(f, "data", "data") /\ Fails("changed")
  /\ UNCHANGED <<sourceVars, preparedVars, sent, kept, timeVars>>

\* The receiver has compared the digest and keeps the file.
Keep(f) ==
  /\ At(f, "digest", "done")
  /\ kept' = [kept EXCEPT ![f] = [done |-> TRUE, data |-> sent[f]]]
  /\ wait' = IF HasRoom THEN wait ELSE now
  /\ UNCHANGED <<sourceVars, preparedVars, phase, reason, sent, now, start>>

Complete ==
  /\ In({"done"}) = Files
  /\ Goes("receiving", "completed")
  /\ UNCHANGED <<sourceVars, preparedVars, dataVars, timeVars>>

(***************************************************************************)
(* Time.  A timer that is due goes off before time goes on.                *)
(***************************************************************************)
Pending == In({"waiting", "opened"})
WaitIsOver == HasRoom /\ Pending # {} /\ now >= wait + OpenTimeout
IsOverdue(f) == f \in Running /\ now >= start[f] + FileTimeout

\* Mutation: nobody counts the time a stream takes to come.
TimeOutOfFiles ==
  /\ phase = "receiving"
  /\ \E f \in Files : IsOverdue(f)
  /\ Fails("timeout")
  /\ UNCHANGED <<sourceVars, preparedVars, dataVars, timeVars>>

TimeOut ==
  /\ phase = "receiving"
  /\ WaitIsOver \/ \E f \in Files : IsOverdue(f)
  /\ Fails("timeout")
  /\ UNCHANGED <<sourceVars, preparedVars, dataVars, timeVars>>

Tick ==
  /\ phase = "receiving"
  /\ In({"done"}) # Files
  /\ ~WaitIsOver
  /\ \A f \in Files : ~IsOverdue(f)
  /\ now' = now + 1
  /\ UNCHANGED <<sourceVars, preparedVars, phase, reason, dataVars, wait, start>>

Outside ==
  \/ \E f \in Files, inode \in Inodes, tick \in {0, 1} : Edit(f, inode, tick)
  \/ \E f \in Files : Replace(f)

Next ==
  \/ Outside \/ Select \/ MakeOffer \/ Accept \/ Complete \/ TimeOut \/ Tick
  \/ \E f \in Files : \/ Prepare(f) \/ OpenStream(f) \/ TakeStream(f) \/ GetSlot(f)
                      \/ SendChunk(f) \/ SendDigest(f) \/ Keep(f)

\* Timers go off.
Fairness == WF_vars(Tick) /\ WF_vars(TimeOut) /\ WF_vars(Complete)

Spec == Init /\ [][Next]_vars /\ Fairness

TypeOK ==
  /\ name \in [Files -> Names]
  /\ \A f \in Files, i \in Inodes :
       disk[f][i].data \in Data /\ disk[f][i].time \in 0 .. MaxEdits
  /\ named \in [Files -> Inodes] /\ held \in [Files -> Inodes \union {"none"}]
  /\ edits \in 0 .. MaxEdits /\ blind \subseteq Files
  /\ shown \in [Files -> 0 .. MaxSize + MaxEdits]
  /\ phase \in {"selected", "preparing", "offered", "receiving", "completed", "failed"}
  /\ place \in [Files -> {"waiting", "opened", "taken", "data", "digest", "done"}]
  /\ \A f \in Files : Len(sent[f]) <= Sizes[f]
  /\ Cardinality(Running) <= Concurrency

(***************************************************************************)
(* The offers a sender builds are refused for nothing but the names of its *)
(* files and more than 16 TiB: previews, counts and totals always pass.    *)
(***************************************************************************)
OnlyNamesAreRefused ==
  reason = "invalid" => ~PortableNames(name) \/ Bytes(Sizes, Files) > MaxTotalBytes

(***************************************************************************)
(* A file the receiver keeps is the file that was prepared: no edit and no *)
(* other file in its place goes unnoticed, unless it was written within    *)
(* the same tick of the file system's clock.                               *)
(***************************************************************************)
DeliveredAsOffered ==
  \A f \in Files \ blind : kept[f].done => kept[f].data = manifest[f].data

(***************************************************************************)
(* No earlier file, however slow, makes the grant of a later one expire.   *)
(***************************************************************************)
NoGrantExpires == reason # "expired"

(***************************************************************************)
(* A receiver does not receive for ever, whatever its sender does.         *)
(***************************************************************************)
ReceivingEnds == phase = "receiving" ~> phase # "receiving"
=============================================================================
