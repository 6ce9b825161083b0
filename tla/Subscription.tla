---------------------------- MODULE Subscription ----------------------------
(***************************************************************************)
(* Events for user interfaces: mutations publish the whole state on a      *)
(* watch channel, progress publishes deltas on a bounded broadcast channel *)
(* (src/src/application/manager.rs:293-299,667-761,797-803), and every     *)
(* TransferSubscription merges the two (src/src/subscription.rs).          *)
(*                                                                         *)
(* The state is one active transfer, of which the bytes of each file and   *)
(* whether it has ended matter, and a version of all that other mutations  *)
(* change.  Diagnostics, a third channel, carry no state.                  *)
(***************************************************************************)
EXTENDS Naturals, FiniteSets, SequencesExt

CONSTANTS
  Files,
  Size,          \* of every file, in chunks
  Writers,       \* concurrent calls that end in emit_snapshot
  Subscribers,
  Cap,           \* capacity of the broadcast channel
  MaxRevision,   \* bound: revisions of a behaviour
  Droppable      \* where a consumer may drop the future of `next`

ASSUME BoundsAssumption == {Size, Cap, MaxRevision} \subseteq Nat \ {0}
ASSUME DroppableAssumption == Droppable \subseteq {"progress", "baseline"}

Items == Files \union {"version", "ended"}
Blank == [i \in Items |-> 0]

VARIABLES
  value,      \* the manager's state, [Items -> Nat]
  rev,        \* its revision
  base,       \* last_full_revision
  dirty,      \* files whose progress no delta has carried yet
  at,         \* [Writers -> "idle", "dropped" or "changed"]
  snapshot,   \* the watch channel: a state and its revision
  log,        \* every delta sent; the channel keeps the last Cap of them
  stopping,   \* the manager is shutting down
  known,      \* history: known[r] is what revision r had published
  sub         \* [Subscribers -> its cursor and what its consumer shows]

manager == <<value, rev, base, dirty, at, snapshot, log, stopping, known>>
vars == <<value, rev, base, dirty, at, snapshot, log, stopping, known, sub>>

Init ==
  /\ value = Blank
  /\ rev = 0
  /\ base = 0
  /\ dirty = {}
  /\ at = [w \in Writers |-> "idle"]
  /\ snapshot = [state |-> Blank, rev |-> 0]
  /\ log = << >>
  /\ stopping = FALSE
  /\ known = << >>
  /\ sub = [s \in Subscribers |->
              [at |-> "unopened", started |-> FALSE, seen |-> 0, read |-> 0,
               rev |-> 0, base |-> 0, view |-> Blank]]

-----------------------------------------------------------------------------
(* The manager.                                                            *)

\* Room for the snapshots that are due and one revision more.
Room == rev + Cardinality({w \in Writers : at[w] # "idle"}) < MaxRevision

\* A transition to a final status first forgets the emission of the transfer.
DropDirty(w) ==
  /\ at[w] = "idle"
  /\ value["ended"] = 0
  /\ Room
  /\ dirty' = {}
  /\ at' = [at EXCEPT ![w] = "dropped"]
  /\ UNCHANGED <<value, rev, base, snapshot, log, stopping, known, sub>>

\* A mutation changes the state under the write lock.  One that ends a
\* transfer that has ended already changes nothing and still publishes.
Mutate(w) ==
  /\ at' = [at EXCEPT ![w] = "changed"]
  /\ \/ /\ at[w] = "dropped"
        /\ value' = [value EXCEPT !["ended"] = 1]
     \/ /\ at[w] = "idle"
        /\ Room
        /\ value' = [value EXCEPT !["version"] = @ + 1]
  /\ UNCHANGED <<rev, base, dirty, snapshot, log, stopping, known, sub>>

\* emit_snapshot: a new revision of whatever the state is by now.
Emit(w) ==
  /\ at[w] = "changed"
  /\ at' = [at EXCEPT ![w] = "idle"]
  /\ rev' = rev + 1
  /\ base' = rev'
  /\ snapshot' = [state |-> value, rev |-> rev']
  /\ known' = Append(known, value)
  /\ UNCHANGED <<value, dirty, log, stopping, sub>>

Known(r) == IF r = 0 THEN Blank ELSE known[r]

\* [Files -> bytes] for the files of a delta, over what was there before.
Apply(files, state) == [i \in Items |-> IF i \in DOMAIN files THEN files[i]
                                                             ELSE state[i]]

\* record_progress_live: a chunk of f, and a delta if the file is finished
\* or the last delta is 100 ms old.
Record(f) ==
  LET bytes == value[f] + 1
      files == [g \in dirty \union {f} |-> IF g = f THEN bytes ELSE value[g]]
  IN  /\ value["ended"] = 0
      /\ bytes <= Size
      /\ value' = [value EXCEPT ![f] = bytes]
      /\ \/ /\ bytes < Size
            /\ dirty' = dirty \union {f}
            /\ UNCHANGED <<rev, log, known>>
         \/ /\ Room
            /\ dirty' = {}
            /\ rev' = rev + 1
            /\ log' = Append(log, [rev |-> rev', base |-> base,
                                   files |-> files])
            /\ known' = Append(known, Apply(files, Known(rev)))
      /\ UNCHANGED <<base, at, snapshot, stopping, sub>>

Shutdown ==
  /\ ~stopping
  /\ stopping' = TRUE
  /\ UNCHANGED <<value, rev, base, dirty, at, snapshot, log, known, sub>>

-----------------------------------------------------------------------------
(* A subscription.                                                         *)

\* Mutations: the snapshot the channel holds, with its own revision or with
\* the current one.
ChannelState == snapshot
MixedState == [snapshot EXCEPT !.rev = rev]

\* What event_baseline reads.
CurrentState == [state |-> value, rev |-> rev]

\* What `next` does with a delta.
Disposition(s, d) ==
  IF d.rev <= s.rev THEN "skip"
  ELSE IF d.base = s.base /\ d.rev = s.rev + 1 THEN "apply" ELSE "baseline"

Set(s, c) == sub' = [sub EXCEPT ![s] = c] /\ UNCHANGED manager

Open(s) ==
  /\ sub[s].at = "unopened"
  /\ Set(s, [sub[s] EXCEPT !.at = "snapshots", !.seen = snapshot.rev,
                           !.read = Len(log)])

\* The first branches of the biased select!, and the check before it.  The
\* change is marked as seen before the state is read.
PollSnapshots(s) ==
  /\ sub[s].at = "snapshots"
  /\ Set(s, IF stopping THEN [sub[s] EXCEPT !.at = "closed"]
            ELSE IF ~sub[s].started \/ sub[s].seen # snapshot.rev
                 THEN [sub[s] EXCEPT !.at = "baseline", !.seen = snapshot.rev]
                 ELSE [sub[s] EXCEPT !.at = "progress"])

\* event_baseline: the state and last_full_revision under one lock.
ReadBaseline(s) ==
  /\ sub[s].at = "baseline"
  /\ Set(s, [sub[s] EXCEPT !.at = "snapshots", !.started = TRUE, !.base = base,
                           !.rev = CurrentState.rev,
                           !.view = CurrentState.state])

Lagged(c) == Len(log) - c.read > Cap

\* The receiver of a channel that has overwritten its place continues with
\* the oldest delta there is.  No delta: all branches are polled again.
PollProgress(s) ==
  LET c == sub[s]
      d == log[c.read + 1]
      passed == [c EXCEPT !.read = @ + 1]
  IN  /\ c.at = "progress"
      /\ Set(s,
           IF Len(log) = c.read THEN [c EXCEPT !.at = "snapshots"]
           ELSE IF Lagged(c)
                THEN [c EXCEPT !.at = "baseline", !.seen = snapshot.rev,
                               !.read = Len(log) - Cap]
           ELSE CASE Disposition(c, d) = "skip" ->
                       [passed EXCEPT !.at = "snapshots"]
                  [] Disposition(c, d) = "apply" ->
                       [passed EXCEPT !.at = "snapshots", !.rev = d.rev,
                                      !.view = Apply(d.files, @)]
                  [] OTHER ->
                       [passed EXCEPT !.at = "baseline", !.seen = snapshot.rev])

\* The consumer drops the future of `next` and calls it again later.
DropNext(s) ==
  /\ sub[s].at \in Droppable
  /\ Set(s, [sub[s] EXCEPT !.at = "snapshots"])

Step(s) == PollSnapshots(s) \/ ReadBaseline(s) \/ PollProgress(s)

Next ==
  \/ \E w \in Writers : DropDirty(w) \/ Mutate(w) \/ Emit(w)
  \/ \E f \in Files : Record(f)
  \/ Shutdown
  \/ \E s \in Subscribers : Open(s) \/ Step(s) \/ DropNext(s)

(***************************************************************************)
(* A mutation that has begun publishes; a consumer calls `next` again and  *)
(* its task is polled when there is something to receive.                  *)
(***************************************************************************)
Fairness ==
  /\ \A w \in Writers : WF_vars((Mutate(w) /\ at[w] = "dropped") \/ Emit(w))
  /\ \A s \in Subscribers :
       /\ WF_vars(PollSnapshots(s))
       /\ SF_vars(ReadBaseline(s))
       /\ SF_vars(PollProgress(s))

Spec == Init /\ [][Next]_vars /\ Fairness

-----------------------------------------------------------------------------
Within(a, b) == \A i \in Items : a[i] <= b[i]

(***************************************************************************)
(* "Slow consumers recover from current state instead of applying deltas   *)
(* whose baseline was dropped" (subscription.rs:5-6): what a consumer shows*)
(* at a revision holds all that was published up to that revision, and     *)
(* nothing the manager has not.                                            *)
(***************************************************************************)
NoStaleView ==
  \A s \in Subscribers :
    sub[s].started => /\ Within(Known(sub[s].rev), sub[s].view)
                      /\ Within(sub[s].view, value)

(***************************************************************************)
(* However the two channels are interleaved, no event takes a consumer     *)
(* back: bytes shown once never decrease, an ended transfer stays ended    *)
(* (subscription.rs:30-74).                                                *)
(***************************************************************************)
NeverBackwards ==
  [][\A s \in Subscribers : /\ sub[s].rev <= sub'[s].rev
                            /\ Within(sub[s].view, sub'[s].view)]_vars

(***************************************************************************)
(* A consumer that keeps calling `next` sees everything published in the   *)
(* end, or the end of the stream (subscription.rs:43-74).                  *)
(***************************************************************************)
CaughtUp ==
  \A s \in Subscribers :
    sub[s].at # "unopened" ~>
      [](sub[s].at = "closed" \/ Within(Known(rev), sub[s].view))

(***************************************************************************)
(* "Cancelling this future retains the receivers and their positions"      *)
(* (subscription.rs:42): a snapshot the watch receiver counts as seen has  *)
(* reached the consumer.                                                   *)
(***************************************************************************)
PositionsKept ==
  \A s \in Subscribers :
    sub[s].started /\ sub[s].at # "baseline" => sub[s].seen <= sub[s].rev

=============================================================================
