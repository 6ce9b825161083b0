------------------------------- MODULE Storage -------------------------------
(***************************************************************************)
(* The receive directory while several files are put into it: the staging  *)
(* files of receive_one_file and StagingCleanup (src/src/infrastructure/   *)
(* quic/receiver.rs:419-439, 547-563) and finalize_staged with             *)
(* unique_destination (src/src/infrastructure/filesystem.rs:117-147, 181-  *)
(* 196), one file operation per action.                                    *)
(*                                                                         *)
(* Every file operation runs in the blocking pool of tokio and is not      *)
(* stopped with the task that asked for it.  pool[f] is what the pool does *)
(* for f, part[f] the staging file.  A name with a number, <<n, 0>> for the*)
(* name of the offer and <<n, i>> for the name with " (i)", stands for a   *)
(* place; "a (1)" may be offered as a name too, and is the same place.     *)
(***************************************************************************)
EXTENDS Naturals, FiniteSets

CONSTANTS
  Files,       \* the files that are received
  Names,       \* the names they are offered under
  MaxIndex,    \* the highest number unique_destination tries: 9 999
  Spot,        \* the place of each name with a number
  UserPlaces   \* the places at which the user puts files of their own

ASSUME StorageAssumption ==
  /\ IsFiniteSet(Files)
  /\ MaxIndex \in Nat
  /\ Spot \in [Names \X (0 .. MaxIndex) -> Names \X (0 .. MaxIndex)]
  /\ UserPlaces \subseteq Names \X (0 .. MaxIndex)
  /\ {"free", "user"} \intersect Files = {}

VARIABLES
  name,      \* the name each file is offered under
  disk,      \* what is at each place
  part,      \* the staging file of each file
  pool,      \* what the blocking pool does for each file
  index,     \* the number that is tried
  cleaning,  \* the files whose StagingCleanup has been dropped
  missed     \* those whose clean-up came before the file was created; recorded
             \* for StagingIsRemoved and read by no action

storageVars ==
  <<name, disk, part, pool, index, cleaning, missed>>

stagingVars == <<cleaning, missed>>

Places == Names \X (0 .. MaxIndex)

Place(f) == Spot[<<name[f], index[f]>>]

StorageInit ==
  /\ name \in [Files -> Names]
  /\ disk = [p \in Places |-> "free"]
  /\ part = [f \in Files |-> "absent"]
  /\ pool = [f \in Files |-> "idle"]
  /\ index = [f \in Files |-> 0]
  /\ cleaning = {}
  /\ missed = {}

PoolStep(f, from, to) ==
  /\ pool[f] = from
  /\ pool' = [pool EXCEPT ![f] = to]

(***************************************************************************)
(* Staging.                                                                *)
(***************************************************************************)
\* The task asks for a new staging file; its name is drawn at random.
OpenStaging(f) ==
  /\ PoolStep(f, "idle", "open")
  /\ UNCHANGED <<name, disk, part, index, stagingVars>>

StagingOpened(f) ==
  /\ PoolStep(f, "open", "opened")
  /\ part' = [part EXCEPT ![f] = "present"]
  /\ UNCHANGED <<name, disk, index, stagingVars>>

\* Mutation: the guard is dropped without removing anything.
CleanUpNothing(fs) == UNCHANGED cleaning

\* The tasks of fs end with their guards in scope: a removal is spawned.
CleanUp(fs) == cleaning' = cleaning \union fs

RemoveStaging(f) ==
  /\ f \in cleaning
  /\ cleaning' = cleaning \ {f}
  /\ missed' = IF pool[f] = "open" THEN missed \union {f} ELSE missed
  /\ part' = [part EXCEPT ![f] = "absent"]
  /\ UNCHANGED <<name, disk, pool, index>>

(***************************************************************************)
(* finalize_staged.                                                        *)
(***************************************************************************)
Finalize(f) ==
  /\ PoolStep(f, "opened", "choose")
  /\ UNCHANGED <<name, disk, part, index, stagingVars>>

\* Mutation: one number too many.
ProbeOn(f) ==
  /\ IF disk[Place(f)] = "free" THEN PoolStep(f, "choose", "link") /\ UNCHANGED index
     ELSE IF index[f] <= MaxIndex
       THEN /\ PoolStep(f, "choose", "choose")
            /\ index' = [index EXCEPT ![f] = @ + 1]
       ELSE PoolStep(f, "choose", "failed") /\ UNCHANGED index
  /\ UNCHANGED <<name, disk, part, stagingVars>>

\* unique_destination looks at one place after the other.
Probe(f) ==
  /\ IF disk[Place(f)] = "free" THEN PoolStep(f, "choose", "link") /\ UNCHANGED index
     ELSE IF index[f] < MaxIndex
       THEN /\ PoolStep(f, "choose", "choose")
            /\ index' = [index EXCEPT ![f] = @ + 1]
       ELSE PoolStep(f, "choose", "failed") /\ UNCHANGED index
  /\ UNCHANGED <<name, disk, part, stagingVars>>

Put(p, x) == disk' = [disk EXCEPT ![p] = x]

\* Mutation: a rename in place of a hard link replaces what is there.
LinkOver(f) ==
  /\ PoolStep(f, "link", "unlink")
  /\ Put(Place(f), f)
  /\ UNCHANGED <<name, part, index, stagingVars>>

\* hard_link never replaces a file, and needs the staging file.  If the place
\* was taken since it was looked at, finalize_staged starts again: 10 000 times
\* at most, more than there are places that could have been taken meanwhile.
Link(f) ==
  /\ IF part[f] = "absent"
       THEN PoolStep(f, "link", "failed") /\ UNCHANGED <<disk, index>>
     ELSE IF disk[Place(f)] = "free"
       THEN PoolStep(f, "link", "unlink") /\ Put(Place(f), f) /\ UNCHANGED index
       ELSE /\ PoolStep(f, "link", "choose")
            /\ index' = [index EXCEPT ![f] = 0]
            /\ UNCHANGED disk
  /\ UNCHANGED <<name, part, stagingVars>>

\* A staging file that is gone already makes finalize_staged fail although the
\* file is in place.
Unlink(f) ==
  /\ PoolStep(f, "unlink", IF part[f] = "present" THEN "done" ELSE "failed")
  /\ part' = [part EXCEPT ![f] = "absent"]
  /\ UNCHANGED <<name, disk, index, stagingVars>>

PoolWorks(f) == StagingOpened(f) \/ Probe(f) \/ Link(f) \/ Unlink(f)

(***************************************************************************)
(* The user, at work in the same directory.                                *)
(***************************************************************************)
UserPuts(p) ==
  /\ disk[p] = "free"
  /\ Put(p, "user")
  /\ UNCHANGED <<name, part, pool, index, stagingVars>>

UserWorks == \E p \in UserPlaces : UserPuts(p)

StorageTypeOK ==
  /\ name \in [Files -> Names]
  /\ disk \in [Places -> Files \union {"free", "user"}]
  /\ part \in [Files -> {"absent", "present"}]
  /\ pool \in [Files -> {"idle", "open", "opened", "choose", "link", "unlink",
                         "done", "failed"}]
  /\ index \in [Files -> 0 .. MaxIndex]
  /\ cleaning \subseteq Files /\ missed \subseteq Files
=============================================================================
