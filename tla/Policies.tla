------------------------------ MODULE Policies ------------------------------
(***************************************************************************)
(* The receive policies of a manager: JsonReceivePolicyRepository (src/src/ *)
(* infrastructure/persistence.rs:123-204) under concurrent calls of        *)
(* set_receive_policy (src/src/application/manager.rs:538-566), one access  *)
(* to the map, its lock or the file per action.                            *)
(*                                                                         *)
(* A call that finds its peer paired goes  insert -> persist -> write ->   *)
(* show.  The map is changed first and written afterwards, as a whole and  *)
(* with its lock held.                                                     *)
(***************************************************************************)
EXTENDS Naturals

CONSTANTS
  Peers,    \* the devices
  Tasks,    \* who may call set_receive_policy
  MaxFaults \* failures of file system and network, calls dropped as they write

ASSUME PoliciesAssumption ==
  /\ "none" \notin Tasks
  /\ MaxFaults \in Nat

Policy == {"ask", "automatic"}

\* A map without entries: policy() is AskEveryTime for whoever has none.
NoEntries == [p \in Peers |-> "ask"]

VARIABLES
  memory,    \* the map `values`
  file,      \* receive-policies.json, replaced by a rename
  guard,     \* the task that holds the lock of the map
  call,      \* the place of each task in set_receive_policy
  arg,       \* the peer and the policy it was called with
  copy,      \* what it writes
  late,      \* renames the blocking pool still owes to dropped calls
  saved,     \* the last save went well and nothing has come after it
  faults     \* failures to come

policyVars ==
  <<memory, file, guard, call, arg, copy, late, saved, faults>>

\* What a write of another task does not touch.
writeVars == <<copy, late, saved>>

PoliciesInit ==
  /\ memory \in [Peers -> Policy]
  /\ file = memory
  /\ guard = "none"
  /\ call = [w \in Tasks |-> "none"]
  /\ arg \in [Tasks -> {<<p, "ask">> : p \in Peers}]
  /\ copy = [w \in Tasks |-> NoEntries]
  /\ late = {}
  /\ saved = TRUE
  /\ faults = MaxFaults

Fault == faults > 0 /\ faults' = faults - 1

CallStep(w, from, to) == call[w] = from /\ call' = [call EXCEPT ![w] = to]

\* The arguments and what was copied end with the call.
EndCall(w) ==
  /\ call' = [call EXCEPT ![w] = "none"]
  /\ arg' = [arg EXCEPT ![w] = <<arg[w][1], "ask">>]

\* The pairing has been checked.
BeginCall(w, p, v) ==
  /\ CallStep(w, "none", "insert")
  /\ arg' = [arg EXCEPT ![w] = <<p, v>>]

\* set_policy: the map is changed under its lock.
Insert(w) ==
  /\ guard = "none"
  /\ CallStep(w, "insert", "persist")
  /\ memory' = [memory EXCEPT ![arg[w][1]] = arg[w][2]]
  /\ UNCHANGED <<file, guard, arg, faults, writeVars>>

\* Mutation: the lock is given back before the file is written.
NoGuard(w) == UNCHANGED guard

\* persist holds the lock until the file is written.
TakeGuard(w) == guard' = w

Persist(w) ==
  /\ guard = "none"
  /\ CallStep(w, "persist", "write")
  /\ TakeGuard(w)
  /\ copy' = [copy EXCEPT ![w] = memory]
  /\ UNCHANGED <<memory, file, arg, late, saved, faults>>

\* atomic_write: a temporary file takes the place of the old one.
Written(w) ==
  /\ CallStep(w, "write", "show")
  /\ file' = copy[w]
  /\ guard' = "none"
  /\ saved' = TRUE
  /\ copy' = [copy EXCEPT ![w] = NoEntries]
  /\ UNCHANGED <<memory, arg, late, faults>>

\* The map keeps what the file did not take.
WriteFails(w) ==
  /\ call[w] = "write"
  /\ EndCall(w)
  /\ Fault
  /\ guard' = "none"
  /\ saved' = FALSE
  /\ copy' = [copy EXCEPT ![w] = NoEntries]
  /\ UNCHANGED <<memory, file, late>>

Saving == {w \in Tasks : call[w] \in {"persist", "write"}}

\* Mutation: the lock stays with a caller that is gone.
KeepGuard(w) == UNCHANGED guard

\* The guard of the lock is dropped with its holder.
Release(w) == guard' = IF guard = w THEN "none" ELSE guard

\* The caller is dropped: the lock is free again, a rename that has been handed
\* to the blocking pool by then goes on.
DropCall(w) ==
  /\ EndCall(w)
  /\ copy' = [copy EXCEPT ![w] = NoEntries]
  /\ Release(w)
  /\ saved' = (saved /\ w \notin Saving)
  /\ \/ call[w] = "write" /\ Fault /\ late' = late \union {copy[w]}
     \/ UNCHANGED <<faults, late>>
  /\ UNCHANGED <<memory, file>>

LateRename ==
  /\ \E old \in late : file' = old /\ late' = late \ {old}
  /\ saved' = FALSE
  /\ UNCHANGED <<memory, guard, call, arg, copy, faults>>

\* The process ends at any point and starts again.
RestartPolicies ==
  /\ memory' = file
  /\ guard' = "none"
  /\ call' = [w \in Tasks |-> "none"]
  /\ arg' = [w \in Tasks |-> <<arg[w][1], "ask">>]
  /\ copy' = [w \in Tasks |-> NoEntries]
  /\ late' = {}
  /\ saved' = TRUE
  /\ UNCHANGED <<file, faults>>

PoliciesTypeOK ==
  /\ memory \in [Peers -> Policy]
  /\ file \in [Peers -> Policy]
  /\ guard \in Tasks \union {"none"}
  /\ \A w \in Tasks : guard = w <=> call[w] = "write"
  /\ call \in [Tasks -> {"none", "insert", "persist", "write", "show"}]
  /\ arg \in [Tasks -> Peers \X Policy]
  /\ copy \in [Tasks -> [Peers -> Policy]]
  /\ late \subseteq [Peers -> Policy]
  /\ saved \in BOOLEAN
  /\ faults \in 0 .. MaxFaults

(***************************************************************************)
(* What a restart finds is what the manager goes by, unless the last save  *)
(* failed or was given up half-way, or the rename of a call given up came  *)
(* after it: two calls at once save what both have set, in either order.   *)
(***************************************************************************)
PolicyIsPersisted ==
  Saving = {} /\ saved => file = memory
=============================================================================
