-------------------------------- MODULE Peers --------------------------------
(***************************************************************************)
(* The peer list of a manager and what it is made from: the discovery task *)
(* (src/src/infrastructure/discovery.rs), upsert_peer, observe_incoming_   *)
(* peer and remove_peer (src/src/application/manager.rs:583-665), the      *)
(* receive policies (Policies) and the first part of an incoming offer,    *)
(* which reads pairing and policy and may be taken without asking          *)
(* (src/src/infrastructure/quic/receiver.rs:73-208).                       *)
(*                                                                         *)
(* Whoever looks a peer up reads its pairing, then its policy, then writes *)
(* the list or decides, with other tasks in between.  What the network     *)
(* knows, pairings and advertisements, changes at any time.                *)
(***************************************************************************)
EXTENDS Policies, FiniteSets

CONSTANTS
  Callers,  \* user interface calls of set_receive_policy
  Offers,   \* tasks of incoming offers
  MaxBusy   \* of those tasks, the discovery task and the disk, at work at a time

ASSUME PeersAssumption ==
  /\ Callers \union Offers = Tasks
  /\ Callers \intersect Offers = {}
  /\ "observer" \notin Tasks
  /\ MaxBusy \in Nat

Readers == Offers \union {"observer"}

VARIABLES
  paired,    \* the devices paired with the key they show, kept by the network
  named,     \* the devices paired with whatever key
  seen,      \* the devices that discovery shows
  reachable, \* those of them with an address
  unread,    \* the discovery task has not seen the last change
  list,      \* the peers shown, with the two flags of NearbyPeer
  phase,     \* the discovery task: idle, adding, removing
  visible,   \* the devices of the snapshot it works on
  todo,      \* the peers still to add or to remove
  look,      \* how far each reader is with a peer
  subject,   \* that peer
  found,     \* the pairing and policy it has read
  stage,     \* each offer: idle, observing, deciding, asking, setting,
             \* granted by the user or automatic
  trusted,   \* the peer was paired at some moment since the offer came
  silent     \* its policy was automatic at some moment since the offer came

networkVars == <<paired, named, seen, reachable, unread>>
observerVars == <<phase, visible, todo>>
sinceVars == <<trusted, silent>>
readVars == <<look, subject, found, sinceVars>>
peersVars == <<networkVars, observerVars, readVars, list, stage>>
vars == <<policyVars, peersVars>>

Unlisted == [listed |-> FALSE, paired |-> FALSE, automatic |-> FALSE]
Entry(isPaired, isAutomatic) ==
  [listed |-> TRUE, paired |-> isPaired, automatic |-> isAutomatic]
Listed == {p \in Peers : list[p].listed}

\* remove_peer asks for transfers with the peer that have not ended.
Active(p) ==
  \E o \in Offers : subject[o] = p /\ stage[o] \in {"asking", "setting", "granted", "automatic"}

Init ==
  /\ PoliciesInit
  /\ named \in SUBSET Peers /\ paired \in SUBSET named
  /\ seen = {} /\ reachable = {} /\ unread = TRUE
  /\ list = [p \in Peers |-> Unlisted]
  /\ phase = "idle" /\ visible = {} /\ todo = {}
  /\ look = [r \in Readers |-> "none"]
  /\ subject \in [Readers -> Peers]
  /\ found = [r \in Readers |-> Entry(FALSE, FALSE)]
  /\ stage = [o \in Offers |-> "idle"]
  /\ trusted = {}
  /\ silent = {}

\* The offers that have not been decided.
Open == {o \in Offers : stage[o] \in {"observing", "deciding"}}

(***************************************************************************)
(* An offer that waits for its user or for its end is not at work; the     *)
(* disk is while it owes a rename or has yet to be given a policy again.   *)
(***************************************************************************)
Busy ==
  {c \in Callers : call[c] # "none"}
    \union {o \in Offers : stage[o] \in {"observing", "deciding", "setting"}}
    \union {r \in {"disk"} : late # {} \/ ~saved}
    \union {r \in {"observer"} : unread \/ phase # "idle"}

Room(w) == Cardinality(Busy \union {w}) <= MaxBusy

(***************************************************************************)
(* The network.                                                            *)
(***************************************************************************)
\* A device is paired, forgotten, or shows another key.
ChangePairing(p) ==
  /\ named' \in {named \ {p}, named \union {p}}
  /\ paired' \in {paired \ {p}, paired \union {p}}
  /\ paired' \subseteq named'
  /\ trusted' = IF p \in paired' THEN trusted \union {o \in Open : subject[o] = p} ELSE trusted
  /\ UNCHANGED <<policyVars, seen, reachable, unread, observerVars,
                 look, subject, found, silent, list, stage>>

Publish ==
  /\ Room("observer")
  /\ seen' \in SUBSET Peers
  /\ reachable' \in SUBSET seen'
  /\ unread' = TRUE
  /\ UNCHANGED <<policyVars, paired, named, observerVars, readVars, list, stage>>

(***************************************************************************)
(* Looking a peer up: is_paired_peer, then policies.policy if it is.       *)
(***************************************************************************)
LookUp(r, p) ==
  /\ look' = [look EXCEPT ![r] = "pairing"]
  /\ subject' = [subject EXCEPT ![r] = p]
  /\ UNCHANGED found

\* What was read ends with the task that read it.
Forget(r) == found' = [found EXCEPT ![r] = Entry(FALSE, FALSE)]

ReadPairing(r) ==
  LET isPaired == subject[r] \in paired
  IN  /\ look[r] = "pairing"
      /\ look' = [look EXCEPT ![r] = IF isPaired THEN "policy" ELSE "known"]
      /\ found' = [found EXCEPT ![r] = Entry(isPaired, FALSE)]
      /\ UNCHANGED <<policyVars, networkVars, observerVars, subject, list, stage, sinceVars>>

ReadPolicy(r) ==
  /\ look[r] = "policy"
  /\ guard = "none"
  /\ look' = [look EXCEPT ![r] = "known"]
  /\ found' = [found EXCEPT ![r] = Entry(TRUE, memory[subject[r]] = "automatic")]
  /\ UNCHANGED <<policyVars, networkVars, observerVars, subject, list, stage, sinceVars>>

\* Mutation: a peer that is listed keeps its flags.
KeepEntry(r) ==
  list' = [list EXCEPT ![subject[r]] = IF @ = Unlisted THEN found[r] ELSE @]

WriteEntry(r) == list' = [list EXCEPT ![subject[r]] = found[r]]

(***************************************************************************)
(* The discovery task: every device with an address is written, then peers *)
(* that the snapshot does not show are removed.                            *)
(***************************************************************************)
TakeSnapshot ==
  /\ phase = "idle"
  /\ unread
  /\ unread' = FALSE
  /\ phase' = "adding"
  /\ visible' = seen
  /\ todo' = reachable
  /\ UNCHANGED <<policyVars, paired, named, seen, reachable, readVars, list, stage>>

AddNext(p) ==
  /\ phase = "adding"
  /\ look["observer"] = "none"
  /\ p \in todo
  /\ todo' = todo \ {p}
  /\ LookUp("observer", p)
  /\ UNCHANGED <<policyVars, networkVars, phase, visible, list, stage, sinceVars>>

Upsert ==
  /\ look["observer"] = "known"
  /\ WriteEntry("observer")
  /\ Forget("observer")
  /\ look' = [look EXCEPT !["observer"] = "none"]
  /\ UNCHANGED <<policyVars, networkVars, observerVars, subject, stage, sinceVars>>

\* The pairings cannot be read: the next device's turn.
SkipDevice ==
  /\ look["observer"] = "pairing"
  /\ Fault
  /\ look' = [look EXCEPT !["observer"] = "none"]
  /\ UNCHANGED <<memory, file, guard, call, arg, writeVars,
                 networkVars, observerVars, subject, found, list, stage, sinceVars>>

AllAdded ==
  /\ phase = "adding"
  /\ todo = {}
  /\ look["observer"] = "none"
  /\ phase' = "removing"
  /\ todo' = Listed \ visible
  /\ UNCHANGED <<policyVars, networkVars, readVars, visible, list, stage>>

Remove(p) ==
  /\ phase = "removing"
  /\ p \in todo
  /\ todo' = todo \ {p}
  /\ list' = [list EXCEPT ![p] = IF Active(p) THEN @ ELSE Unlisted]
  /\ UNCHANGED <<policyVars, networkVars, readVars, phase, visible, stage>>

AllRemoved ==
  /\ phase = "removing"
  /\ todo = {}
  /\ phase' = "idle"
  /\ visible' = {}
  /\ UNCHANGED <<policyVars, networkVars, readVars, todo, list, stage>>

Observer ==
  \/ TakeSnapshot \/ Upsert \/ SkipDevice \/ AllAdded \/ AllRemoved
  \/ ReadPairing("observer") \/ ReadPolicy("observer")
  \/ \E p \in Peers : AddNext(p) \/ Remove(p)

(***************************************************************************)
(* set_receive_policy, by the user interface and by an accepted offer.     *)
(***************************************************************************)
\* It is refused for a peer that is not paired, whatever the key.
CallSetPolicy(c, p, v) ==
  /\ Room(c)
  /\ p \in named
  /\ BeginCall(c, p, v)
  /\ UNCHANGED <<memory, file, guard, faults, writeVars, peersVars>>

\* The peer is shown with its policy, if it is listed, and the call returns.
ShowPolicy(w) ==
  LET p == arg[w][1]
  IN  /\ call[w] = "show"
      /\ EndCall(w)
      /\ list' = IF p \in Listed
           THEN [list EXCEPT ![p] = Entry(@.paired, arg[w][2] = "automatic")]
           ELSE list
      /\ UNCHANGED <<memory, file, guard, faults, writeVars>>

SetPolicy(w) ==
  /\ Insert(w)
  /\ silent' = silent \union {o \in Open : memory'[subject[o]] = "automatic"}
  /\ UNCHANGED <<networkVars, observerVars, look, subject, found, trusted, list, stage>>

SaveSteps(w) ==
  \/ SetPolicy(w)
  \/ (Persist(w) \/ Written(w)) /\ UNCHANGED peersVars

CallerSteps(c) ==
  \/ SaveSteps(c)
  \/ WriteFails(c) /\ UNCHANGED peersVars
  \/ ShowPolicy(c) /\ UNCHANGED <<networkVars, observerVars, readVars, stage>>

(***************************************************************************)
(* An incoming offer.                                                      *)
(***************************************************************************)
To(o, from, to) == stage[o] = from /\ stage' = [stage EXCEPT ![o] = to]

Arrive(o, p) ==
  /\ Room(o)
  /\ To(o, "idle", "observing")
  /\ LookUp(o, p)
  /\ trusted' = IF p \in paired THEN trusted \union {o} ELSE trusted
  /\ silent' = IF memory[p] = "automatic" THEN silent \union {o} ELSE silent
  /\ UNCHANGED <<policyVars, networkVars, observerVars, list>>

\* observe_incoming_peer; then the offer looks once more for itself.
ObserveIncoming(o) ==
  /\ look[o] = "known"
  /\ To(o, "observing", "deciding")
  /\ WriteEntry(o)
  /\ LookUp(o, subject[o])
  /\ UNCHANGED <<policyVars, networkVars, observerVars, sinceVars>>

EndSince(o) == trusted' = trusted \ {o} /\ silent' = silent \ {o}

\* Mutation: the flag of the list decides.
ShownAutomatic(o) == list[subject[o]].automatic

MayReceiveSilently(o) == found[o] = Entry(TRUE, TRUE)

Decide(o) ==
  /\ look[o] = "known"
  /\ look' = [look EXCEPT ![o] = "none"]
  /\ IF MayReceiveSilently(o)
       THEN To(o, "deciding", "automatic") /\ UNCHANGED sinceVars
       ELSE To(o, "deciding", "asking") /\ EndSince(o)
  /\ UNCHANGED <<policyVars, networkVars, observerVars, subject, found, list>>

\* The user accepts, for this time or always; the latter sets the policy if the
\* peer was paired when the offer came, and fails the transfer if it cannot.
Accept(o, always) ==
  IF always /\ found[o].paired
    THEN IF subject[o] \in named
      THEN /\ Room(o)
           /\ To(o, "asking", "setting")
           /\ BeginCall(o, subject[o], "automatic")
           /\ UNCHANGED <<memory, file, guard, faults, writeVars,
                          networkVars, observerVars, readVars, list>>
      ELSE /\ To(o, "asking", "idle")
           /\ Forget(o)
           /\ UNCHANGED <<policyVars, networkVars, observerVars, look, subject, list, sinceVars>>
    ELSE /\ To(o, "asking", "granted")
         /\ UNCHANGED <<policyVars, networkVars, observerVars, readVars, list>>

PolicySet(o) ==
  /\ To(o, "setting", "granted")
  /\ ShowPolicy(o)
  /\ UNCHANGED <<networkVars, observerVars, readVars>>

PolicyNotSet(o) ==
  /\ To(o, "setting", "idle")
  /\ WriteFails(o)
  /\ Forget(o)
  /\ UNCHANGED <<networkVars, observerVars, look, subject, list, sinceVars>>

\* The transfer ends, or fails as the pairings cannot be read: the task stops
\* wherever it is.
Leave(o) ==
  /\ stage[o] # "idle"
  /\ stage' = [stage EXCEPT ![o] = "idle"]
  /\ look' = [look EXCEPT ![o] = "none"]
  /\ Forget(o)
  /\ EndSince(o)
  /\ DropCall(o)
  /\ UNCHANGED <<networkVars, observerVars, subject, list>>

OfferSteps(o) ==
  \/ ReadPairing(o) \/ ReadPolicy(o) \/ ObserveIncoming(o) \/ Decide(o)
  \/ SaveSteps(o) \/ PolicySet(o) \/ PolicyNotSet(o)

Restart ==
  /\ RestartPolicies
  /\ list' = [p \in Peers |-> Unlisted]
  /\ seen' = {} /\ reachable' = {} /\ unread' = TRUE
  /\ phase' = "idle" /\ visible' = {} /\ todo' = {}
  /\ look' = [r \in Readers |-> "none"]
  /\ found' = [r \in Readers |-> Entry(FALSE, FALSE)]
  /\ stage' = [o \in Offers |-> "idle"]
  /\ trusted' = {} /\ silent' = {}
  /\ UNCHANGED <<paired, named, subject>>

CallersWork == \E c \in Callers : CallerSteps(c)
OffersWork == \E o \in Offers : OfferSteps(o)
PoolWorks == LateRename /\ UNCHANGED peersVars

Environment ==
  \/ Publish \/ Restart
  \/ \E p \in Peers : ChangePairing(p)
  \/ \E c \in Callers, p \in Peers, v \in Policy : CallSetPolicy(c, p, v)
  \/ \E o \in Offers, p \in Peers : Arrive(o, p)
  \/ \E o \in Offers, always \in BOOLEAN : Accept(o, always)
  \/ \E o \in Offers : Leave(o)

Next == Observer \/ CallersWork \/ OffersWork \/ PoolWorks \/ Environment

(***************************************************************************)
(* The runtime polls every task that can go on.  tokio's lock is handed on *)
(* in the order of the calls, so nobody waits for it for ever.             *)
(***************************************************************************)
Fairness ==
  /\ SF_vars(Observer)
  /\ \A c \in Callers : SF_vars(CallerSteps(c))
  /\ \A o \in Offers : SF_vars(OfferSteps(o))

Spec == Init /\ [][Next]_vars /\ Fairness

Entries == {Entry(a, b) : a \in BOOLEAN, b \in BOOLEAN}

TypeOK ==
  /\ PoliciesTypeOK
  /\ paired \subseteq named /\ named \subseteq Peers
  /\ reachable \subseteq seen /\ seen \subseteq Peers
  /\ unread \in BOOLEAN
  /\ list \in [Peers -> Entries \union {Unlisted}]
  /\ phase \in {"idle", "adding", "removing"}
  /\ visible \subseteq Peers /\ todo \subseteq Peers
  /\ look \in [Readers -> {"none", "pairing", "policy", "known"}]
  /\ subject \in [Readers -> Peers]
  /\ found \in [Readers -> Entries]
  /\ stage \in [Offers -> {"idle", "observing", "deciding", "asking", "setting",
                           "granted", "automatic"}]
  /\ trusted \subseteq Offers /\ silent \subseteq Offers

(***************************************************************************)
(* An offer is taken without asking only if its sender has been paired and *)
(* its policy automatic since it came, whatever the list shows.            *)
(***************************************************************************)
SilentOnlyIfTrusted ==
  \A o \in Offers : stage[o] = "automatic" => o \in trusted \intersect silent

(***************************************************************************)
(* The list shows what it is made from once that stays as it is and        *)
(* discovery goes on: stale flags of calls that overlapped are corrected,  *)
(* peers that have gone are removed.  Calls may go on but for those about  *)
(* a peer whose pairing has another key: set_receive_policy takes it for   *)
(* paired and shows it as automatic until discovery next writes it.        *)
(***************************************************************************)
Shown(p) ==
  /\ p \in reachable =>
       list[p] = Entry(p \in paired, p \in paired /\ memory[p] = "automatic")
  /\ p \notin seen /\ ~Active(p) => list[p] = Unlisted

Steady ==
  /\ ~Restart
  /\ UNCHANGED <<paired, seen, reachable, memory, stage>>
  /\ \A c \in Callers : call[c] # "none" => arg[c][1] \in paired

ListSettles ==
  (<>[][Steady]_vars /\ []<>unread /\ []<>~unread) => <>[](\A p \in Peers : Shown(p))
=============================================================================
