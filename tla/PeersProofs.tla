---------------------------- MODULE PeersProofs ----------------------------
(***************************************************************************)
(* Peers proved for any number of devices, calls, offers and failures: the *)
(* policies a restart finds, and what an offer that was taken without      *)
(* asking can rely on.                                                     *)
(***************************************************************************)
EXTENDS Peers, TLAPS

\* What is written is what the map holds: the lock is kept as long as a write
\* lasts, and the map changes under it.
CopyIsCurrent == \A w \in Tasks : call[w] = "write" => copy[w] = memory

\* A reader that is an offer has not decided yet.
ReadersAreOpen == \A o \in Offers : look[o] # "none" => o \in Open

\* What an offer has read was true at some moment since it came; what holds
\* now has been noted.
ReadSinceArrival ==
  \A o \in Open :
    /\ subject[o] \in paired => o \in trusted
    /\ memory[subject[o]] = "automatic" => o \in silent
    /\ look[o] = "policy" => o \in trusted
    /\ look[o] = "known" /\ found[o].paired => o \in trusted
    /\ look[o] = "known" /\ found[o].automatic => o \in silent

Inv ==
  /\ TypeOK
  /\ CopyIsCurrent
  /\ PolicyIsPersisted
  /\ ReadersAreOpen
  /\ ReadSinceArrival
  /\ SilentOnlyIfTrusted

PolicyInv == PoliciesTypeOK /\ CopyIsCurrent /\ PolicyIsPersisted

(***************************************************************************)
(* What a step of Peers does to the policies.                              *)
(***************************************************************************)
\* The file and network fail, or nothing happens to the policies.
FaultOnly ==
  /\ UNCHANGED <<memory, file, guard, call, arg, writeVars>>
  /\ Fault \/ UNCHANGED faults

Begins(w) ==
  \E p \in Peers, v \in Policy :
    BeginCall(w, p, v) /\ UNCHANGED <<memory, file, guard, faults, writeVars>>

Returns(w) ==
  call[w] = "show" /\ EndCall(w) /\ UNCHANGED <<memory, file, guard, faults, writeVars>>

PolicyStep(w) ==
  \/ Begins(w) \/ Insert(w) \/ Persist(w) \/ Written(w)
  \/ WriteFails(w) \/ Returns(w) \/ DropCall(w)

LEMMA PolicyMoves ==
  ASSUME TypeOK, [Next]_vars
  PROVE  \/ FaultOnly \/ LateRename \/ RestartPolicies
         \/ \E w \in Tasks : PolicyStep(w)
<1> USE DEF FaultOnly, policyVars, writeVars
<1>1. CASE UNCHANGED vars
  BY <1>1 DEF vars
<1>2. CASE Observer
  <2>1. CASE SkipDevice
    BY <2>1 DEF SkipDevice
  <2>2. CASE ~SkipDevice
    BY <1>2, <2>2 DEF Observer, TakeSnapshot, Upsert, AllAdded, AllRemoved,
       ReadPairing, ReadPolicy, AddNext, Remove
  <2> QED
    BY <2>1, <2>2
<1>3. ASSUME NEW w \in Tasks, SaveSteps(w)
      PROVE  PolicyStep(w)
  BY <1>3 DEF SaveSteps, SetPolicy, PolicyStep
<1>4. ASSUME NEW c \in Callers, CallerSteps(c)
      PROVE  c \in Tasks /\ PolicyStep(c)
  <2>1. c \in Tasks
    BY PeersAssumption
  <2> QED
    BY <1>3, <1>4, <2>1 DEF CallerSteps, ShowPolicy, Returns, PolicyStep
<1>5. ASSUME NEW o \in Offers, OfferSteps(o)
      PROVE  FaultOnly \/ (o \in Tasks /\ PolicyStep(o))
  <2>1. o \in Tasks
    BY PeersAssumption
  <2>2. CASE ReadPairing(o) \/ ReadPolicy(o) \/ ObserveIncoming(o) \/ Decide(o)
    <3>1. UNCHANGED policyVars
      BY <2>2, Zenon DEF ReadPairing, ReadPolicy, ObserveIncoming, Decide
    <3> QED
      BY <3>1
  <2>3. CASE PolicySet(o) \/ PolicyNotSet(o)
    <3>1. PolicySet(o) => Returns(o)
      BY Zenon DEF PolicySet, ShowPolicy, Returns
    <3>2. PolicyNotSet(o) => WriteFails(o)
      BY DEF PolicyNotSet
    <3> QED
      BY <2>1, <2>3, <3>1, <3>2 DEF PolicyStep
  <2> QED
    BY <1>3, <1>5, <2>1, <2>2, <2>3 DEF OfferSteps
<1>6. CASE PoolWorks
  BY <1>6 DEF PoolWorks
<1>7. CASE Environment
  <2>1. CASE Publish \/ \E p \in Peers : ChangePairing(p)
    BY <2>1 DEF Publish, ChangePairing
  <2>2. CASE Restart
    BY <2>2 DEF Restart
  <2>3. ASSUME NEW c \in Callers, NEW p \in Peers, NEW v \in Policy, CallSetPolicy(c, p, v)
        PROVE  c \in Tasks /\ PolicyStep(c)
    BY <2>3, PeersAssumption DEF CallSetPolicy, Begins, PolicyStep
  <2>4. ASSUME NEW o \in Offers, NEW p \in Peers, Arrive(o, p)
        PROVE  FaultOnly
    BY <2>4 DEF Arrive
  <2>5. ASSUME NEW o \in Offers, NEW always \in BOOLEAN, Accept(o, always)
        PROVE  FaultOnly \/ (o \in Tasks /\ PolicyStep(o))
    <3>1. subject[o] \in Peers /\ "automatic" \in Policy
      BY DEF TypeOK, Readers, Policy
    <3>2. ASSUME BeginCall(o, subject[o], "automatic"),
                 UNCHANGED <<memory, file, guard, faults, writeVars>>
          PROVE  Begins(o)
      BY <3>1, <3>2, Zenon DEF Begins
    <3>3. FaultOnly \/ Begins(o)
      <4>1. CASE always /\ found[o].paired /\ subject[o] \in named
        <5>1. BeginCall(o, subject[o], "automatic")
              /\ UNCHANGED <<memory, file, guard, faults, writeVars,
                             networkVars, observerVars, readVars, list>>
          BY <2>5, <4>1, Zenon DEF Accept
        <5> QED
          BY <3>2, <5>1 DEF writeVars
      <4>2. CASE ~(always /\ found[o].paired /\ subject[o] \in named)
        <5>1. UNCHANGED <<policyVars, networkVars>>
          BY <2>5, <4>2 DEF Accept
        <5> QED
          BY <5>1
      <4> QED
        BY <4>1, <4>2
    <3> QED
      BY <3>3, PeersAssumption DEF PolicyStep
  <2>6. ASSUME NEW o \in Offers, Leave(o)
        PROVE  o \in Tasks /\ PolicyStep(o)
    BY <2>6, PeersAssumption DEF Leave, PolicyStep
  <2> QED
    BY <1>7, <2>1, <2>2, <2>3, <2>4, <2>5, <2>6 DEF Environment
<1> QED
  BY <1>1, <1>2, <1>4, <1>5, <1>6, <1>7 DEF Next, CallersWork, OffersWork

(***************************************************************************)
(* The lock, the copy and the file under each of these steps               *)
(* (persistence.rs:146-204).                                               *)
(***************************************************************************)
LEMMA PolicyInvInit ==
  ASSUME PoliciesInit
  PROVE  PolicyInv
<1>1. \A p \in Peers : <<p, "ask">> \in Peers \X Policy
  BY DEF Policy
<1>2. arg \in [Tasks -> Peers \X Policy]
  BY <1>1 DEF PoliciesInit
<1> QED
  BY <1>2, PoliciesAssumption DEF PoliciesInit, PolicyInv, PoliciesTypeOK, NoEntries, Policy,
     CopyIsCurrent, PolicyIsPersisted

LEMMA PolicyInvStep ==
  ASSUME PolicyInv, NEW w \in Tasks, PolicyStep(w)
  PROVE  PolicyInv'
<1> USE PoliciesAssumption
<1> DEFINE Locked == \A v \in Tasks : guard = v <=> call[v] = "write"
<1> USE DEF PolicyInv, PoliciesTypeOK, CopyIsCurrent, PolicyIsPersisted, writeVars, CallStep
<1>1. CASE Begins(w)
  BY <1>1 DEF Begins, BeginCall, Saving
<1>2. CASE Insert(w)
  <2>1. arg[w][1] \in Peers /\ arg[w][2] \in Policy
    OBVIOUS
  <2>2. w \in Saving'
    BY <1>2 DEF Insert, Saving
  <2>3. PoliciesTypeOK'
    BY <1>2, <2>1 DEF Insert
  <2>4. CopyIsCurrent'
    BY <1>2 DEF Insert
  <2> QED
    BY <2>2, <2>3, <2>4
<1>3. CASE Persist(w)
  <2>1. w \in Saving'
    BY <1>3 DEF Persist, Saving
  <2>2. PoliciesTypeOK'
    <3>1. Locked'
      BY <1>3 DEF Persist, TakeGuard
    <3>2. call' \in [Tasks -> {"none", "insert", "persist", "write", "show"}]
      BY <1>3 DEF Persist
    <3>3. copy' \in [Tasks -> [Peers -> Policy]]
      BY <1>3 DEF Persist
    <3> QED
      BY <1>3, <3>1, <3>2, <3>3 DEF Persist, TakeGuard
  <2>3. CopyIsCurrent'
    BY <1>3 DEF Persist
  <2> QED
    BY <2>1, <2>2, <2>3
<1>4. CASE Written(w)
  <2>1. PoliciesTypeOK'
    <3>1. Locked'
      BY <1>4 DEF Written
    <3>2. NoEntries \in [Peers -> Policy]
      BY DEF NoEntries, Policy
    <3>3. copy' \in [Tasks -> [Peers -> Policy]]
      BY <1>4, <3>2 DEF Written
    <3>4. file' \in [Peers -> Policy]
      BY <1>4 DEF Written
    <3> QED
      BY <1>4, <3>1, <3>3, <3>4 DEF Written
  <2>2. CopyIsCurrent'
    BY <1>4 DEF Written
  <2>3. file' = memory'
    BY <1>4 DEF Written
  <2> QED
    BY <2>1, <2>2, <2>3
<1>5. ASSUME EndCall(w)
      PROVE  arg' \in [Tasks -> Peers \X Policy]
  BY <1>5 DEF EndCall, Policy
<1>6. CASE WriteFails(w)
  <2>1. faults' \in 0 .. MaxFaults
    BY <1>6, PoliciesAssumption DEF WriteFails, Fault
  <2>2. PoliciesTypeOK'
    <3>1. Locked'
      BY <1>6 DEF WriteFails, EndCall
    <3>2. NoEntries \in [Peers -> Policy]
      BY DEF NoEntries, Policy
    <3>3. copy' \in [Tasks -> [Peers -> Policy]]
      BY <1>6, <3>2 DEF WriteFails
    <3>4. call' \in [Tasks -> {"none", "insert", "persist", "write", "show"}]
      BY <1>6 DEF WriteFails, EndCall
    <3>5. arg' \in [Tasks -> Peers \X Policy]
      BY <1>5, <1>6 DEF WriteFails
    <3> QED
      BY <1>6, <2>1, <3>1, <3>3, <3>4, <3>5 DEF WriteFails
  <2>3. CopyIsCurrent'
    BY <1>6 DEF WriteFails, EndCall
  <2> QED
    BY <1>6, <2>2, <2>3 DEF WriteFails
<1>7. CASE Returns(w)
  BY <1>5, <1>7 DEF Returns, EndCall, Saving
<1>8. CASE DropCall(w)
  <2>1. late' \subseteq [Peers -> Policy] /\ faults' \in 0 .. MaxFaults
    <3>1. copy[w] \in [Peers -> Policy]
      OBVIOUS
    <3>2. faults' \in 0 .. MaxFaults
      BY <1>8, PoliciesAssumption DEF DropCall, Fault
    <3> QED
      BY <1>8, <3>1, <3>2 DEF DropCall
  <2>2. saved' => w \notin Saving
    BY <1>8 DEF DropCall
  <2>3. w \notin Saving => Saving' = Saving
    BY <1>8 DEF DropCall, EndCall, Saving
  <2>4. PoliciesTypeOK'
    <3>1. Locked' /\ guard' \in Tasks \union {"none"}
      BY <1>8 DEF DropCall, EndCall, Release
    <3>2. NoEntries \in [Peers -> Policy]
      BY DEF NoEntries, Policy
    <3>3. copy' \in [Tasks -> [Peers -> Policy]]
      BY <1>8, <3>2 DEF DropCall
    <3>4. call' \in [Tasks -> {"none", "insert", "persist", "write", "show"}]
      BY <1>8 DEF DropCall, EndCall
    <3>5. arg' \in [Tasks -> Peers \X Policy]
      BY <1>5, <1>8 DEF DropCall
    <3> QED
      BY <1>8, <2>1, <3>1, <3>3, <3>4, <3>5 DEF DropCall
  <2>5. CopyIsCurrent'
    BY <1>8 DEF DropCall, EndCall
  <2> QED
    BY <1>8, <2>2, <2>3, <2>4, <2>5 DEF DropCall
<1> QED
  BY <1>1, <1>2, <1>3, <1>4, <1>6, <1>7, <1>8 DEF PolicyStep

LEMMA PolicyInvNext ==
  ASSUME TypeOK, PolicyInv, [Next]_vars
  PROVE  PolicyInv'
<1> USE DEF PolicyInv, PoliciesTypeOK, CopyIsCurrent, PolicyIsPersisted
<1>1. CASE FaultOnly
  BY <1>1, PoliciesAssumption DEF FaultOnly, Fault, writeVars, Saving
<1>2. CASE LateRename
  BY <1>2 DEF LateRename
<1>3. CASE RestartPolicies
  BY <1>3, PoliciesAssumption DEF RestartPolicies, NoEntries, Policy
<1>4. ASSUME NEW w \in Tasks, PolicyStep(w)
      PROVE  PolicyInv'
  BY <1>4, PolicyInvStep
<1> QED
  BY <1>1, <1>2, <1>3, <1>4, PolicyMoves

(***************************************************************************)
(* The types of what Peers adds to the policies.                           *)
(***************************************************************************)
PeersTypeOK ==
  /\ paired \subseteq named /\ named \subseteq Peers
  /\ reachable \subseteq seen /\ seen \subseteq Peers
  /\ unread \in BOOLEAN
  /\ list \in [Peers -> Entries \union {Unlisted}]
  /\ phase \in {"idle", "adding", "removing"}
  /\ visible \subseteq Peers /\ todo \subseteq Peers
  /\ look \in [Readers -> {"none", "pairing", "policy", "known"}]
  /\ subject \in [Readers -> Peers]
  /\ found \in [Readers -> Entries]
  /\ stage \in [Offers -> {"idle", "observing", "deciding", "asking", "setting",
                           "granted", "automatic"}]
  /\ trusted \subseteq Offers /\ silent \subseteq Offers

LEMMA Types == TypeOK <=> PoliciesTypeOK /\ PeersTypeOK
  BY DEF TypeOK, PeersTypeOK

LEMMA EntryType ==
  ASSUME NEW a \in BOOLEAN, NEW b \in BOOLEAN
  PROVE  /\ Entry(a, b) \in Entries
         /\ Entry(a, b).paired = a
         /\ Entry(a, b).automatic = b
<1>1. Entry(a, b) \in Entries
  BY DEF Entries
<1>2. Entry(a, b).paired = a /\ Entry(a, b).automatic = b
  BY DEF Entry
<1> QED
  BY <1>1, <1>2

LEMMA ReadersType == Offers \subseteq Readers /\ "observer" \in Readers
  BY DEF Readers

\* Whoever reads: the discovery task and the offers.
LEMMA ReaderTypes ==
  ASSUME PeersTypeOK, NEW r \in Readers, ReadPairing(r) \/ ReadPolicy(r)
  PROVE  PeersTypeOK'
<1>1. CASE ReadPairing(r)
  <2>1. found' \in [Readers -> Entries]
    <3>1. Entry(subject[r] \in paired, FALSE) \in Entries
      <4>1. (subject[r] \in paired) \in BOOLEAN
        OBVIOUS
      <4> QED
        BY <4>1, EntryType, Zenon
    <3>2. found' = [found EXCEPT ![r] = Entry(subject[r] \in paired, FALSE)]
      BY <1>1, Zenon DEF ReadPairing
    <3> QED
      BY <3>1, <3>2 DEF PeersTypeOK
  <2>2. look' \in [Readers -> {"none", "pairing", "policy", "known"}]
    BY <1>1 DEF ReadPairing, PeersTypeOK
  <2> QED
    BY <1>1, <2>1, <2>2 DEF ReadPairing, PeersTypeOK, networkVars, observerVars, sinceVars
<1>2. CASE ReadPolicy(r)
  <2>1. found' \in [Readers -> Entries]
    BY <1>2, EntryType DEF ReadPolicy, PeersTypeOK
  <2>2. look' \in [Readers -> {"none", "pairing", "policy", "known"}]
    BY <1>2 DEF ReadPolicy, PeersTypeOK
  <2> QED
    BY <1>2, <2>1, <2>2 DEF ReadPolicy, PeersTypeOK, networkVars, observerVars, sinceVars
<1> QED
  BY <1>1, <1>2

\* The entry of the list and the record of what was read (manager.rs:583-652).
LEMMA WriteTypes ==
  ASSUME PeersTypeOK, NEW r \in Readers
  PROVE  /\ WriteEntry(r) => list' \in [Peers -> Entries \union {Unlisted}]
         /\ Forget(r) => found' \in [Readers -> Entries]
         /\ \A p \in Peers, q \in {"pairing", "none"} :
              /\ [look EXCEPT ![r] = q] \in [Readers -> {"none", "pairing", "policy", "known"}]
              /\ [subject EXCEPT ![r] = p] \in [Readers -> Peers]
<1>1. subject[r] \in Peers /\ found[r] \in Entries
  BY DEF PeersTypeOK
<1>2. WriteEntry(r) => list' \in [Peers -> Entries \union {Unlisted}]
  BY <1>1 DEF WriteEntry, PeersTypeOK
<1>3. Forget(r) => found' \in [Readers -> Entries]
  BY EntryType DEF Forget, PeersTypeOK
<1> QED
  BY <1>2, <1>3 DEF PeersTypeOK

LEMMA ObserverTypes ==
  ASSUME PeersTypeOK, Observer
  PROVE  PeersTypeOK'
<1> USE DEF networkVars, observerVars, sinceVars, readVars
<1>1. CASE TakeSnapshot \/ AllAdded \/ AllRemoved
  BY <1>1 DEF TakeSnapshot, AllAdded, AllRemoved, Listed, PeersTypeOK
<1>2. CASE Upsert
  <2>1. list' \in [Peers -> Entries \union {Unlisted}] /\ found' \in [Readers -> Entries]
    BY <1>2, WriteTypes, ReadersType DEF Upsert
  <2>2. look' \in [Readers -> {"none", "pairing", "policy", "known"}]
    BY <1>2 DEF Upsert, PeersTypeOK
  <2> QED
    BY <1>2, <2>1, <2>2 DEF Upsert, PeersTypeOK
<1>3. CASE SkipDevice
  BY <1>3 DEF SkipDevice, PeersTypeOK
<1>4. CASE ReadPairing("observer") \/ ReadPolicy("observer")
  BY <1>4, ReaderTypes, ReadersType
<1>5. ASSUME NEW p \in Peers, AddNext(p)
      PROVE  PeersTypeOK'
  BY <1>5 DEF AddNext, LookUp, PeersTypeOK
<1>6. ASSUME NEW p \in Peers, Remove(p)
      PROVE  PeersTypeOK'
  <2>1. list' \in [Peers -> Entries \union {Unlisted}]
    BY <1>6 DEF Remove, PeersTypeOK
  <2> QED
    BY <1>6, <2>1 DEF Remove, PeersTypeOK
<1> QED
  BY <1>1, <1>2, <1>3, <1>4, <1>5, <1>6 DEF Observer

LEMMA ShowTypes ==
  ASSUME PoliciesTypeOK, PeersTypeOK, NEW w \in Tasks, ShowPolicy(w)
  PROVE  list' \in [Peers -> Entries \union {Unlisted}]
<1> DEFINE p == arg[w][1]
           shown == arg[w][2] = "automatic"
<1>1. p \in Peers
  BY DEF PoliciesTypeOK
<1>2. CASE p \in Listed
  <2>1. list[p] \in Entries
    BY <1>1, <1>2 DEF Listed, PeersTypeOK, Unlisted
  <2>2. PICK a \in BOOLEAN, b \in BOOLEAN : list[p] = Entry(a, b)
    BY <2>1 DEF Entries
  <2>3. list[p].paired \in BOOLEAN
    BY <2>2 DEF Entry
  <2>4. Entry(list[p].paired, shown) \in Entries
    BY <2>3, EntryType
  <2>5. list' = [list EXCEPT ![p] = Entry(@.paired, shown)]
    BY <1>2, Zenon DEF ShowPolicy
  <2> QED
    BY <2>4, <2>5 DEF PeersTypeOK
<1>3. CASE p \notin Listed
  BY <1>3 DEF ShowPolicy, PeersTypeOK
<1> QED
  BY <1>2, <1>3

LEMMA OfferTypes ==
  ASSUME PoliciesTypeOK, PeersTypeOK, NEW o \in Offers, OfferSteps(o)
  PROVE  PeersTypeOK'
<1> USE DEF networkVars, observerVars, sinceVars, readVars, To
<1>1. o \in Readers /\ o \in Tasks
  BY ReadersType, PeersAssumption
<1>2. CASE ReadPairing(o) \/ ReadPolicy(o)
  BY <1>1, <1>2, ReaderTypes
<1>3. CASE ObserveIncoming(o)
  <2>1. list' \in [Peers -> Entries \union {Unlisted}]
    BY <1>1, <1>3, WriteTypes DEF ObserveIncoming
  <2>2. stage' \in [Offers -> {"idle", "observing", "deciding", "asking", "setting",
                               "granted", "automatic"}]
    BY <1>3 DEF ObserveIncoming, PeersTypeOK
  <2>3. look' \in [Readers -> {"none", "pairing", "policy", "known"}]
        /\ subject' \in [Readers -> Peers]
    BY <1>1, <1>3 DEF ObserveIncoming, LookUp, PeersTypeOK
  <2> QED
    BY <1>3, <2>1, <2>2, <2>3 DEF ObserveIncoming, LookUp, PeersTypeOK
<1>4. CASE Decide(o)
  <2>1. stage' \in [Offers -> {"idle", "observing", "deciding", "asking", "setting",
                               "granted", "automatic"}]
    BY <1>4 DEF Decide, PeersTypeOK
  <2>2. trusted' \subseteq Offers /\ silent' \subseteq Offers
    BY <1>4 DEF Decide, EndSince, PeersTypeOK
  <2> QED
    BY <1>4, <2>1, <2>2 DEF Decide, PeersTypeOK
<1>5. CASE SaveSteps(o)
  BY <1>5 DEF SaveSteps, SetPolicy, peersVars, PeersTypeOK, Open
<1>6. CASE PolicySet(o)
  <2>1. list' \in [Peers -> Entries \union {Unlisted}]
    BY <1>1, <1>6, ShowTypes, Zenon DEF PolicySet
  <2>2. UNCHANGED <<networkVars, observerVars, readVars>>
        /\ stage' = [stage EXCEPT ![o] = "granted"]
    BY <1>6, Zenon DEF PolicySet
  <2> QED
    BY <2>1, <2>2 DEF PeersTypeOK
<1>7. CASE PolicyNotSet(o)
  <2>1. found' \in [Readers -> Entries]
    BY <1>1, <1>7, WriteTypes DEF PolicyNotSet
  <2> QED
    BY <1>7, <2>1 DEF PolicyNotSet, PeersTypeOK
<1> QED
  BY <1>2, <1>3, <1>4, <1>5, <1>6, <1>7 DEF OfferSteps

LEMMA EnvironmentTypes ==
  ASSUME PoliciesTypeOK, PeersTypeOK, Environment
  PROVE  PeersTypeOK'
<1> USE DEF networkVars, observerVars, sinceVars, readVars, To
<1>1. CASE Publish
  BY <1>1 DEF Publish, PeersTypeOK
<1>2. CASE Restart
  <2>1. found' \in [Readers -> Entries]
    BY <1>2, EntryType DEF Restart
  <2>2. list' \in [Peers -> Entries \union {Unlisted}]
    BY <1>2 DEF Restart
  <2> QED
    BY <1>2, <2>1, <2>2 DEF Restart, PeersTypeOK
<1>3. ASSUME NEW p \in Peers, ChangePairing(p)
      PROVE  PeersTypeOK'
  BY <1>3 DEF ChangePairing, PeersTypeOK, Open
<1>4. ASSUME NEW c \in Callers, NEW p \in Peers, NEW v \in Policy, CallSetPolicy(c, p, v)
      PROVE  PeersTypeOK'
  BY <1>4 DEF CallSetPolicy, peersVars, PeersTypeOK
<1>5. ASSUME NEW o \in Offers, NEW p \in Peers, Arrive(o, p)
      PROVE  PeersTypeOK'
  <2>1. look' \in [Readers -> {"none", "pairing", "policy", "known"}]
        /\ subject' \in [Readers -> Peers]
    BY <1>5, ReadersType DEF Arrive, LookUp, PeersTypeOK
  <2>2. stage' \in [Offers -> {"idle", "observing", "deciding", "asking", "setting",
                               "granted", "automatic"}]
    BY <1>5 DEF Arrive, PeersTypeOK
  <2>3. trusted' \subseteq Offers /\ silent' \subseteq Offers
    BY <1>5 DEF Arrive, PeersTypeOK
  <2> QED
    BY <1>5, <2>1, <2>2, <2>3 DEF Arrive, LookUp, PeersTypeOK
<1>6. ASSUME NEW o \in Offers, NEW always \in BOOLEAN, Accept(o, always)
      PROVE  PeersTypeOK'
  <2>1. stage' \in [Offers -> {"idle", "observing", "deciding", "asking", "setting",
                               "granted", "automatic"}]
    BY <1>6 DEF Accept, PeersTypeOK
  <2>2. found' \in [Readers -> Entries]
    BY <1>6, ReadersType, WriteTypes DEF Accept, PeersTypeOK
  <2> QED
    BY <1>6, <2>1, <2>2 DEF Accept, PeersTypeOK
<1>7. ASSUME NEW o \in Offers, Leave(o)
      PROVE  PeersTypeOK'
  <2>1. found' \in [Readers -> Entries]
    BY <1>7, ReadersType, WriteTypes DEF Leave
  <2>2. trusted' \subseteq Offers /\ silent' \subseteq Offers
    BY <1>7 DEF Leave, EndSince, PeersTypeOK
  <2>3. look' \in [Readers -> {"none", "pairing", "policy", "known"}]
    BY <1>7 DEF Leave, PeersTypeOK
  <2> QED
    BY <1>7, <2>1, <2>2, <2>3 DEF Leave, PeersTypeOK
<1> QED
  BY <1>1, <1>2, <1>3, <1>4, <1>5, <1>6, <1>7 DEF Environment

LEMMA TypesStep ==
  ASSUME PoliciesTypeOK, PeersTypeOK, [Next]_vars
  PROVE  PeersTypeOK'
<1>1. CASE UNCHANGED vars \/ PoolWorks
  BY <1>1 DEF PoolWorks, vars, peersVars, networkVars, observerVars, readVars, sinceVars,
     PeersTypeOK
<1>2. ASSUME NEW c \in Callers, CallerSteps(c)
      PROVE  PeersTypeOK'
  <2>1. CASE SaveSteps(c) \/ (WriteFails(c) /\ UNCHANGED peersVars)
    BY <2>1 DEF SaveSteps, SetPolicy, peersVars, networkVars, observerVars, readVars,
       sinceVars, PeersTypeOK, Open
  <2>2. CASE ShowPolicy(c) /\ UNCHANGED <<networkVars, observerVars, readVars, stage>>
    <3>1. list' \in [Peers -> Entries \union {Unlisted}]
      BY <2>2, ShowTypes, PeersAssumption, Zenon
    <3>2. UNCHANGED <<networkVars, observerVars, readVars, stage>>
      BY <2>2, Zenon
    <3> QED
      BY <3>1, <3>2 DEF networkVars, observerVars, readVars, sinceVars, PeersTypeOK
  <2> QED
    BY <1>2, <2>1, <2>2, Zenon DEF CallerSteps
<1> QED
  BY <1>1, <1>2, ObserverTypes, OfferTypes, EnvironmentTypes
     DEF Next, CallersWork, OffersWork

(***************************************************************************)
(* What an offer has read (receiver.rs:73-155).  A step either leaves the  *)
(* offer alone, notes what has become true, or lets it read what is so.    *)
(***************************************************************************)
Receipt(o) ==
  /\ look[o] # "none" => o \in Open
  /\ o \in Open =>
       /\ subject[o] \in paired => o \in trusted
       /\ memory[subject[o]] = "automatic" => o \in silent
       /\ look[o] = "policy" => o \in trusted
       /\ look[o] = "known" /\ found[o].paired => o \in trusted
       /\ look[o] = "known" /\ found[o].automatic => o \in silent
  /\ stage[o] = "automatic" => o \in trusted \intersect silent

LEMMA Receipts ==
  (\A o \in Offers : Receipt(o))
    <=> ReadersAreOpen /\ ReadSinceArrival /\ SilentOnlyIfTrusted
BY DEF Receipt, ReadersAreOpen, ReadSinceArrival, SilentOnlyIfTrusted, Open

\* The offer is where it was; more may have become known of its peer.
LEMMA ReceiptKept ==
  ASSUME NEW o \in Offers, Receipt(o),
         look'[o] = look[o], subject'[o] = subject[o], found'[o] = found[o],
         stage'[o] = stage[o],
         o \in trusted => o \in trusted',
         o \in silent => o \in silent',
         o \in Open /\ subject[o] \in paired' => subject[o] \in paired \/ o \in trusted',
         o \in Open /\ memory'[subject[o]] = "automatic" =>
           memory[subject[o]] = "automatic" \/ o \in silent'
  PROVE  Receipt(o)'
BY DEF Receipt, Open

\* The offer itself goes on.
LEMMA OfferReceipt ==
  ASSUME PoliciesTypeOK, PeersTypeOK, NEW o \in Offers, Receipt(o), OfferSteps(o)
  PROVE  Receipt(o)'
<1> USE DEF networkVars, observerVars, sinceVars, readVars, To
<1>1. /\ o \in Readers
      /\ found \in [Readers -> Entries] /\ look \in [Readers -> {"none", "pairing", "policy", "known"}]
      /\ stage \in [Offers -> {"idle", "observing", "deciding", "asking", "setting",
                               "granted", "automatic"}]
  BY ReadersType DEF PeersTypeOK
<1>2. CASE ReadPairing(o)
  <2>1. found'[o] = Entry(subject[o] \in paired, FALSE)
    BY <1>1, <1>2, Zenon DEF ReadPairing
  <2>2. look'[o] = IF subject[o] \in paired THEN "policy" ELSE "known"
    BY <1>1, <1>2 DEF ReadPairing
  <2>3. (found'[o].paired <=> subject[o] \in paired) /\ found'[o].automatic = FALSE
    <3>1. (subject[o] \in paired) \in BOOLEAN
      OBVIOUS
    <3> QED
      BY <2>1, <3>1, EntryType, Zenon
  <2>4. look[o] = "pairing" /\ UNCHANGED <<paired, subject, stage, trusted, silent, memory>>
    BY <1>2 DEF ReadPairing, policyVars
  <2> QED
    BY <2>2, <2>3, <2>4 DEF Receipt, Open
<1>3. CASE ReadPolicy(o)
  <2>1. found'[o] = Entry(TRUE, memory[subject[o]] = "automatic")
    BY <1>1, <1>3, Zenon DEF ReadPolicy
  <2>2. look'[o] = "known"
    BY <1>1, <1>3 DEF ReadPolicy
  <2>3. found'[o].automatic <=> memory[subject[o]] = "automatic"
    <3>1. (memory[subject[o]] = "automatic") \in BOOLEAN
      OBVIOUS
    <3> QED
      BY <2>1, <3>1, EntryType, Zenon
  <2>4. look[o] = "policy" /\ UNCHANGED <<paired, subject, stage, trusted, silent, memory>>
    BY <1>3 DEF ReadPolicy, policyVars
  <2> QED
    BY <2>2, <2>3, <2>4 DEF Receipt, Open
<1>4. CASE ObserveIncoming(o)
  <2>1. look[o] = "known" /\ look'[o] = "pairing" /\ stage'[o] = "deciding"
        /\ subject'[o] = subject[o] /\ UNCHANGED <<paired, trusted, silent, memory>>
    BY <1>1, <1>4 DEF ObserveIncoming, LookUp, policyVars, PeersTypeOK
  <2> QED
    BY <2>1 DEF Receipt, Open
<1>5. CASE Decide(o)
  <2>1. look[o] = "known" /\ look'[o] = "none"
    BY <1>1, <1>5 DEF Decide
  <2>2. CASE MayReceiveSilently(o)
    <3>1. found[o].paired /\ found[o].automatic
      BY <2>2 DEF MayReceiveSilently, Entry
    <3>2. stage'[o] = "automatic" /\ UNCHANGED <<trusted, silent>>
      BY <1>1, <1>5, <2>2 DEF Decide
    <3> QED
      BY <2>1, <3>1, <3>2 DEF Receipt, Open
  <2>3. CASE ~MayReceiveSilently(o)
    <3>1. stage'[o] = "asking"
      BY <1>1, <1>5, <2>3 DEF Decide
    <3> QED
      BY <2>1, <3>1 DEF Receipt, Open
  <2> QED
    BY <2>2, <2>3
<1>6. CASE SaveSteps(o)
  <2>1. CASE SetPolicy(o)
    <3>1. UNCHANGED <<paired, look, subject, found, trusted, stage>>
      BY <2>1 DEF SetPolicy
    <3>2. silent' = silent \union {x \in Open : memory'[subject[x]] = "automatic"}
      BY <2>1 DEF SetPolicy
    <3> QED
      BY <3>1, <3>2, ReceiptKept
  <2>2. CASE ~SetPolicy(o)
    <3>1. UNCHANGED <<paired, look, subject, found, trusted, silent, stage, memory>>
      BY <1>6, <2>2 DEF SaveSteps, Persist, Written, peersVars
    <3> QED
      BY <3>1, ReceiptKept
  <2> QED
    BY <2>1, <2>2
<1>7. CASE PolicySet(o) \/ PolicyNotSet(o)
  <2>1. stage[o] = "setting" /\ stage'[o] \in {"granted", "idle"} /\ look' = look
    <3>1. stage[o] = "setting" /\ stage'[o] \in {"granted", "idle"}
      BY <1>1, <1>7 DEF PolicySet, PolicyNotSet
    <3>2. PolicySet(o) => UNCHANGED readVars
      BY Zenon DEF PolicySet
    <3>3. PolicyNotSet(o) => look' = look
      BY DEF PolicyNotSet
    <3> QED
      BY <1>7, <3>1, <3>2, <3>3
  <2> QED
    BY <2>1 DEF Receipt, Open
<1> QED
  BY <1>2, <1>3, <1>4, <1>5, <1>6, <1>7 DEF OfferSteps

\* Another offer, a call, the discovery task or the network goes on.
LEMMA OthersReceipt ==
  ASSUME PoliciesTypeOK, PeersTypeOK, NEW o \in Offers, Receipt(o),
         \/ Observer \/ CallersWork \/ PoolWorks
         \/ \E x \in Offers : x # o /\ OfferSteps(x)
         \/ Environment
         \/ UNCHANGED vars
  PROVE  Receipt(o)'
<1> USE DEF networkVars, observerVars, sinceVars, readVars, policyVars, peersVars, To
<1> o \in Readers /\ o # "observer"
  BY ReadersType, PeersAssumption
<1> DEFINE Alone == /\ look'[o] = look[o] /\ subject'[o] = subject[o] /\ found'[o] = found[o]
                    /\ stage'[o] = stage[o]
<1>1. ASSUME Alone, UNCHANGED <<paired, memory>>,
             o \in trusted => o \in trusted', o \in silent => o \in silent'
      PROVE  Receipt(o)'
  BY <1>1, ReceiptKept
<1>2. ASSUME Alone, UNCHANGED <<paired, trusted>>,
             silent' = silent \union {x \in Open : memory'[subject[x]] = "automatic"}
      PROVE  Receipt(o)'
  BY <1>2, ReceiptKept
<1>3. ASSUME NEW w \in Tasks, SaveSteps(w)
      PROVE  Receipt(o)'
  <2>1. CASE SetPolicy(w)
    BY <1>2, <2>1 DEF SetPolicy
  <2>2. CASE ~SetPolicy(w)
    BY <1>1, <1>3, <2>2 DEF SaveSteps, Persist, Written
  <2> QED
    BY <2>1, <2>2
<1>4. CASE Observer
  <2>1. CASE TakeSnapshot \/ AllAdded \/ AllRemoved \/ SkipDevice
    BY <1>1, <2>1 DEF TakeSnapshot, AllAdded, AllRemoved, SkipDevice, PeersTypeOK
  <2>2. CASE Upsert
    BY <1>1, <2>2 DEF Upsert, Forget, PeersTypeOK
  <2>3. CASE ReadPairing("observer")
    <3>1. UNCHANGED <<paired, memory, subject, stage, trusted, silent>>
      BY <2>3, Zenon DEF ReadPairing
    <3>2. \E q, e : look' = [look EXCEPT !["observer"] = q]
                    /\ found' = [found EXCEPT !["observer"] = e]
      BY <2>3, Zenon DEF ReadPairing
    <3> QED
      BY <1>1, <3>1, <3>2 DEF PeersTypeOK
  <2>4. CASE ReadPolicy("observer")
    <3>1. UNCHANGED <<paired, memory, subject, stage, trusted, silent>>
      BY <2>4, Zenon DEF ReadPolicy
    <3>2. \E q, e : look' = [look EXCEPT !["observer"] = q]
                    /\ found' = [found EXCEPT !["observer"] = e]
      BY <2>4, Zenon DEF ReadPolicy
    <3> QED
      BY <1>1, <3>1, <3>2 DEF PeersTypeOK
  <2>5. ASSUME NEW p \in Peers, AddNext(p) \/ Remove(p)
        PROVE  Receipt(o)'
    BY <1>1, <2>5 DEF AddNext, LookUp, Remove, PeersTypeOK
  <2> QED
    BY <1>4, <2>1, <2>2, <2>3, <2>4, <2>5 DEF Observer
<1>5. CASE CallersWork
  <2>1. PICK c \in Callers : CallerSteps(c)
    BY <1>5 DEF CallersWork
  <2>2. CASE SaveSteps(c)
    BY <1>3, <2>2, PeersAssumption
  <2>3. CASE WriteFails(c) /\ UNCHANGED peersVars
    BY <1>1, <2>3 DEF WriteFails
  <2>4. CASE ShowPolicy(c) /\ UNCHANGED <<networkVars, observerVars, readVars, stage>>
    <3>1. UNCHANGED <<memory, networkVars, observerVars, readVars, stage>>
      BY <2>4, Zenon DEF ShowPolicy
    <3> QED
      BY <1>1, <3>1
  <2> QED
    BY <2>1, <2>2, <2>3, <2>4, Zenon DEF CallerSteps
<1>6. CASE PoolWorks
  BY <1>1, <1>6 DEF PoolWorks, LateRename
<1>7. ASSUME NEW x \in Offers, x # o, OfferSteps(x)
      PROVE  Receipt(o)'
  <2> x \in Readers /\ x \in Tasks
    BY ReadersType, PeersAssumption
  <2>1. CASE ReadPairing(x) \/ ReadPolicy(x)
    <3>1. UNCHANGED <<paired, memory, subject, stage, trusted, silent>>
      BY <2>1, Zenon DEF ReadPairing, ReadPolicy
    <3>2. \E q, e : look' = [look EXCEPT ![x] = q] /\ found' = [found EXCEPT ![x] = e]
      <4>1. CASE ReadPairing(x)
        BY <4>1, Zenon DEF ReadPairing
      <4>2. CASE ReadPolicy(x)
        BY <4>2, Zenon DEF ReadPolicy
      <4> QED
        BY <2>1, <4>1, <4>2
    <3> QED
      BY <1>1, <1>7, <3>1, <3>2 DEF PeersTypeOK
  <2>2. CASE ObserveIncoming(x) \/ Decide(x)
    BY <1>1, <1>7, <2>2 DEF ObserveIncoming, LookUp, Decide, EndSince, PeersTypeOK
  <2>3. CASE PolicySet(x)
    <3>1. UNCHANGED <<memory, networkVars, observerVars, readVars>>
          /\ stage' = [stage EXCEPT ![x] = "granted"]
      BY <2>3, Zenon DEF PolicySet, ShowPolicy
    <3> QED
      BY <1>1, <1>7, <3>1 DEF PeersTypeOK
  <2>4. CASE PolicyNotSet(x)
    BY <1>1, <1>7, <2>4 DEF PolicyNotSet, WriteFails, Forget, PeersTypeOK
  <2> QED
    BY <1>3, <1>7, <2>1, <2>2, <2>3, <2>4 DEF OfferSteps
<1>8. CASE Environment
  <2>1. CASE Publish
    BY <1>1, <2>1 DEF Publish
  <2>2. CASE Restart
    <3>1. look'[o] = "none" /\ stage'[o] = "idle"
      BY <2>2 DEF Restart
    <3> QED
      BY <3>1 DEF Receipt, Open
  <2>3. ASSUME NEW p \in Peers, ChangePairing(p)
        PROVE  Receipt(o)'
    <3>1. Alone /\ UNCHANGED <<memory, silent>>
      BY <2>3 DEF ChangePairing
    <3>2. CASE p \in paired
      BY <2>3, <3>1, <3>2, ReceiptKept DEF ChangePairing
    <3>3. CASE p \notin paired
      BY <2>3, <3>1, <3>3, ReceiptKept DEF ChangePairing
    <3> QED
      BY <3>2, <3>3
  <2>4. ASSUME NEW c \in Callers, NEW p \in Peers, NEW v \in Policy, CallSetPolicy(c, p, v)
        PROVE  Receipt(o)'
    BY <1>1, <2>4 DEF CallSetPolicy
  <2>5. ASSUME NEW x \in Offers, NEW p \in Peers, Arrive(x, p)
        PROVE  Receipt(o)'
    <3>1. CASE x = o
      <4>1. look'[o] = "pairing" /\ stage'[o] = "observing" /\ subject'[o] = p
            /\ UNCHANGED <<paired, memory>>
        BY <2>5, <3>1 DEF Arrive, LookUp, PeersTypeOK
      <4>2. (p \in paired => o \in trusted') /\ (memory[p] = "automatic" => o \in silent')
        BY <2>5, <3>1 DEF Arrive
      <4> QED
        BY <4>1, <4>2 DEF Receipt, Open
    <3>2. CASE x # o
      BY <1>1, <2>5, <3>2, ReadersType DEF Arrive, LookUp, PeersTypeOK
    <3> QED
      BY <3>1, <3>2
  <2>6. ASSUME NEW x \in Offers, NEW always \in BOOLEAN, Accept(x, always)
        PROVE  Receipt(o)'
    <3>1. UNCHANGED <<paired, memory, look, trusted, silent, subject>>
          /\ stage[x] = "asking" /\ stage' \in {[stage EXCEPT ![x] = q] : q \in {"setting", "idle", "granted"}}
      BY <2>6 DEF Accept
    <3>2. CASE x = o
      BY <3>1, <3>2 DEF Receipt, Open, PeersTypeOK
    <3>3. CASE x # o
      <4>1. found'[o] = found[o]
        BY <2>6, <3>3, ReadersType DEF Accept, Forget, PeersTypeOK
      <4> QED
        BY <1>1, <3>1, <3>3, <4>1 DEF PeersTypeOK
    <3> QED
      BY <3>2, <3>3
  <2>7. ASSUME NEW x \in Offers, Leave(x)
        PROVE  Receipt(o)'
    <3>1. CASE x = o
      <4>1. look'[o] = "none" /\ stage'[o] = "idle"
        BY <2>7, <3>1 DEF Leave, PeersTypeOK
      <4> QED
        BY <4>1 DEF Receipt, Open
    <3>2. CASE x # o
      BY <1>1, <2>7, <3>2, ReadersType DEF Leave, Forget, EndSince, DropCall, PeersTypeOK
    <3> QED
      BY <3>1, <3>2
  <2> QED
    BY <1>8, <2>1, <2>2, <2>3, <2>4, <2>5, <2>6, <2>7 DEF Environment
<1>9. CASE UNCHANGED vars
  BY <1>1, <1>9 DEF vars
<1> QED
  BY <1>4, <1>5, <1>6, <1>7, <1>8, <1>9

(***************************************************************************)
(* The invariant.                                                          *)
(***************************************************************************)
LEMMA InvInit == Init => Inv
<1> SUFFICES ASSUME Init PROVE Inv
  OBVIOUS
<1>1. PolicyInv
  BY PolicyInvInit DEF Init
<1>2. PeersTypeOK
  BY EntryType DEF Init, PeersTypeOK
<1>3. ReadersAreOpen /\ ReadSinceArrival /\ SilentOnlyIfTrusted
  BY ReadersType DEF Init, ReadersAreOpen, ReadSinceArrival, SilentOnlyIfTrusted, Open
<1> QED
  BY <1>1, <1>2, <1>3, Types DEF PolicyInv, Inv

LEMMA InvNext == Inv /\ [Next]_vars => Inv'
<1> SUFFICES ASSUME Inv, [Next]_vars PROVE Inv'
  OBVIOUS
<1>1. PolicyInv'
  BY PolicyInvNext DEF Inv, PolicyInv, TypeOK
<1>2. PeersTypeOK'
  BY TypesStep, Types DEF Inv
<1>3. ASSUME NEW o \in Offers
      PROVE  Receipt(o)'
  <2>1. PoliciesTypeOK /\ PeersTypeOK /\ Receipt(o)
    BY <1>3, Types, Receipts DEF Inv
  <2>2. CASE OfferSteps(o)
    BY <1>3, <2>1, <2>2, OfferReceipt
  <2>3. CASE ~OfferSteps(o)
    BY <1>3, <2>1, <2>3, OthersReceipt DEF Next, OffersWork
  <2> QED
    BY <2>2, <2>3
<1>4. (ReadersAreOpen /\ ReadSinceArrival /\ SilentOnlyIfTrusted)'
  BY <1>3 DEF Receipt, ReadersAreOpen, ReadSinceArrival, SilentOnlyIfTrusted, Open
<1> QED
  BY <1>1, <1>2, <1>4 DEF PolicyInv, Inv, TypeOK, PeersTypeOK

LEMMA Invariance == Spec => []Inv
BY InvInit, InvNext, PTL DEF Spec

(***************************************************************************)
(* Type correctness: the lock of the map is held by whoever writes its     *)
(* file, and by nobody else (persistence.rs:146-150).                      *)
(***************************************************************************)
THEOREM PeersTypeCorrect == Spec => []TypeOK
<1>1. Inv => TypeOK
  BY DEF Inv
<1> QED
  BY <1>1, Invariance, PTL

(***************************************************************************)
(* After a save that went well the file holds what the manager goes by,    *)
(* whatever other calls did meanwhile (persistence.rs:123-204).            *)
(***************************************************************************)
THEOREM PolicyPersisted == Spec => []PolicyIsPersisted
<1>1. Inv => PolicyIsPersisted
  BY DEF Inv
<1> QED
  BY <1>1, Invariance, PTL

(***************************************************************************)
(* A transfer that starts without asking has a sender that was paired and  *)
(* a policy that was automatic since its offer came (receiver.rs:73-155).  *)
(***************************************************************************)
THEOREM SilentTrusted == Spec => []SilentOnlyIfTrusted
<1>1. Inv => SilentOnlyIfTrusted
  BY DEF Inv
<1> QED
  BY <1>1, Invariance, PTL
=============================================================================
