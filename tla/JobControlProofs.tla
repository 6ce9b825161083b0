--------------------------- MODULE JobControlProofs ---------------------------
(***************************************************************************)
(* No wakeup is lost, for any number of file tasks and of calls.  A waiter *)
(* that has read a flag relies on it only until somebody stores to it; the *)
(* inductive invariant says so at every point of wait_ready, and a store   *)
(* without its notification shows in `owing`.                              *)
(***************************************************************************)
EXTENDS JobControl, TLAPS

\* What w has read still holds, unless it has been or will be notified.
Reliable(w) ==
  w \notin woken /\ owing = {} =>
    /\ at[w] \in {"paused?", "connection?", "asleep"} => ~cancelled
    /\ at[w] \in {"connection?", "asleep"} => paused
    /\ at[w] = "asleep" /\ attached => w \in watching

GateInv == TypeOK /\ \A w \in Waiters : Reliable(w)

\* Nobody waits when a job is created (manager.rs:59-66).
LEMMA GateInit == Init => GateInv
BY DEF Init, GateInv, TypeOK, Place, Returned, Reliable

\* A step of wait_ready keeps the gate: a waiter is armed before it reads the
\* flags (manager.rs:73-93).
LEMMA WaiterKeepsGate ==
  ASSUME GateInv, NEW v \in Waiters, WaiterStep(v)
  PROVE  GateInv'
<1> USE DEF GateInv, TypeOK, Place, Returned, Go, flags
<1>1. TypeOK'
  BY DEF WaiterStep, Begin, ReadCancelled, ReadPaused, Sleep, Wake, SeeClosed
<1>2. ASSUME NEW w \in Waiters
      PROVE  Reliable(w)'
  <2>1. CASE Begin(v)
    BY <2>1 DEF Begin, Reliable
  <2>2. CASE ReadCancelled(v)
    BY <2>2 DEF ReadCancelled, Reliable
  <2>3. CASE ReadPaused(v)
    BY <2>3 DEF ReadPaused, Reliable
  <2>4. CASE Sleep(v)
    BY <2>4 DEF Sleep, Reliable
  <2>5. CASE Wake(v)
    BY <2>5 DEF Wake, Reliable
  <2>6. CASE SeeClosed(v)
    BY <2>6 DEF SeeClosed, Reliable
  <2>. QED
    BY <2>1, <2>2, <2>3, <2>4, <2>5, <2>6 DEF WaiterStep
<1>. QED
  BY <1>1, <1>2

\* A step of resume, cancel or attach keeps the gate: it stores first and
\* then notifies (manager.rs:68-105).
LEMMA CallKeepsGate ==
  ASSUME GateInv, NEW c \in Callers, CallerStep(c)
  PROVE  GateInv'
<1> USE DEF GateInv, TypeOK, Place, Returned, Store
<1>1. TypeOK'
  BY DEF CallerStep, Resume, Cancel, Attach, Notify
<1>2. ASSUME NEW w \in Waiters
      PROVE  Reliable(w)'
  <2>1. CASE Resume(c) \/ Cancel(c) \/ Attach(c)
    BY <2>1 DEF Resume, Cancel, Attach, Reliable
  <2>2. CASE Notify(c)
    BY <2>2 DEF Notify, Reliable
  <2>. QED
    BY <2>1, <2>2 DEF CallerStep
<1>. QED
  BY <1>1, <1>2

\* Every step keeps the gate.
LEMMA GateStep == GateInv /\ [Next]_vars => GateInv'
<1> SUFFICES ASSUME GateInv, [Next]_vars PROVE GateInv'
  OBVIOUS
<1>1. CASE Pause
  BY <1>1 DEF Pause, GateInv, TypeOK, Reliable
<1>2. CASE Close
  BY <1>2 DEF Close, GateInv, TypeOK, Reliable
<1>3. CASE UNCHANGED vars
  BY <1>3 DEF vars, GateInv, TypeOK, Reliable
<1>. QED
  BY <1>1, <1>2, <1>3, WaiterKeepsGate, CallKeepsGate DEF Next

(***************************************************************************)
(* A file task in wait_ready never sleeps through a resume, a cancel or an *)
(* attach, whatever the interleaving of its loads with their stores and    *)
(* notifications (manager.rs:68-105): the future is created before the     *)
(* first load.                                                             *)
(***************************************************************************)
THEOREM NoWakeupLost == Spec => []NoLostWakeup
<1>1. GateInv => NoLostWakeup
  BY DEF GateInv, Reliable, NoLostWakeup
<1>. QED
  BY GateInit, GateStep, <1>1, PTL DEF Spec

=============================================================================
