------------------------------ MODULE JobControl ------------------------------
(***************************************************************************)
(* The gate every chunk of a file passes (src/src/application/manager.rs:  *)
(* 51-114): wait_ready lets a file task go on unless the job is paused or  *)
(* cancelled, and otherwise waits to be notified or for the connection to  *)
(* close.  The flags are atomics and the connection has a lock of its own, *)
(* so every load and store is a step; a call that changes one of them      *)
(* notifies the waiters in a second step.                                  *)
(***************************************************************************)
EXTENDS FiniteSets

CONSTANTS
  Waiters,     \* file tasks of the job
  Callers      \* concurrent calls of resume, cancel and attach

ASSUME CallersAssumption == IsFiniteSet(Callers)

VARIABLES
  paused,      \* the flag `paused`
  cancelled,   \* the token `cancelled`
  attached,    \* `connection` holds the connection
  closed,      \* the connection is closed
  owing,       \* the callers that have stored and not notified yet
  at,          \* [Waiters -> where the waiter is in wait_ready]
  woken,       \* the waiters whose `changed` future has been notified
  watching     \* the waiters that watch the connection, too

vars == <<paused, cancelled, attached, closed, owing, at, woken, watching>>

Returned == {"ready", "cancelled", "closed"}
Place == {"outside", "cancelled?", "paused?", "connection?", "asleep"}
           \union Returned

TypeOK ==
  /\ {paused, cancelled, attached, closed} \subseteq BOOLEAN
  /\ owing \subseteq Callers
  /\ at \in [Waiters -> Place]
  /\ woken \subseteq Waiters
  /\ watching \subseteq Waiters

Init ==
  /\ paused = FALSE
  /\ cancelled = FALSE
  /\ attached = FALSE
  /\ closed = FALSE
  /\ owing = {}
  /\ at = [w \in Waiters |-> "outside"]
  /\ woken = {}
  /\ watching = {}

-----------------------------------------------------------------------------
(* wait_ready.                                                             *)

flags == <<paused, cancelled, attached, closed, owing>>

Go(w, p) == at' = [at EXCEPT ![w] = p]

\* `changed` is created before anything is read: a notify_waiters from here
\* on reaches the waiter even before it first polls the future.
Begin(w) ==
  /\ at[w] \in {"outside", "ready"}
  /\ Go(w, "cancelled?")
  /\ woken' = woken \ {w}
  /\ UNCHANGED <<flags, watching>>

ReadCancelled(w) ==
  /\ at[w] = "cancelled?"
  /\ Go(w, IF cancelled THEN "cancelled" ELSE "paused?")
  /\ UNCHANGED <<flags, woken, watching>>

ReadPaused(w) ==
  /\ at[w] = "paused?"
  /\ Go(w, IF paused THEN "connection?" ELSE "ready")
  /\ UNCHANGED <<flags, woken, watching>>

\* Mutation: the future is created only when there is something to wait for.
SleepUnarmed(w) ==
  /\ at[w] = "connection?"
  /\ Go(w, "asleep")
  /\ watching' = IF attached THEN watching \union {w} ELSE watching \ {w}
  /\ woken' = woken \ {w}
  /\ UNCHANGED flags

Sleep(w) ==
  /\ at[w] = "connection?"
  /\ Go(w, "asleep")
  /\ watching' = IF attached THEN watching \union {w} ELSE watching \ {w}
  /\ UNCHANGED <<flags, woken>>

Wake(w) ==
  /\ at[w] = "asleep"
  /\ w \in woken
  /\ Go(w, "cancelled?")
  /\ woken' = woken \ {w}
  /\ UNCHANGED <<flags, watching>>

SeeClosed(w) ==
  /\ at[w] = "asleep"
  /\ w \in watching
  /\ closed
  /\ Go(w, "closed")
  /\ UNCHANGED <<flags, woken, watching>>

WaiterStep(w) ==
  \/ Begin(w) \/ ReadCancelled(w) \/ ReadPaused(w) \/ Sleep(w)
  \/ Wake(w) \/ SeeClosed(w)

-----------------------------------------------------------------------------
(* The calls.                                                              *)

Store(c) == c \notin owing /\ owing' = owing \union {c}

Pause ==
  /\ paused' = TRUE
  /\ UNCHANGED <<cancelled, attached, closed, owing, at, woken, watching>>

Resume(c) ==
  /\ Store(c)
  /\ paused' = FALSE
  /\ UNCHANGED <<cancelled, attached, closed, at, woken, watching>>

Cancel(c) ==
  /\ Store(c)
  /\ cancelled' = TRUE
  /\ UNCHANGED <<paused, attached, closed, at, woken, watching>>

\* A job is attached once, when its session is known.
Attach(c) ==
  /\ ~attached
  /\ Store(c)
  /\ attached' = TRUE
  /\ UNCHANGED <<paused, cancelled, closed, at, woken, watching>>

\* notify_waiters reaches every future that exists, polled or not.
Notify(c) ==
  /\ c \in owing
  /\ owing' = owing \ {c}
  /\ woken' = woken \union
                {w \in Waiters : at[w] \notin {"outside"} \union Returned}
  /\ UNCHANGED <<paused, cancelled, attached, closed, at, watching>>

Close ==
  /\ attached
  /\ ~closed
  /\ closed' = TRUE
  /\ UNCHANGED <<paused, cancelled, attached, owing, at, woken, watching>>

CallerStep(c) == Resume(c) \/ Cancel(c) \/ Attach(c) \/ Notify(c)

Next ==
  \/ \E w \in Waiters : WaiterStep(w)
  \/ \E c \in Callers : CallerStep(c)
  \/ Pause
  \/ Close

(***************************************************************************)
(* A runnable waiter is polled again, and a call that has begun returns.   *)
(* select! polls its branches in random order, so a closed connection is   *)
(* not missed for ever however often the waiter is notified.               *)
(***************************************************************************)
Fairness ==
  /\ \A w \in Waiters :
       /\ WF_vars(ReadCancelled(w) \/ ReadPaused(w) \/ Sleep(w) \/ Wake(w))
       /\ SF_vars(SeeClosed(w))
  /\ \A c \in Callers : WF_vars(Notify(c))

Spec == Init /\ [][Next]_vars /\ Fairness

-----------------------------------------------------------------------------
(***************************************************************************)
(* Nobody sleeps through a change: a waiter that sleeps unnotified has     *)
(* every reason to, or a call that will notify it is under way.  That a    *)
(* sleeper not watching the connection is told of it is why attach         *)
(* notifies (manager.rs:68-105).                                           *)
(***************************************************************************)
NoLostWakeup ==
  \A w \in Waiters :
    at[w] = "asleep" /\ w \notin woken /\ owing = {} =>
      paused /\ ~cancelled /\ (attached => w \in watching)

(***************************************************************************)
(* A cancelled job, or one whose connection is gone, holds no file task:   *)
(* every wait ends (manager.rs:73-93).                                     *)
(***************************************************************************)
WaitsEnd ==
  \A w \in Waiters :
    cancelled \/ closed ~> at[w] \in {"outside"} \union Returned

(***************************************************************************)
(* A job that is resumed and not paused again lets its file tasks go on    *)
(* (manager.rs:98-101).                                                    *)
(***************************************************************************)
ResumeReleases ==
  \A w \in Waiters :
    at[w] = "asleep" /\ ~paused ~> at[w] # "asleep" \/ paused

=============================================================================
