--------------------------- MODULE TransferContract ---------------------------
(***************************************************************************)
(* What one transfer promises its two users, without tasks, streams or     *)
(* messages.  Files are put in place only after the receiver agreed; each  *)
(* end reaches one outcome and keeps it; the receiver reports Completed    *)
(* only once everything is in place, the sender only after the receiver,   *)
(* and Rejected means that nothing was or will be put in place.            *)
(***************************************************************************)
CONSTANT Files

VARIABLES outcome, agreed, delivered

contractVars == <<outcome, agreed, delivered>>

Outcomes == {"Completed", "Rejected", "Cancelled", "Failed"}

Init ==
  /\ outcome = [e \in {"sender", "receiver"} |-> "open"]
  /\ agreed = FALSE
  /\ delivered = {}

Agree ==
  /\ ~agreed
  /\ outcome["receiver"] # "Rejected"
  /\ agreed' = TRUE
  /\ UNCHANGED <<outcome, delivered>>

\* A file may still arrive after an end gave up, never after a rejection.
Deliver(f) ==
  /\ agreed
  /\ outcome["sender"] # "Rejected"
  /\ delivered' = delivered \union {f}
  /\ UNCHANGED <<outcome, agreed>>

MayConclude(e, o) ==
  CASE o = "Completed" -> IF e = "receiver"
                            THEN delivered = Files
                            ELSE outcome["receiver"] = "Completed"
    [] o = "Rejected"  -> IF e = "receiver" THEN ~agreed ELSE delivered = {}
    [] OTHER           -> TRUE

Conclude(e, o) ==
  /\ outcome[e] = "open"
  /\ MayConclude(e, o)
  /\ outcome' = [outcome EXCEPT ![e] = o]
  /\ UNCHANGED <<agreed, delivered>>

Next ==
  \/ Agree
  \/ \E f \in Files : Deliver(f)
  \/ \E e \in {"sender", "receiver"}, o \in Outcomes : Conclude(e, o)

Spec == Init /\ [][Next]_contractVars

=============================================================================
