----------------------------- MODULE MCDelivery -----------------------------
(***************************************************************************)
(* An instance of Delivery: a file of two chunks, one of one, the others   *)
(* empty; names that are fit to be received, that clash, that are unsafe.  *)
(***************************************************************************)
EXTENDS Delivery

Distinct == [f \in Files |-> [key |-> f, safe |-> TRUE]]

MCInit ==
  /\ Init
  /\ name \in {Distinct, [Distinct EXCEPT ![2] = Distinct[1]], [Distinct EXCEPT ![1].safe = FALSE]}
  /\ Len(disk[1]["old"].data) = MaxSize
  /\ Len(disk[2]["old"].data) = 1
  /\ \A f \in Files \ {1, 2} : disk[f]["old"].data = <<>>

MCSpec == MCInit /\ [][Next]_vars /\ Fairness
=============================================================================
