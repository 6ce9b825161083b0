----------------------------- MODULE MCTraffic -----------------------------
(***************************************************************************)
(* A TLC instance of Traffic: two transfers, from two senders and with the *)
(* same name for their files, or from one, with the same id or different   *)
(* ones and with a name that is the other's with a number.                 *)
(***************************************************************************)
EXTENDS Traffic, TLC

CONSTANTS t1, t2, f1, f2, s1, s2, n1, n2

OneEach == t1 :> {f1} @@ t2 :> {f2}
\* n2 is the name "n1 (1)".
NumberedName ==
  [p \in {n1, n2} \X (0 .. 1) |-> IF p = <<n1, 1>> THEN <<n2, 0>> ELSE p]
FirstPlace == {<<n1, 0>>}

MCInit ==
  /\ Init
  /\ Key(t1) = <<s1, 1>>
  /\ name[f1] = n1
  /\ name[f2] = IF from[t2] = s1 THEN n2 ELSE n1
  /\ IF from[t2] = s2 THEN wireId[t2] = 1 ELSE s2 \in routers
  /\ s1 \notin routers

MCSpec == MCInit /\ [][Next]_trafficVars /\ WF_trafficVars(SystemStep)
=============================================================================
