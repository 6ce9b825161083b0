----------------------------- MODULE MCJobControl -----------------------------
(***************************************************************************)
(* Two file tasks of one job and two concurrent calls, repeated for ever.  *)
(***************************************************************************)
EXTENDS JobControl

CONSTANTS w1, w2, resumer, canceller

FileTasks == {w1, w2}
Calls == {resumer, canceller}
=============================================================================
