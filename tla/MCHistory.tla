------------------------------ MODULE MCHistory ------------------------------
(***************************************************************************)
(* A transfer or two, their tasks and a user's call, a history worker.     *)
(***************************************************************************)
EXTENDS History

CONSTANTS t1, t2, task, call

TwoTransfers == {t1, t2}
\* A transfer that pauses, resumes and ends, and two that may only end.
OneStatuses == {"Transferring", "Paused", "Completed", "Cancelled", "Failed"}
TwoStatuses == {"Transferring", "Completed", "Failed"}
=============================================================================
