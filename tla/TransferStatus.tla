--------------------------- MODULE TransferStatus ---------------------------
(***************************************************************************)
(* The status of a transfer and the two predicates every change of it goes *)
(* through (src/src/domain/transfer.rs): which transitions are legal, and  *)
(* in which statuses progress may be recorded.                             *)
(***************************************************************************)

Terminal == {"Completed", "Rejected", "Cancelled", "Failed"}

Status ==
  {"Preparing", "AwaitingApproval", "Connecting", "Transferring", "Paused"}
    \union Terminal

(***************************************************************************)
(* The pairs TransferView::transition accepts.  Every non-terminal status  *)
(* may be cancelled or failed; the rest is listed as in the code.          *)
(***************************************************************************)
Allowed ==
  ((Status \ Terminal) \X {"Cancelled", "Failed"})
    \union {<<"Preparing", "Connecting">>,
            <<"AwaitingApproval", "Connecting">>,
            <<"AwaitingApproval", "Rejected">>,
            <<"Connecting", "Transferring">>,
            <<"Connecting", "AwaitingApproval">>,
            <<"Transferring", "Paused">>,
            <<"Transferring", "Completed">>,
            <<"Paused", "Transferring">>}

\* A transition to the current status succeeds and changes nothing.
CanTransition(s, next) == <<s, next>> \in Allowed \/ (s \in Status /\ s = next)

\* record_progress refuses a transfer that is not active.
CanRecordProgress(s) == s \in {"Preparing", "Transferring", "Paused"}

=============================================================================
