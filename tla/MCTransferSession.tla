-------------------------- MODULE MCTransferSession --------------------------
(***************************************************************************)
(* TLC instances of TransferSession.  Users may make any call at any time; *)
(* each run chooses which calls and which faults it admits.                *)
(***************************************************************************)
EXTENDS TransferInvariants

CONSTANTS f1, f2, f3

ThreeFiles == {f1, f2, f3}
OneEmpty == {f2}
=============================================================================
