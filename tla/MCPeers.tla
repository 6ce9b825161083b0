------------------------------ MODULE MCPeers ------------------------------
(***************************************************************************)
(* An instance of Peers: one device, one user interface, one offer at a    *)
(* time, all of them again and again.                                      *)
(***************************************************************************)
EXTENDS Peers
=============================================================================
