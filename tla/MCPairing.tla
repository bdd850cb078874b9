------------------------------- MODULE MCPairing -------------------------------
(* Pairing for TLC: one deployment, two sids, one or two devices to add. *)
EXTENDS Pairing
=============================================================================
