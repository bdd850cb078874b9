----------------------------- MODULE MCRelayStore -----------------------------
(* Small instances of the relay's store for TLC. *)
EXTENDS RelayStoreEnrollment, TLC

Symmetry == Permutations(Device) \cup Permutations(Scope) \cup Permutations(Sid)
              \cup Permutations(Code)
=============================================================================
