----------------------------- MODULE MCFirstSetup -----------------------------
(* Small instances of first setup for TLC. *)
EXTENDS FirstSetup, TLC

Symmetry == Permutations(Profile) \cup Permutations(Slot) \cup Permutations(Device)
              \cup Permutations(Scope) \cup Permutations(Code) \cup Permutations(Recovery)
=============================================================================
