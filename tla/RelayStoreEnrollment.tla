------------------------- MODULE RelayStoreEnrollment -------------------------
(***************************************************************************)
(* The refinement mapping from the relay's store to what enrollment        *)
(* promises: the three columns role, status and acl, and the scope rows,   *)
(* read together.                                                          *)
(***************************************************************************)
EXTENDS RelayStore

Standing == [d \in Device |-> CASE status[d] = "active" -> role[d]
                                [] status[d] = "revoked" -> "revoked"
                                [] OTHER -> "unknown"]
ScopeState == [s \in Scope |-> IF s \in retired THEN "frozen" ELSE kind[s]]

E == INSTANCE Enrollment WITH standing <- Standing, scope <- ScopeState, access <- acl

(***************************************************************************)
(* Every call of the store is a step of the enrollment contract or leaves  *)
(* what the contract speaks of alone (RelayStore interface, store.ts).     *)
(***************************************************************************)
ImplementsEnrollment == E!Spec
=============================================================================
