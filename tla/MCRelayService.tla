--------------------------- MODULE MCRelayService ---------------------------
(* The relay for TLC.  Routes: two owners, one key to add, two scopes, one *)
(* document.  Redeem guard: two addresses, two attempts at once.  The two  *)
(* share no state and are explored one at a time.                          *)
EXTENDS RelayService, RedeemGuard, TLC

CONSTANTS o1, o2, m, s

MCOwners == {o1, o2}
MCGrants == {{<<m, "master">>}, {<<s, "period">>}}
Symmetry == Permutations(MCOwners) \cup Permutations(Slot)

VARIABLE part  \* what a behaviour is about

MCInit ==
    /\ part \in {"routes", "guard"} /\ ServiceInit /\ GuardInit
    /\ part = "guard" => \A d \in Device \ Owner : status[d] = "none"
MCNext ==
    /\ \/ part = "routes" /\ ServiceNext /\ UNCHANGED redeemVars
       \/ part = "guard" /\ GuardNext /\ UNCHANGED vars
    /\ UNCHANGED part
MCSpec == MCInit /\ [][MCNext]_<<vars, redeemVars, part>>
=============================================================================
