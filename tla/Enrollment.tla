------------------------------ MODULE Enrollment ------------------------------
(***************************************************************************)
(* What enrollment promises, with no codes, sessions or clock: who belongs *)
(* to a deployment, which scopes it has, and who may read which.  It is    *)
(* the contract that the relay's store (RelayStore) is shown to implement; *)
(* it models no code of its own.                                           *)
(***************************************************************************)
CONSTANTS Device, Scope

VARIABLES
    standing,  \* device -> "unknown", "owner", "member" or "revoked"
    scope,     \* tag -> "none", "master", "period" or "frozen"
    access     \* device -> the tags it may read

vars == <<standing, scope, access>>

Init ==
    /\ standing = [d \in Device |-> "unknown"]
    /\ scope = [s \in Scope |-> "none"]
    /\ access = [d \in Device |-> {}]

Owners == {d \in Device : standing[d] = "owner"}

(***************************************************************************)
(* d enters (or already belongs) as r and receives access to the tags S.   *)
(* Members enter only while there is an owner to admit them.  S holds no   *)
(* frozen scope; a member's S holds no master; a tag first granted is      *)
(* registered here, and at most one scope is ever the master.              *)
(***************************************************************************)
Admit(d, r, S) ==
    /\ standing[d] \in {"unknown", r}
    /\ r = "member" /\ standing[d] = "unknown" => Owners # {}
    /\ standing' = [standing EXCEPT ![d] = r]
    /\ access' = [access EXCEPT ![d] = @ \cup S]
    /\ \A s \in Scope :
          /\ scope[s] = "none" /\ s \in S => scope'[s] \in {"master", "period"}
          /\ scope[s] # "none" \/ s \notin S => scope'[s] = scope[s]
          /\ s \in S => scope[s] # "frozen"
          /\ s \in S /\ r = "member" => scope'[s] # "master"
    /\ scope' \in [Scope -> {"none", "master", "period", "frozen"}]
    /\ \A s, t \in Scope : scope'[s] = "master" /\ scope'[t] = "master" => s = t

Freeze(s) ==
    /\ scope[s] = "period"
    /\ scope' = [scope EXCEPT ![s] = "frozen"]
    /\ UNCHANGED <<standing, access>>

\* Expulsion is final and takes the access away with it; an owner remains.
Expel(d) ==
    /\ standing[d] \in {"owner", "member"}
    /\ Owners # {d}
    /\ standing' = [standing EXCEPT ![d] = "revoked"]
    /\ access' = [access EXCEPT ![d] = {}]
    /\ UNCHANGED scope

Next ==
    \/ \E d \in Device, r \in {"owner", "member"}, S \in SUBSET Scope : Admit(d, r, S)
    \/ \E s \in Scope : Freeze(s)
    \/ \E d \in Device : Expel(d)

Spec == Init /\ [][Next]_vars
=============================================================================
