--------------------------- MODULE RelayStore_proofs ---------------------------
(***************************************************************************)
(* Proofs about the relay's store, for every set of keys, scopes, codes    *)
(* and sessions and every value of the bounds.                             *)
(*                                                                         *)
(* The safety invariants of RelayStore hold each other up: access lists    *)
(* can be kept from members only while registered tags are the only ones   *)
(* in them, sessions are live only while revocation empties what a device  *)
(* left, and an owner remains only because members enter through an active *)
(* owner's session.  StoreInv is their conjunction with two facts about    *)
(* the rows themselves, and it is inductive.                               *)
(***************************************************************************)
EXTENDS RelayStoreEnrollment, FiniteSetTheorems, TLAPS

\* A key has a role exactly when it has a row; only period scopes retire.
RowsAgree ==
    /\ \A d \in Device : role[d] = "none" <=> status[d] = "none"
    /\ \A s \in retired : kind[s] = "period"

\* The part that is about devices, scopes and access, whatever the sessions are.
RowsInv ==
    /\ StoreTypeOK
    /\ RowsAgree
    /\ MasterStaysWithTheOwners
    /\ AccessOnlyForActiveDevices
    /\ OwnerRemains

StoreInv ==
    /\ StoreTypeOK
    /\ RowsAgree
    /\ MasterStaysWithTheOwners
    /\ AccessOnlyForActiveDevices
    /\ OwnerRemains
    /\ SessionsAreLive

-----------------------------------------------------------------------------
(* Type correctness *)

\* The columns have their types in the empty database the migrations create.
LEMMA InitType == StoreInit => StoreTypeOK
BY StoreAssumption DEF StoreInit, StoreTypeOK

\* What a grant writes is of the type of the scope tables, whatever is granted.
LEMMA WriteGrantType ==
    ASSUME StoreTypeOK, NEW d \in Device, NEW grants \in SUBSET (Scope \X Kind),
           WriteGrant(d, grants)
    PROVE  /\ kind' \in [Scope -> Kind \cup {"none"}]
           /\ retired' \in SUBSET Scope
           /\ acl' \in [Device -> SUBSET Scope]
<1>1. kind' \in [Scope -> Kind \cup {"none"}]
  <2>1. \A s \in Scope :
          (CASE kind[s] = "none" /\ <<s, "master">> \in grants -> "master"
             [] kind[s] = "none" /\ <<s, "period">> \in grants -> "period"
             [] OTHER -> kind[s]) \in Kind \cup {"none"}
    BY DEF StoreTypeOK, Kind
  <2>. QED BY <2>1 DEF WriteGrant
<1>2. {g[1] : g \in grants} \in SUBSET Scope
  OBVIOUS
<1>. QED BY <1>1, <1>2 DEF WriteGrant, StoreTypeOK

\* Every store method keeps the types (store.ts, InMemoryRelayStore).
LEMMA NextType == StoreTypeOK /\ [StoreNext]_storeVars => StoreTypeOK'
<1> SUFFICES ASSUME StoreTypeOK, [StoreNext]_storeVars PROVE StoreTypeOK'
  OBVIOUS
<1> USE StoreAssumption, NoSessionAssumption
<1>1. ASSUME NEW c \in Code, IssueOwnerCode(c) PROVE StoreTypeOK'
  BY <1>1 DEF IssueOwnerCode, StoreTypeOK, deviceVars, scopeVars
<1>2. ASSUME NEW c \in Code, NEW d \in Device, RedeemOwnerCode(c, d) PROVE StoreTypeOK'
  BY <1>2 DEF RedeemOwnerCode, StoreTypeOK, scopeVars, Role
<1>3. ASSUME InvalidateOwnerCodes PROVE StoreTypeOK'
  BY <1>3 DEF InvalidateOwnerCodes, NoCode, StoreTypeOK, deviceVars, scopeVars
<1>4. ASSUME NEW d \in Device, NEW grants \in SUBSET (Scope \X Kind), GrantScopes(d, grants)
      PROVE StoreTypeOK'
  <2>1. WriteGrant(d, grants)
    BY <1>4 DEF GrantScopes
  <2>. QED BY <1>4, <2>1, WriteGrantType DEF GrantScopes, StoreTypeOK, deviceVars
<1>5. ASSUME NEW s \in Scope, RetireScope(s) PROVE StoreTypeOK'
  BY <1>5 DEF RetireScope, StoreTypeOK, deviceVars
<1>6. ASSUME NEW d \in Device, Revoke(d) PROVE StoreTypeOK'
  BY <1>6 DEF Revoke, StoreTypeOK
<1>7. ASSUME NEW x \in Sid, NEW d \in Device, OpenPairing(x, d) PROVE StoreTypeOK'
  <2>1. [opener |-> d, expiresAt |-> now + PairingTTL, signer |-> NoDevice, granted |-> FALSE]
          \in Session
    BY DEF Session, StoreTypeOK
  <2>. QED BY <1>7, <2>1 DEF OpenPairing, StoreTypeOK, deviceVars, scopeVars
<1>8. ASSUME NEW x \in Sid, NEW d \in Device, PutPairingRequest(x, d) PROVE StoreTypeOK'
  <2>1. pairings[x] \in Session
    BY <1>8 DEF PutPairingRequest, IsOpen, StoreTypeOK
  <2>2. [pairings[x] EXCEPT !.signer = d] \in Session
    BY <2>1 DEF Session
  <2>. QED BY <1>8, <2>2 DEF PutPairingRequest, StoreTypeOK, deviceVars, scopeVars
<1>9. ASSUME NEW x \in Sid, NEW o \in Device, NEW d \in Device, NEW r \in Role,
             NEW grants \in SUBSET (Scope \X Kind), CompletePairing(x, o, d, r, grants)
      PROVE StoreTypeOK'
  <2>1. pairings[x] \in Session
    BY <1>9 DEF CompletePairing, AwaitsGrant, IsOpen, StoreTypeOK
  <2>2. [pairings[x] EXCEPT !.granted = TRUE] \in Session
    BY <2>1 DEF Session
  <2>3. WriteGrant(d, grants)
    BY <1>9 DEF CompletePairing
  <2>4. pairings' \in [Sid -> Session \cup {NoSession}]
    BY <1>9, <2>2 DEF CompletePairing, StoreTypeOK
  <2>. QED BY <1>9, <2>3, <2>4, WriteGrantType DEF CompletePairing, StoreTypeOK, Role
<1>10. ASSUME NEW x \in Sid, NEW d \in Device, TakePairingGrant(x, d) PROVE StoreTypeOK'
  BY <1>10 DEF TakePairingGrant, StoreTypeOK, deviceVars, scopeVars
<1>11. ASSUME SweepExpired PROVE StoreTypeOK'
  BY <1>11 DEF SweepExpired, NoCode, StoreTypeOK, deviceVars, scopeVars
<1>12. ASSUME Tick PROVE StoreTypeOK'
  BY <1>12 DEF Tick, StoreTypeOK, deviceVars, scopeVars
<1>13. CASE UNCHANGED storeVars
  BY <1>13 DEF storeVars, StoreTypeOK
<1>. QED
  BY <1>1, <1>2, <1>3, <1>4, <1>5, <1>6, <1>7, <1>8, <1>9, <1>10, <1>11, <1>12, <1>13
  DEF StoreNext

(***************************************************************************)
(* Type correctness of the store: the tables keep the types of their       *)
(* columns under any sequence of calls (store.ts StoredDevice ... Pairing).*)
(***************************************************************************)
THEOREM StoreTypeCorrect == StoreSpec => []StoreTypeOK
<1>. QED BY InitType, NextType, PTL DEF StoreSpec

-----------------------------------------------------------------------------
(* The safety invariants *)

\* With an active owner or a master scope a redeem reports "recovery".
LEMMA RecoveryMode == ActiveOwners # {} => RedeemMode = "recovery"
BY DEF RedeemMode

\* Nothing is registered in a fresh database, so every invariant holds.
LEMMA InitInv == StoreInit => StoreInv
<1> SUFFICES ASSUME StoreInit PROVE StoreInv
  OBVIOUS
<1>. QED
  BY InitType, NoSessionAssumption
  DEF StoreInit, StoreInv, RowsAgree, MasterStaysWithTheOwners, AccessOnlyForActiveDevices,
      OwnerRemains, SessionsAreLive, ActiveOwners, Masters

(***************************************************************************)
(* A grant that passes checkGrant for a device whose row is (r, "active")  *)
(* after the step keeps the scope invariants: no second master, none in a  *)
(* member's access list, no unregistered tag in any.                       *)
(***************************************************************************)
LEMMA GrantKeepsScopes ==
    ASSUME RowsInv, NEW d \in Device, NEW r \in Role, NEW grants \in SUBSET (Scope \X Kind),
           CheckGrant(r, "active", grants), WriteGrant(d, grants),
           status[d] \in {"none", "active"}, status[d] = "active" => role[d] = r,
           role' = [role EXCEPT ![d] = r], status' = [status EXCEPT ![d] = "active"]
    PROVE  /\ MasterStaysWithTheOwners'
           /\ AccessOnlyForActiveDevices'
           /\ \A s \in retired' : kind'[s] = "period"
           /\ \A s \in Scope : kind[s] # "none" => kind'[s] = kind[s]
<1> USE DEF RowsInv, StoreTypeOK
<1>1. kind' \in [Scope -> Kind \cup {"none"}] /\ retired' = retired
      /\ acl' = [acl EXCEPT ![d] = @ \cup {g[1] : g \in grants}]
  BY WriteGrantType DEF WriteGrant
<1>2. \A s \in Scope : kind[s] # "none" => kind'[s] = kind[s]
  BY DEF WriteGrant
<1>3. \A g \in grants : g[1] \in Scope /\ g[2] \in Kind /\ g = <<g[1], g[2]>>
  BY DEF Kind
<1>4. \A g \in grants : kind'[g[1]] = g[2]
  <2> SUFFICES ASSUME NEW g \in grants PROVE kind'[g[1]] = g[2]
    OBVIOUS
  <2>1. g[1] \in Scope /\ g[2] \in {"master", "period"} /\ <<g[1], g[2]>> \in grants
    BY <1>3 DEF Kind
  <2>2. kind[g[1]] \in {"none", g[2]}
    BY DEF CheckGrant, ScopeAcceptable
  <2>3. \A k \in Kind : <<g[1], k>> \in grants => k = g[2]
    BY <2>1 DEF CheckGrant
  <2>. QED BY <2>1, <2>2, <2>3 DEF WriteGrant, Kind
<1>5. \A s \in Scope : kind'[s] # kind[s] => \E g \in grants : g[1] = s
  BY DEF WriteGrant
<1>6. \A s, t \in Masters' : s = t
  <2> SUFFICES ASSUME NEW s \in Masters', NEW t \in Masters', s # t PROVE FALSE
    OBVIOUS
  <2>1. s \in Scope /\ t \in Scope /\ kind'[s] = "master" /\ kind'[t] = "master"
    BY DEF Masters
  <2>2. \A u \in Scope : kind'[u] = "master" =>
          kind[u] = "master" \/ \E g \in grants : g[1] = u /\ g[2] = "master"
    BY <1>4, <1>5
  <2>3. CASE kind[s] = "master" /\ kind[t] = "master"
    BY <2>1, <2>3 DEF MasterStaysWithTheOwners, Masters
  <2>4. ASSUME NEW g \in grants, g[2] = "master", NEW u \in Scope, u # g[1]
        PROVE kind[u] # "master"
    BY <2>4 DEF CheckGrant, ScopeAcceptable, Masters
  <2>5. ASSUME NEW g \in grants, NEW h \in grants, g[2] = "master", h[2] = "master"
        PROVE g = h
    BY <2>5 DEF CheckGrant
  <2>. QED BY <2>1, <2>2, <2>3, <2>4, <2>5
<1>7. ASSUME NEW e \in Device, role'[e] = "member" PROVE acl'[e] \cap Masters' = {}
  <2>1. CASE e = d
    <3>1. \A g \in grants : kind'[g[1]] # "master"
      BY <1>4, <1>7, <2>1 DEF CheckGrant, ScopeAcceptable
    <3>2. acl[d] = {} \/ role[d] = "member"
      BY <1>7, <2>1 DEF AccessOnlyForActiveDevices
    <3>3. \A s \in acl[d] : s \in Scope /\ kind'[s] = kind[s] /\ kind[s] # "master"
      BY <1>2, <3>2 DEF MasterStaysWithTheOwners, Masters, AccessOnlyForActiveDevices
    <3>. QED BY <1>1, <2>1, <3>1, <3>3 DEF Masters
  <2>2. CASE e # d
    <3>1. acl'[e] = acl[e] /\ role[e] = "member"
      BY <1>1, <1>7, <2>2
    <3>2. \A s \in acl[e] : s \in Scope /\ kind'[s] = kind[s] /\ kind[s] # "master"
      BY <1>2, <3>1 DEF MasterStaysWithTheOwners, Masters, AccessOnlyForActiveDevices
    <3>. QED BY <3>1, <3>2 DEF Masters
  <2>. QED BY <2>1, <2>2
<1>8. AccessOnlyForActiveDevices'
  <2> SUFFICES ASSUME NEW e \in Device, acl'[e] # {}
               PROVE status'[e] = "active" /\ \A s \in acl'[e] : kind'[s] # "none"
    BY DEF AccessOnlyForActiveDevices
  <2>1. \A s \in acl[e] : s \in Scope /\ kind'[s] # "none"
    BY <1>2 DEF AccessOnlyForActiveDevices
  <2>2. CASE e = d
    BY <1>1, <1>3, <1>4, <2>1, <2>2 DEF Kind
  <2>3. CASE e # d
    BY <1>1, <2>1, <2>3 DEF AccessOnlyForActiveDevices
  <2>. QED BY <2>2, <2>3
<1>9. \A s \in retired' : kind'[s] = "period"
  BY <1>1, <1>2 DEF RowsAgree
<1>. QED BY <1>2, <1>6, <1>7, <1>8, <1>9 DEF MasterStaysWithTheOwners

\* The steps that touch neither devices nor scopes nor access lists keep every
\* invariant but the one on sessions.
LEMMA QuietStep ==
    ASSUME RowsInv, UNCHANGED <<deviceVars, scopeVars>>
    PROVE  /\ RowsAgree' /\ MasterStaysWithTheOwners' /\ AccessOnlyForActiveDevices'
           /\ OwnerRemains'
           /\ ActiveOwners' = ActiveOwners
<1>1. ActiveOwners' = ActiveOwners /\ Masters' = Masters
  BY DEF deviceVars, scopeVars, ActiveOwners, Masters
<1>2. RowsAgree' /\ AccessOnlyForActiveDevices' /\ MasterStaysWithTheOwners'
  BY <1>1 DEF RowsInv, deviceVars, scopeVars, RowsAgree, AccessOnlyForActiveDevices,
     MasterStaysWithTheOwners
<1>3. RedeemMode' = RedeemMode
  BY <1>1 DEF RedeemMode
<1>. QED BY <1>1, <1>2, <1>3 DEF RowsInv, OwnerRemains, deviceVars

\* Sessions stay live in a step that only deletes sessions while no device
\* loses its standing.
LEMMA FewerSessions ==
    ASSUME StoreInv, \A x \in Sid : pairings'[x] \in {pairings[x], NoSession},
           \A d \in Device : status[d] # "none" => role'[d] = role[d] /\ status'[d] = status[d],
           \A d \in Device : status[d] = "none" => status'[d] # "revoked"
    PROVE  SessionsAreLive'
<1> SUFFICES ASSUME NEW x \in Sid, pairings'[x] # NoSession
             PROVE  /\ pairings'[x].opener \in ActiveOwners'
                    /\ pairings'[x].signer # pairings'[x].opener
                    /\ pairings'[x].signer # NoDevice => status'[pairings'[x].signer] # "revoked"
                    /\ pairings'[x].granted => /\ pairings'[x].signer # NoDevice
                                              /\ status'[pairings'[x].signer] = "active"
  BY DEF SessionsAreLive
<1>1. pairings'[x] = pairings[x] /\ pairings[x] \in Session
  BY DEF StoreInv, StoreTypeOK
<1>. QED BY <1>1 DEF StoreInv, StoreTypeOK, SessionsAreLive, ActiveOwners, Session

\* redeemOwnerCode keeps the invariants: the new owner has no access list yet.
LEMMA RedeemRows ==
    ASSUME RowsInv, NEW c \in Code, NEW d \in Device, RedeemOwnerCode(c, d)
    PROVE  RowsInv'
<1> USE DEF RedeemOwnerCode, FreshKey, scopeVars
<1>1. role \in [Device -> Role \cup {"none"}] /\ status \in [Device -> {"none", "active", "revoked"}]
  BY DEF RowsInv, StoreTypeOK
<1>2. RowsAgree' /\ AccessOnlyForActiveDevices'
  BY <1>1 DEF RowsInv, RowsAgree, AccessOnlyForActiveDevices
<1>3. MasterStaysWithTheOwners'
  BY <1>1 DEF RowsInv, MasterStaysWithTheOwners, Masters
<1>4. ActiveOwners' # {}
  BY <1>1 DEF ActiveOwners
<1>5. OwnerRemains'
  BY <1>4 DEF OwnerRemains, RedeemMode
<1>6. StoreTypeOK'
  BY NextType DEF RowsInv, StoreNext
<1>. QED BY <1>2, <1>3, <1>5, <1>6 DEF RowsInv

\* grantScopes keeps the invariants (checkGrant against the grantee's row).
LEMMA GrantRows ==
    ASSUME RowsInv, NEW d \in Device, NEW grants \in SUBSET (Scope \X Kind),
           GrantScopes(d, grants)
    PROVE  RowsInv'
<1>1. /\ CheckGrant(role[d], status[d], grants) /\ WriteGrant(d, grants)
      /\ UNCHANGED <<deviceVars, pairings>>
  BY DEF GrantScopes
<1>2. /\ role \in [Device -> Role \cup {"none"}]
      /\ status \in [Device -> {"none", "active", "revoked"}]
      /\ role[d] # "none" <=> status[d] # "none"
  BY DEF RowsInv, StoreTypeOK, RowsAgree
<1>3. status[d] = "active" /\ role[d] \in Role
  BY <1>1, <1>2 DEF CheckGrant
<1>4. role' = [role EXCEPT ![d] = role[d]] /\ status' = [status EXCEPT ![d] = "active"]
  BY <1>1, <1>2, <1>3 DEF deviceVars
<1>5. /\ MasterStaysWithTheOwners' /\ AccessOnlyForActiveDevices'
      /\ \A s \in retired' : kind'[s] = "period"
  BY <1>1, <1>3, <1>4, GrantKeepsScopes
<1>6. ActiveOwners' = ActiveOwners
  BY <1>1 DEF ActiveOwners, deviceVars
<1>7. OwnerRemains'
  BY <1>1, <1>6 DEF RowsInv, OwnerRemains, RedeemMode, deviceVars
<1>8. RowsAgree'
  BY <1>1, <1>5 DEF RowsInv, RowsAgree, deviceVars
<1>9. StoreTypeOK'
  BY NextType DEF RowsInv, StoreNext
<1>. QED BY <1>5, <1>7, <1>8, <1>9 DEF RowsInv

\* retireScope keeps them: only a period scope retires.
LEMMA RetireRows ==
    ASSUME RowsInv, NEW s \in Scope, RetireScope(s)
    PROVE  RowsInv'
<1>1. /\ kind[s] = "period" /\ retired' = retired \cup {s}
      /\ UNCHANGED <<deviceVars, kind, acl, pairings>>
  BY DEF RetireScope
<1>2. RowsAgree' /\ MasterStaysWithTheOwners' /\ AccessOnlyForActiveDevices'
  BY <1>1 DEF RowsInv, RowsAgree, MasterStaysWithTheOwners, Masters,
     AccessOnlyForActiveDevices, deviceVars
<1>3. OwnerRemains'
  BY <1>1 DEF RowsInv, OwnerRemains, RedeemMode, ActiveOwners, Masters, deviceVars
<1>4. StoreTypeOK'
  BY NextType DEF RowsInv, StoreNext
<1>. QED BY <1>2, <1>3, <1>4 DEF RowsInv

\* revoke keeps the invariants: another owner is active.
LEMMA RevokeRows ==
    ASSUME RowsInv, NEW d \in Device, Revoke(d)
    PROVE  RowsInv'
<1> USE DEF RowsInv, StoreTypeOK
<1>1. /\ status[d] = "active" /\ ActiveOwners # {d} /\ UNCHANGED <<role, kind, retired>>
      /\ status' = [status EXCEPT ![d] = "revoked"] /\ acl' = [acl EXCEPT ![d] = {}]
      /\ pairings' = [x \in Sid |-> IF x \in SessionsOf(d) THEN NoSession ELSE pairings[x]]
  BY DEF Revoke, Revocable
<1>2. RowsAgree'
  BY <1>1 DEF RowsAgree
<1>3. MasterStaysWithTheOwners'
  BY <1>1 DEF MasterStaysWithTheOwners, Masters
<1>4. AccessOnlyForActiveDevices'
  BY <1>1 DEF AccessOnlyForActiveDevices
<1>5. ActiveOwners' = ActiveOwners \ {d}
  BY <1>1 DEF ActiveOwners
<1>6. OwnerRemains'
  <2>1. ActiveOwners # {} => ActiveOwners' # {}
    BY <1>1, <1>5
  <2>. QED BY <1>1, <2>1, RecoveryMode DEF OwnerRemains, RedeemMode
<1>7. StoreTypeOK'
  BY NextType DEF RowsInv, StoreNext
<1>. QED BY <1>2, <1>3, <1>4, <1>6, <1>7 DEF RowsInv

\* ... and what the device opened or asked for is gone with it.
LEMMA RevokeSessions ==
    ASSUME StoreInv, NEW d \in Device, Revoke(d)
    PROVE  SessionsAreLive'
<1> USE DEF StoreInv, StoreTypeOK
<1>1. /\ status[d] = "active" /\ UNCHANGED role
      /\ status' = [status EXCEPT ![d] = "revoked"]
      /\ pairings' = [x \in Sid |-> IF x \in SessionsOf(d) THEN NoSession ELSE pairings[x]]
  BY DEF Revoke, Revocable
<1>2. ActiveOwners' = ActiveOwners \ {d}
  BY <1>1 DEF ActiveOwners
<1> SUFFICES ASSUME NEW x \in Sid, pairings'[x] # NoSession
             PROVE  /\ pairings'[x].opener \in ActiveOwners'
                    /\ pairings'[x].signer # pairings'[x].opener
                    /\ pairings'[x].signer # NoDevice => status'[pairings'[x].signer] # "revoked"
                    /\ pairings'[x].granted => /\ pairings'[x].signer # NoDevice
                                              /\ status'[pairings'[x].signer] = "active"
  BY DEF SessionsAreLive
<1>3. pairings'[x] = pairings[x] /\ x \notin SessionsOf(d) /\ pairings[x] \in Session
  BY <1>1
<1>4. pairings[x].opener # d /\ pairings[x].signer # d
  BY <1>3 DEF SessionsOf
<1>. QED BY <1>1, <1>2, <1>3, <1>4 DEF SessionsAreLive, Session

\* completePairing keeps the invariants: the opener is an active owner, so a
\* member never enters a deployment without one.
LEMMA CompleteInv ==
    ASSUME StoreInv, NEW x \in Sid, NEW o \in Device, NEW d \in Device, NEW r \in Role,
           NEW grants \in SUBSET (Scope \X Kind), CompletePairing(x, o, d, r, grants)
    PROVE  RowsAgree' /\ MasterStaysWithTheOwners' /\ AccessOnlyForActiveDevices'
           /\ OwnerRemains' /\ SessionsAreLive'
<1>1. /\ AwaitsGrant(x, o) /\ EnrollmentOK(x, d, r) /\ WriteGrant(d, grants)
      /\ role' = [role EXCEPT ![d] = r] /\ status' = [status EXCEPT ![d] = "active"]
      /\ pairings' = [pairings EXCEPT ![x].granted = TRUE]
  BY DEF CompletePairing
<1>2. /\ role \in [Device -> Role \cup {"none"}]
      /\ status \in [Device -> {"none", "active", "revoked"}]
      /\ \A e \in Device : role[e] = "none" <=> status[e] = "none"
  BY DEF StoreInv, StoreTypeOK, RowsAgree
<1>3. status[d] \in {"none", "active"} /\ (status[d] = "active" => role[d] = r)
      /\ CheckGrant(r, "active", grants)
  <2>1. CASE status[d] = "none"
    BY <2>1 DEF CompletePairing
  <2>2. CASE status[d] # "none"
    <3>1. CheckGrant(role[d], status[d], grants)
      BY <2>2 DEF CompletePairing
    <3>. QED BY <1>1, <3>1 DEF CheckGrant, EnrollmentOK
  <2>. QED BY <2>1, <2>2
<1>4. /\ MasterStaysWithTheOwners' /\ AccessOnlyForActiveDevices'
      /\ \A s \in retired' : kind'[s] = "period"
  BY <1>1, <1>3, GrantKeepsScopes DEF StoreInv, RowsInv
<1>5. RowsAgree'
  BY <1>1, <1>2, <1>4 DEF RowsAgree, Role
<1>6. \A e \in ActiveOwners : e \in ActiveOwners'
  BY <1>1, <1>2, <1>3 DEF ActiveOwners
<1>7. OwnerRemains'
  <2>1. o \in ActiveOwners'
    BY <1>1, <1>6 DEF AwaitsGrant
  <2>. QED BY <2>1 DEF OwnerRemains, RedeemMode
<1>8. SessionsAreLive'
  <2> SUFFICES ASSUME NEW y \in Sid, pairings'[y] # NoSession
               PROVE  /\ pairings'[y].opener \in ActiveOwners'
                      /\ pairings'[y].signer # pairings'[y].opener
                      /\ pairings'[y].signer # NoDevice => status'[pairings'[y].signer] # "revoked"
                      /\ pairings'[y].granted => /\ pairings'[y].signer # NoDevice
                                                /\ status'[pairings'[y].signer] = "active"
    BY DEF SessionsAreLive
  <2>0. pairings \in [Sid -> Session \cup {NoSession}] /\ NoDevice \notin Device
    BY StoreAssumption DEF StoreInv, StoreTypeOK
  <2>1. CASE y = x
    <3>1. pairings[x] # NoSession /\ pairings[x] \in Session /\ pairings[x].signer = d
      BY <1>1, <2>0 DEF AwaitsGrant, IsOpen, EnrollmentOK
    <3>2. pairings'[x] = [pairings[x] EXCEPT !.granted = TRUE]
      BY <1>1, <2>0
    <3>3. pairings'[x].opener = pairings[x].opener /\ pairings'[x].signer = d
      BY <3>1, <3>2 DEF Session
    <3>4. pairings[x].opener \in ActiveOwners /\ pairings[x].opener # d
      BY <3>1 DEF StoreInv, SessionsAreLive
    <3>5. status'[d] = "active" /\ d # NoDevice
      BY <1>1, <1>2, <2>0
    <3>. QED BY <1>6, <2>1, <3>3, <3>4, <3>5
  <2>2. CASE y # x
    <3>1. pairings'[y] = pairings[y] /\ pairings[y] \in Session
      BY <1>1, <2>0, <2>2
    <3>2. \A e \in Device : (status[e] # "revoked" => status'[e] # "revoked")
                           /\ (status[e] = "active" => status'[e] = "active")
      BY <1>1, <1>2
    <3>. QED BY <1>6, <3>1, <3>2 DEF StoreInv, SessionsAreLive, Session
  <2>. QED BY <2>1, <2>2
<1>. QED BY <1>4, <1>5, <1>7, <1>8

\* A session opened by an active owner, or a request put by a key that is not
\* revoked, is live.
LEMMA MailboxInv ==
    ASSUME StoreInv, NEW x \in Sid, NEW d \in Device,
           OpenPairing(x, d) \/ PutPairingRequest(x, d)
    PROVE  SessionsAreLive'
<1> SUFFICES ASSUME NEW y \in Sid, pairings'[y] # NoSession
             PROVE  /\ pairings'[y].opener \in ActiveOwners
                    /\ pairings'[y].signer # pairings'[y].opener
                    /\ pairings'[y].signer # NoDevice => status[pairings'[y].signer] # "revoked"
                    /\ pairings'[y].granted => /\ pairings'[y].signer # NoDevice
                                              /\ status[pairings'[y].signer] = "active"
  BY DEF OpenPairing, PutPairingRequest, SessionsAreLive, ActiveOwners, deviceVars
<1>0. pairings \in [Sid -> Session \cup {NoSession}] /\ NoDevice \notin Device
  BY StoreAssumption DEF StoreInv, StoreTypeOK
<1>1. CASE y # x
  <2>1. pairings'[y] = pairings[y]
    BY <1>0, <1>1 DEF OpenPairing, PutPairingRequest
  <2>. QED BY <2>1 DEF StoreInv, SessionsAreLive
<1>2. CASE y = x /\ OpenPairing(x, d)
  <2>1. pairings'[x] = [opener |-> d, expiresAt |-> now + PairingTTL, signer |-> NoDevice,
                        granted |-> FALSE]
    BY <1>0, <1>2 DEF OpenPairing
  <2>2. /\ pairings'[x].opener = d /\ pairings'[x].signer = NoDevice
        /\ pairings'[x].granted = FALSE
    BY <2>1
  <2>. QED BY <1>0, <1>2, <2>2 DEF OpenPairing
<1>3. CASE y = x /\ PutPairingRequest(x, d)
  <2>1. pairings[x] # NoSession /\ pairings[x] \in Session /\ pairings[x].signer = NoDevice
        /\ pairings[x].opener # d /\ status[d] # "revoked"
    BY <1>0, <1>3 DEF PutPairingRequest, IsOpen, RequestSlotFree
  <2>2. pairings'[x] = [pairings[x] EXCEPT !.signer = d]
    BY <1>0, <1>3 DEF PutPairingRequest
  <2>3. /\ pairings'[x].opener = pairings[x].opener /\ pairings'[x].signer = d
        /\ pairings'[x].granted = pairings[x].granted
    BY <2>1, <2>2 DEF Session
  <2>. QED BY <1>3, <2>1, <2>3 DEF StoreInv, SessionsAreLive
<1>. QED BY <1>1, <1>2, <1>3

\* The store's invariants survive every call (StoreNext).
LEMMA NextInv == StoreInv /\ [StoreNext]_storeVars => StoreInv'
<1> SUFFICES ASSUME StoreInv, [StoreNext]_storeVars PROVE StoreInv'
  OBVIOUS
<1>0. StoreTypeOK'
  BY NextType DEF StoreInv
<1>1. ASSUME UNCHANGED <<deviceVars, scopeVars>>,
             \A x \in Sid : pairings'[x] \in {pairings[x], NoSession}
      PROVE StoreInv'
  BY <1>0, <1>1, QuietStep, FewerSessions DEF StoreInv, RowsInv, deviceVars
<1>2. ASSUME UNCHANGED <<deviceVars, scopeVars>>, NEW x \in Sid, NEW d \in Device,
             OpenPairing(x, d) \/ PutPairingRequest(x, d)
      PROVE StoreInv'
  BY <1>0, <1>2, QuietStep, MailboxInv DEF StoreInv, RowsInv
<1>3. ASSUME NEW c \in Code, IssueOwnerCode(c) PROVE StoreInv'
  BY <1>3, <1>1 DEF IssueOwnerCode
<1>4. ASSUME NEW c \in Code, NEW d \in Device, RedeemOwnerCode(c, d) PROVE StoreInv'
  <2>1. RowsInv'
    BY <1>4, RedeemRows DEF StoreInv, RowsInv
  <2>2. SessionsAreLive'
    BY <1>4, FewerSessions DEF StoreInv, StoreTypeOK, RedeemOwnerCode, FreshKey
  <2>. QED BY <2>1, <2>2 DEF StoreInv, RowsInv
<1>5. ASSUME InvalidateOwnerCodes PROVE StoreInv'
  BY <1>5, <1>1 DEF InvalidateOwnerCodes
<1>6. ASSUME NEW d \in Device, NEW grants \in SUBSET (Scope \X Kind), GrantScopes(d, grants)
      PROVE StoreInv'
  <2>1. RowsInv'
    BY <1>6, GrantRows DEF StoreInv, RowsInv
  <2>2. SessionsAreLive'
    BY <1>6, FewerSessions DEF StoreInv, StoreTypeOK, GrantScopes, deviceVars
  <2>. QED BY <2>1, <2>2 DEF StoreInv, RowsInv
<1>7. ASSUME NEW s \in Scope, RetireScope(s) PROVE StoreInv'
  <2>1. RowsInv'
    BY <1>7, RetireRows DEF StoreInv, RowsInv
  <2>2. SessionsAreLive'
    BY <1>7 DEF StoreInv, RetireScope, SessionsAreLive, ActiveOwners, deviceVars
  <2>. QED BY <2>1, <2>2 DEF StoreInv, RowsInv
<1>8. ASSUME NEW d \in Device, Revoke(d) PROVE StoreInv'
  BY <1>8, RevokeRows, RevokeSessions DEF StoreInv, RowsInv
<1>9. ASSUME NEW x \in Sid, NEW d \in Device, OpenPairing(x, d) PROVE StoreInv'
  BY <1>9, <1>2 DEF OpenPairing
<1>10. ASSUME NEW x \in Sid, NEW d \in Device, PutPairingRequest(x, d) PROVE StoreInv'
  BY <1>10, <1>2 DEF PutPairingRequest
<1>11. ASSUME NEW x \in Sid, NEW o \in Device, NEW d \in Device, NEW r \in Role,
              NEW grants \in SUBSET (Scope \X Kind), CompletePairing(x, o, d, r, grants)
       PROVE StoreInv'
  BY <1>0, <1>11, CompleteInv DEF StoreInv
<1>12. ASSUME NEW x \in Sid, NEW d \in Device, TakePairingGrant(x, d) PROVE StoreInv'
  <2>1. \A y \in Sid : pairings'[y] \in {pairings[y], NoSession}
    BY <1>12 DEF TakePairingGrant, StoreInv, StoreTypeOK
  <2>. QED BY <1>12, <2>1, <1>1 DEF TakePairingGrant
<1>13. ASSUME SweepExpired PROVE StoreInv'
  BY <1>13, <1>1 DEF SweepExpired
<1>14. ASSUME Tick PROVE StoreInv'
  BY <1>14, <1>1 DEF Tick
<1>15. CASE UNCHANGED storeVars
  BY <1>15, <1>1 DEF storeVars, deviceVars, scopeVars
<1>. QED
  BY <1>3, <1>4, <1>5, <1>6, <1>7, <1>8, <1>9, <1>10, <1>11, <1>12, <1>13, <1>14, <1>15
  DEF StoreNext

\* StoreInv is an invariant of the store.
THEOREM StoreInvariant == StoreSpec => []StoreInv
<1>. QED BY InitInv, NextInv, PTL DEF StoreSpec

(***************************************************************************)
(* The master scope: at most one, and never in a member's access list      *)
(* (checkScope, checkEnrollment), for any number of devices and scopes.    *)
(***************************************************************************)
THEOREM MasterScopeSafe == StoreSpec => []MasterStaysWithTheOwners
<1>1. StoreInv => MasterStaysWithTheOwners
  BY DEF StoreInv
<1>. QED BY <1>1, StoreInvariant, PTL

\* Access lists: only registered tags, only for active devices (grantScopes, revoke).
THEOREM AccessSafe == StoreSpec => []AccessOnlyForActiveDevices
<1>1. StoreInv => AccessOnlyForActiveDevices
  BY DEF StoreInv
<1>. QED BY <1>1, StoreInvariant, PTL

(***************************************************************************)
(* The last owner (revoke): a deployment that has ever had an owner always *)
(* has an active one, and a redeem never again looks like a first setup.   *)
(***************************************************************************)
THEOREM OwnerAlwaysRemains == StoreSpec => []OwnerRemains
<1>1. StoreInv => OwnerRemains
  BY DEF StoreInv
<1>. QED BY <1>1, StoreInvariant, PTL

\* Pairing sessions: only devices that may still use them have any.
THEOREM SessionsAlwaysLive == StoreSpec => []SessionsAreLive
<1>1. StoreInv => SessionsAreLive
  BY DEF StoreInv
<1>. QED BY <1>1, StoreInvariant, PTL

-----------------------------------------------------------------------------
(* Action properties *)

\* What a step does to a device's row: nothing, an enrollment, or a revocation.
LEMMA DeviceStep ==
    ASSUME StoreInv, [StoreNext]_storeVars, NEW d \in Device
    PROVE  /\ role[d] # "none" => role'[d] = role[d]
           /\ status[d] = "revoked" => status'[d] = "revoked" /\ acl'[d] = {}
<1> USE DEF StoreInv, StoreTypeOK, RowsAgree
<1>1. ASSUME NEW c \in Code, NEW e \in Device, RedeemOwnerCode(c, e)
      PROVE  /\ role[d] # "none" => role'[d] = role[d]
             /\ status[d] = "revoked" => status'[d] = "revoked" /\ acl'[d] = acl[d]
  BY <1>1 DEF RedeemOwnerCode, FreshKey, scopeVars
<1>2. ASSUME NEW e \in Device, NEW grants \in SUBSET (Scope \X Kind), GrantScopes(e, grants)
      PROVE  role' = role /\ status' = status /\ (status[d] = "revoked" => acl'[d] = acl[d])
  BY <1>2 DEF GrantScopes, CheckGrant, WriteGrant, deviceVars
<1>3. ASSUME NEW e \in Device, Revoke(e)
      PROVE  role' = role /\ (status[d] = "revoked" => status'[d] = "revoked" /\ acl'[d] = acl[d])
  BY <1>3 DEF Revoke, Revocable
<1>4. ASSUME NEW x \in Sid, NEW o \in Device, NEW e \in Device, NEW r \in Role,
             NEW grants \in SUBSET (Scope \X Kind), CompletePairing(x, o, e, r, grants)
      PROVE  /\ role[d] # "none" => role'[d] = role[d]
             /\ status[d] = "revoked" => status'[d] = "revoked" /\ acl'[d] = acl[d]
  <2>1. status[e] # "revoked" /\ (status[e] = "active" => role[e] = r)
    BY <1>4 DEF CompletePairing, CheckGrant, EnrollmentOK
  <2>. QED BY <1>4, <2>1 DEF CompletePairing, WriteGrant
<1>5. status[d] = "revoked" => acl[d] = {}
  BY DEF AccessOnlyForActiveDevices
<1>. QED
  BY <1>1, <1>2, <1>3, <1>4, <1>5
  DEF StoreNext, storeVars, deviceVars, scopeVars, IssueOwnerCode, InvalidateOwnerCodes, RetireScope,
      OpenPairing, PutPairingRequest, TakePairingGrant, SweepExpired, Tick

(***************************************************************************)
(* Revocation is permanent (store.ts DeviceStatus): whatever is called     *)
(* afterwards, a revoked key is never active again and never reads again.  *)
(***************************************************************************)
THEOREM RevocationIsPermanent == StoreSpec => RevokedForever
<1>1. StoreInv /\ [StoreNext]_storeVars =>
        [\A d \in Device : status[d] = "revoked" => status'[d] = "revoked" /\ acl'[d] = {}]_storeVars
  BY DeviceStep
<1>. QED BY <1>1, StoreInvariant, PTL DEF StoreSpec, RevokedForever

\* What a step does to the scope rows: it registers new tags and retires old ones.
LEMMA ScopeStep ==
    ASSUME StoreInv, [StoreNext]_storeVars
    PROVE  /\ \A s \in Scope : kind[s] # "none" => kind'[s] = kind[s]
           /\ retired \subseteq retired'
<1>1. ASSUME NEW d \in Device, NEW grants \in SUBSET (Scope \X Kind), WriteGrant(d, grants)
      PROVE  retired' = retired /\ \A s \in Scope : kind[s] # "none" => kind'[s] = kind[s]
  BY <1>1 DEF WriteGrant
<1>. QED
  BY <1>1
  DEF StoreNext, storeVars, scopeVars, IssueOwnerCode, RedeemOwnerCode, InvalidateOwnerCodes,
      GrantScopes, RetireScope, Revoke, OpenPairing, PutPairingRequest, CompletePairing,
      TakePairingGrant, SweepExpired, Tick

\* Roles, kinds and retirement never change back (writeGrant, checkEnrollment).
THEOREM RowsAreFixed == StoreSpec => RolesAndKindsAreFixed
<1>1. StoreInv /\ [StoreNext]_storeVars =>
        [/\ \A d \in Device : role[d] # "none" => role'[d] = role[d]
         /\ \A s \in Scope : kind[s] # "none" => kind'[s] = kind[s]
         /\ retired \subseteq retired']_storeVars
  BY DeviceStep, ScopeStep
<1>. QED BY <1>1, StoreInvariant, PTL DEF StoreSpec, RolesAndKindsAreFixed

(***************************************************************************)
(* Enrollment (redeemOwnerCode, completePairing): every activation spends  *)
(* a live code or answers the request of a live owner's session, and no    *)
(* step activates two devices.                                             *)
(***************************************************************************)
THEOREM EnrollmentIsEarned == StoreSpec => EnrolledByCodeOrPairing
<1> DEFINE Earned(d) ==
      /\ \A e \in Device \ {d} : status'[e] = status[e]
      /\ \/ /\ role'[d] = "owner"
            /\ \E c \in Code : /\ codes[c].state = "unused" /\ codes[c].expiresAt > now
                                /\ codes'[c].state = "used"
         \/ \E x \in Sid : /\ AwaitsGrant(x, pairings[x].opener)
                            /\ pairings[x].signer = d
                            /\ pairings'[x] # NoSession /\ pairings'[x].granted
<1>1. ASSUME StoreInv, [StoreNext]_storeVars, NEW d \in Device,
             status[d] # "active", status'[d] = "active"
      PROVE  Earned(d)
  <2> USE <1>1 DEF StoreInv, StoreTypeOK
  <2>1. ASSUME NEW c \in Code, NEW e \in Device, RedeemOwnerCode(c, e) PROVE Earned(d)
    <3>1. e = d
      BY <2>1 DEF RedeemOwnerCode
    <3>2. \A f \in Device \ {d} : status'[f] = status[f]
      BY <2>1, <3>1 DEF RedeemOwnerCode
    <3>3. codes'[c].state = "used"
      BY <2>1 DEF RedeemOwnerCode
    <3>4. codes[c].state = "unused" /\ codes[c].expiresAt > now /\ role'[d] = "owner"
      BY <2>1, <3>1 DEF RedeemOwnerCode, CodeUsable
    <3>. QED BY <3>2, <3>3, <3>4
  <2>2. ASSUME NEW x \in Sid, NEW o \in Device, NEW e \in Device, NEW r \in Role,
               NEW grants \in SUBSET (Scope \X Kind), CompletePairing(x, o, e, r, grants)
        PROVE Earned(d)
    <3>1. e = d /\ AwaitsGrant(x, pairings[x].opener) /\ pairings[x].signer = d
      BY <2>2 DEF CompletePairing, AwaitsGrant, EnrollmentOK
    <3>2. \A f \in Device \ {d} : status'[f] = status[f]
      BY <2>2, <3>1 DEF CompletePairing
    <3>3. pairings[x] \in Session
      BY <3>1 DEF AwaitsGrant, IsOpen
    <3>4. pairings'[x] = [pairings[x] EXCEPT !.granted = TRUE]
      BY <2>2 DEF CompletePairing
    <3>5. pairings'[x] \in Session /\ pairings'[x].granted
      BY <3>3, <3>4 DEF Session
    <3>. QED BY <3>1, <3>2, <3>5, NoSessionAssumption
  <2>3. ASSUME NEW e \in Device, Revoke(e) PROVE status'[d] # "active"
    BY <2>3 DEF Revoke
  <2>. QED
    BY <2>1, <2>2, <2>3
    DEF StoreNext, storeVars, deviceVars, IssueOwnerCode, InvalidateOwnerCodes, GrantScopes,
        RetireScope, OpenPairing, PutPairingRequest, TakePairingGrant, SweepExpired, Tick
<1>2. StoreInv /\ [StoreNext]_storeVars =>
        [\A d \in Device : status[d] # "active" /\ status'[d] = "active" => Earned(d)]_storeVars
  BY <1>1
<1>. QED BY <1>2, StoreInvariant, PTL DEF StoreSpec, EnrolledByCodeOrPairing

(***************************************************************************)
(* MAX_OPEN_PAIRINGS (openPairing): the number of unexpired sessions never *)
(* passes the limit, whatever opens, completes, expires and is swept.      *)
(***************************************************************************)
THEOREM SessionsAreBounded == StoreSpec => []OpenSessionsBounded
<1>0. IsFiniteSet(OpenSids) /\ Cardinality(OpenSids) \in Nat
  BY StoreAssumption, FS_Subset, FS_CardinalityType DEF OpenSids
<1>1. StoreInit => OpenSessionsBounded
  <2>1. StoreInit => OpenSids = {}
    BY DEF StoreInit, OpenSids, IsOpen
  <2>. QED BY <2>1, StoreAssumption, FS_EmptySet DEF OpenSessionsBounded
<1>2. ASSUME StoreTypeOK, OpenSessionsBounded, OpenSids' \subseteq OpenSids
      PROVE OpenSessionsBounded'
  <2>1. Cardinality(OpenSids') <= Cardinality(OpenSids) /\ Cardinality(OpenSids') \in Nat
    BY <1>0, <1>2, FS_Subset, FS_CardinalityType
  <2>. QED BY <1>0, <1>2, <2>1, StoreAssumption DEF OpenSessionsBounded
<1>3. ASSUME StoreTypeOK, NEW x \in Sid, NEW d \in Device, OpenPairing(x, d)
      PROVE OpenSessionsBounded'
  <2>1. OpenSids' \subseteq OpenSids \cup {x}
    BY <1>3 DEF OpenPairing, OpenSids, IsOpen, StoreTypeOK
  <2>2. Cardinality(OpenSids') <= Cardinality(OpenSids) + 1 /\ Cardinality(OpenSids') \in Nat
    <3>1. IsFiniteSet(OpenSids \cup {x}) /\ Cardinality(OpenSids \cup {x}) <= Cardinality(OpenSids) + 1
      <4>1. /\ IsFiniteSet(OpenSids \cup {x})
            /\ Cardinality(OpenSids \cup {x}) = IF x \in OpenSids THEN Cardinality(OpenSids)
                                                ELSE Cardinality(OpenSids) + 1
        BY <1>0, FS_AddElement, Zenon
      <4>. QED BY <1>0, <4>1
    <3>2. Cardinality(OpenSids \cup {x}) \in Nat
      BY <3>1, FS_CardinalityType
    <3>3. Cardinality(OpenSids') <= Cardinality(OpenSids \cup {x}) /\ Cardinality(OpenSids') \in Nat
      BY <2>1, <3>1, FS_Subset, FS_CardinalityType
    <3>. QED BY <1>0, <3>1, <3>2, <3>3
  <2>3. Cardinality(OpenSids) < MaxOpenPairings
    BY <1>3 DEF OpenPairing, RoomForSession
  <2>. QED BY <1>0, <2>2, <2>3, StoreAssumption DEF OpenSessionsBounded
<1>4. ASSUME StoreTypeOK, [StoreNext]_storeVars,
             \A x \in Sid, d \in Device : ~OpenPairing(x, d)
      PROVE OpenSids' \subseteq OpenSids
  <2> SUFFICES ASSUME NEW x \in Sid, IsOpen(x)' PROVE IsOpen(x)
    BY DEF OpenSids
  <2>0. pairings \in [Sid -> Session \cup {NoSession}] /\ now \in Nat
    BY <1>4 DEF StoreTypeOK
  <2>1. CASE now' = now /\ pairings'[x] \in {pairings[x], NoSession}
    BY <2>1 DEF IsOpen
  <2>2. CASE pairings'[x] = pairings[x] /\ now' = now + 1
    <3>1. pairings[x] \in Session /\ pairings[x].expiresAt \in Nat
      BY <2>0, <2>2 DEF IsOpen, Session
    <3>. QED BY <2>0, <2>2, <3>1 DEF IsOpen
  <2>3. ASSUME NEW y \in Sid, NEW d \in Device, PutPairingRequest(y, d) PROVE IsOpen(x)
    <3>1. CASE y = x
      BY <2>3, <3>1 DEF PutPairingRequest
    <3>2. CASE y # x
      BY <2>0, <2>3, <3>2, <2>1 DEF PutPairingRequest
    <3>. QED BY <3>1, <3>2
  <2>4. ASSUME NEW y \in Sid, NEW o \in Device, NEW d \in Device, NEW r \in Role,
               NEW grants \in SUBSET (Scope \X Kind), CompletePairing(y, o, d, r, grants)
        PROVE IsOpen(x)
    <3>1. CASE y = x
      BY <2>4, <3>1 DEF CompletePairing, AwaitsGrant
    <3>2. CASE y # x
      BY <2>0, <2>4, <3>2, <2>1 DEF CompletePairing
    <3>. QED BY <3>1, <3>2
  <2>5. ASSUME NEW y \in Sid, NEW d \in Device, TakePairingGrant(y, d) PROVE IsOpen(x)
    BY <2>0, <2>5, <2>1 DEF TakePairingGrant
  <2>6. ASSUME SweepExpired PROVE IsOpen(x)
    BY <2>6, <2>1 DEF SweepExpired
  <2>7. ASSUME NEW d \in Device, Revoke(d) PROVE IsOpen(x)
    BY <2>7, <2>1 DEF Revoke
  <2>8. ASSUME Tick PROVE IsOpen(x)
    BY <2>8, <2>2 DEF Tick
  <2>. QED
    BY <1>4, <2>1, <2>3, <2>4, <2>5, <2>6, <2>7, <2>8
    DEF StoreNext, storeVars, IssueOwnerCode, RedeemOwnerCode, InvalidateOwnerCodes,
        GrantScopes, RetireScope
<1>5. StoreTypeOK /\ OpenSessionsBounded /\ [StoreNext]_storeVars => OpenSessionsBounded'
  BY <1>2, <1>3, <1>4
<1>. QED BY <1>1, <1>5, StoreTypeCorrect, PTL DEF StoreSpec

-----------------------------------------------------------------------------
(***************************************************************************)
(* The store implements the enrollment contract: under the mapping of      *)
(* RelayStoreEnrollment its initial state is the contract's, and every     *)
(* call is an Admit, a Freeze, an Expel or a stutter of it.  The mapping   *)
(* of a step rests on the store's invariants, the session-free RowsInv.    *)
(***************************************************************************)

\* An empty database is a deployment nobody belongs to.
LEMMA InitRefines == StoreInit => E!Init
BY DEF StoreInit, E!Init, Standing, ScopeState

\* The owners of the contract are the active owners of the store.
LEMMA SameOwners == RowsInv => E!Owners = ActiveOwners
BY DEF RowsInv, StoreTypeOK, RowsAgree, E!Owners, ActiveOwners, Standing, Role

(***************************************************************************)
(* A device whose row becomes (r, "active") with a grant that passes       *)
(* checkGrant is admitted with the granted tags.                           *)
(***************************************************************************)
LEMMA GrantAdmits ==
    ASSUME RowsInv, NEW d \in Device, NEW r \in Role, NEW grants \in SUBSET (Scope \X Kind),
           CheckGrant(r, "active", grants), WriteGrant(d, grants),
           status[d] \in {"none", "active"}, status[d] = "active" => role[d] = r,
           r = "member" /\ status[d] = "none" => ActiveOwners # {},
           role' = [role EXCEPT ![d] = r], status' = [status EXCEPT ![d] = "active"]
    PROVE  E!Next
<1> DEFINE S == {g[1] : g \in grants}
<1>0. /\ role \in [Device -> Role \cup {"none"}]
      /\ status \in [Device -> {"none", "active", "revoked"}]
      /\ retired \in SUBSET Scope /\ kind \in [Scope -> Kind \cup {"none"}]
      /\ acl \in [Device -> SUBSET Scope]
      /\ \A e \in Device : role[e] = "none" <=> status[e] = "none"
      /\ \A s \in retired : kind[s] = "period"
  BY DEF RowsInv, StoreTypeOK, RowsAgree
<1>1. kind' \in [Scope -> Kind \cup {"none"}] /\ retired' = retired
      /\ acl' = [acl EXCEPT ![d] = @ \cup S]
  BY WriteGrantType DEF WriteGrant, RowsInv
<1>2. /\ MasterStaysWithTheOwners'
      /\ AccessOnlyForActiveDevices'
      /\ \A s \in Scope : kind[s] # "none" => kind'[s] = kind[s]
  BY GrantKeepsScopes
<1>3. \A s \in S : s \in Scope /\ s \notin retired /\ kind'[s] # "none"
  <2>1. \A s \in S : s \in Scope /\ s \notin retired
    BY DEF CheckGrant, ScopeAcceptable
  <2>2. \A s \in S : s \in acl'[d]
    BY <1>0, <1>1
  <2>. QED BY <1>2, <2>1, <2>2 DEF AccessOnlyForActiveDevices
<1>4. \A s \in Scope : s \notin S => kind'[s] = kind[s]
  BY DEF WriteGrant
<1>5. r = "member" => \A s \in S : kind'[s] # "master"
  <2> SUFFICES ASSUME r = "member", NEW s \in S PROVE kind'[s] # "master"
    OBVIOUS
  <2>1. role'[d] = "member" /\ s \in acl'[d] /\ s \in Scope
    BY <1>0, <1>1, <1>3
  <2>. QED BY <1>2, <2>1 DEF MasterStaysWithTheOwners, Masters
<1>6. Standing' = [Standing EXCEPT ![d] = r]
  BY <1>0 DEF Standing, Role
<1>7. Standing[d] \in {"unknown", r}
  BY <1>0 DEF Standing
<1>8. r = "member" /\ Standing[d] = "unknown" => E!Owners # {}
  <2>1. Standing[d] = "unknown" => status[d] = "none"
    BY <1>0 DEF Standing, Role
  <2>. QED BY <2>1, SameOwners
<1>9. ScopeState' \in [Scope -> {"none", "master", "period", "frozen"}]
  BY <1>1 DEF ScopeState, Kind
<1>10. \A s \in Scope :
          /\ ScopeState[s] = "none" /\ s \in S => ScopeState'[s] \in {"master", "period"}
          /\ ScopeState[s] # "none" \/ s \notin S => ScopeState'[s] = ScopeState[s]
          /\ s \in S => ScopeState[s] # "frozen"
          /\ s \in S /\ r = "member" => ScopeState'[s] # "master"
  BY <1>0, <1>1, <1>2, <1>3, <1>4, <1>5 DEF ScopeState, Kind
<1>11. \A s, t \in Scope : ScopeState'[s] = "master" /\ ScopeState'[t] = "master" => s = t
  BY <1>2 DEF ScopeState, MasterStaysWithTheOwners, Masters
<1>12. E!Admit(d, r, S)
  BY <1>1, <1>6, <1>7, <1>8, <1>9, <1>10, <1>11 DEF E!Admit
<1>. QED
  <2>1. S \in SUBSET Scope /\ r \in {"owner", "member"}
    BY <1>3 DEF Role
  <2>. QED BY <1>12, <2>1 DEF E!Next

\* A redeem is the admission of an owner with no scopes yet.
LEMMA RedeemAdmits ==
    ASSUME RowsInv, NEW c \in Code, NEW d \in Device, RedeemOwnerCode(c, d)
    PROVE  E!Next
<1>0. /\ role \in [Device -> Role \cup {"none"}]
      /\ status \in [Device -> {"none", "active", "revoked"}]
      /\ retired \in SUBSET Scope /\ kind \in [Scope -> Kind \cup {"none"}]
      /\ acl \in [Device -> SUBSET Scope]
      /\ UNCHANGED <<kind, retired, acl>> /\ status[d] = "none"
      /\ role' = [role EXCEPT ![d] = "owner"] /\ status' = [status EXCEPT ![d] = "active"]
  BY DEF RowsInv, StoreTypeOK, RedeemOwnerCode, FreshKey, scopeVars
<1>1. Standing' = [Standing EXCEPT ![d] = "owner"] /\ Standing[d] = "unknown"
  BY <1>0 DEF Standing
<1>2. ScopeState' = ScopeState /\ acl' = [acl EXCEPT ![d] = @ \cup {}]
  BY <1>0 DEF ScopeState
<1>3. ScopeState \in [Scope -> {"none", "master", "period", "frozen"}]
  BY <1>0 DEF ScopeState, Kind
<1>4. \A s, t \in Scope : ScopeState[s] = "master" /\ ScopeState[t] = "master" => s = t
  BY DEF RowsInv, MasterStaysWithTheOwners, Masters, ScopeState
<1>5. E!Admit(d, "owner", {})
  BY <1>1, <1>2, <1>3, <1>4 DEF E!Admit
<1>. QED BY <1>5 DEF E!Next

\* Retiring a scope freezes it, and retiring it again changes nothing.
LEMMA RetireFreezes ==
    ASSUME RowsInv, NEW s \in Scope, RetireScope(s)
    PROVE  E!Next \/ UNCHANGED E!vars
<1>0. retired \in SUBSET Scope /\ kind \in [Scope -> Kind \cup {"none"}]
  BY DEF RowsInv, StoreTypeOK
<1>1. /\ kind[s] = "period" /\ retired' = retired \cup {s}
      /\ UNCHANGED <<role, status, kind, acl>>
  BY DEF RetireScope, deviceVars
<1>2. Standing' = Standing
  BY <1>1 DEF Standing
<1>3. CASE s \in retired
  BY <1>1, <1>2, <1>3 DEF E!vars, ScopeState
<1>4. CASE s \notin retired
  <2>1. ScopeState[s] = "period" /\ ScopeState' = [ScopeState EXCEPT ![s] = "frozen"]
    BY <1>0, <1>1, <1>4 DEF ScopeState
  <2>2. E!Freeze(s)
    BY <1>1, <1>2, <2>1 DEF E!Freeze
  <2>. QED BY <2>2 DEF E!Next
<1>. QED BY <1>3, <1>4

\* A revocation expels, and leaves another owner.
LEMMA RevokeExpels ==
    ASSUME RowsInv, NEW d \in Device, Revoke(d)
    PROVE  E!Next
<1>0. /\ role \in [Device -> Role \cup {"none"}]
      /\ status \in [Device -> {"none", "active", "revoked"}]
      /\ \A e \in Device : role[e] = "none" <=> status[e] = "none"
  BY DEF RowsInv, StoreTypeOK, RowsAgree
<1>1. /\ status[d] = "active" /\ ActiveOwners # {d} /\ UNCHANGED <<role, kind, retired>>
      /\ status' = [status EXCEPT ![d] = "revoked"] /\ acl' = [acl EXCEPT ![d] = {}]
  BY DEF Revoke, Revocable
<1>2. Standing' = [Standing EXCEPT ![d] = "revoked"] /\ Standing[d] \in {"owner", "member"}
  BY <1>0, <1>1 DEF Standing, Role
<1>3. E!Owners # {d}
  BY <1>1, SameOwners
<1>4. E!Expel(d)
  BY <1>1, <1>2, <1>3 DEF E!Expel, ScopeState
<1>. QED BY <1>4 DEF E!Next

\* A grant to an active device admits it again, with more tags.
LEMMA GrantScopesAdmits ==
    ASSUME RowsInv, NEW d \in Device, NEW grants \in SUBSET (Scope \X Kind), GrantScopes(d, grants)
    PROVE  E!Next
<1>0. /\ role \in [Device -> Role \cup {"none"}]
      /\ status \in [Device -> {"none", "active", "revoked"}]
      /\ \A e \in Device : role[e] = "none" <=> status[e] = "none"
  BY DEF RowsInv, StoreTypeOK, RowsAgree
<1>1. /\ CheckGrant(role[d], status[d], grants) /\ WriteGrant(d, grants)
      /\ role' = role /\ status' = status
  BY DEF GrantScopes, deviceVars
<1>2. status[d] = "active" /\ role[d] \in Role
  BY <1>0, <1>1 DEF CheckGrant
<1>3. role' = [role EXCEPT ![d] = role[d]] /\ status' = [status EXCEPT ![d] = "active"]
  BY <1>0, <1>1, <1>2
<1>. QED BY <1>1, <1>2, <1>3, GrantAdmits

\* A grant, an enrollment, a retirement and a revocation each map to one step;
\* the mailbox, the codes and the clock are invisible to the contract.
LEMMA StepRefines == StoreInv /\ [StoreNext]_storeVars => [E!Next]_(E!vars)
<1> SUFFICES ASSUME StoreInv, [StoreNext]_storeVars PROVE E!Next \/ UNCHANGED E!vars
  OBVIOUS
<1>0. RowsInv
  BY DEF StoreInv, RowsInv
<1>1. ASSUME UNCHANGED <<deviceVars, scopeVars>> PROVE UNCHANGED E!vars
  BY <1>1 DEF E!vars, Standing, ScopeState, deviceVars, scopeVars
<1>2. ASSUME NEW c \in Code, NEW d \in Device, RedeemOwnerCode(c, d) PROVE E!Next
  BY <1>0, <1>2, RedeemAdmits
<1>3. ASSUME NEW d \in Device, NEW grants \in SUBSET (Scope \X Kind), GrantScopes(d, grants)
      PROVE E!Next
  BY <1>0, <1>3, GrantScopesAdmits
<1>4. ASSUME NEW x \in Sid, NEW o \in Device, NEW d \in Device, NEW r \in Role,
             NEW grants \in SUBSET (Scope \X Kind), CompletePairing(x, o, d, r, grants)
      PROVE E!Next
  <2>1. /\ o \in ActiveOwners /\ WriteGrant(d, grants)
        /\ role' = [role EXCEPT ![d] = r] /\ status' = [status EXCEPT ![d] = "active"]
        /\ status[d] = "active" => role[d] = r
    BY <1>4 DEF CompletePairing, AwaitsGrant, EnrollmentOK
  <2>2. CASE status[d] = "none"
    <3>1. CheckGrant(r, "active", grants)
      BY <1>4, <2>2 DEF CompletePairing
    <3>. QED BY <1>0, <2>1, <2>2, <3>1, GrantAdmits
  <2>3. CASE status[d] # "none"
    <3>1. CheckGrant(role[d], status[d], grants)
      BY <1>4, <2>3 DEF CompletePairing
    <3>2. status[d] = "active" /\ CheckGrant(r, "active", grants)
      BY <2>1, <3>1 DEF CheckGrant
    <3>. QED BY <1>0, <2>1, <3>2, GrantAdmits
  <2>. QED BY <2>2, <2>3
<1>5. ASSUME NEW s \in Scope, RetireScope(s) PROVE E!Next \/ UNCHANGED E!vars
  BY <1>0, <1>5, RetireFreezes
<1>6. ASSUME NEW d \in Device, Revoke(d) PROVE E!Next
  BY <1>0, <1>6, RevokeExpels
<1>. QED
  BY <1>1, <1>2, <1>3, <1>4, <1>5, <1>6
  DEF StoreNext, storeVars, deviceVars, scopeVars, IssueOwnerCode, InvalidateOwnerCodes,
      OpenPairing, PutPairingRequest, TakePairingGrant, SweepExpired, Tick

(***************************************************************************)
(* The relay's store implements the enrollment contract: every behaviour   *)
(* of StoreSpec, seen through the mapping, is one of Enrollment.           *)
(***************************************************************************)
THEOREM StoreImplementsEnrollment == StoreSpec => ImplementsEnrollment
<1>. QED
  BY InitRefines, StepRefines, StoreInvariant, PTL
  DEF StoreSpec, ImplementsEnrollment, E!Spec
=============================================================================
