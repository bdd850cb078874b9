------------------------------ MODULE RelayStore ------------------------------
(***************************************************************************)
(* The enrollment control plane of the sync relay: what InMemoryRelayStore *)
(* (services/sync-relay/src/store.ts) keeps and does.  Every method body   *)
(* of that class runs without an await between its checks and its writes,  *)
(* so each is ONE action here.  A call the code refuses changes nothing,   *)
(* so an action's guard is the condition under which the call is accepted. *)
(* Who may call what is not decided here but in the routes (RelayService): *)
(* this module lets any caller call any method at any time, so what it     *)
(* guarantees does not depend on the caller.                               *)
(***************************************************************************)
EXTENDS Integers, FiniteSets

CONSTANTS
    Device,          \* signing public keys
    Scope,           \* opaque scope tags
    Code,            \* SHA-256 hashes of operator owner codes
    Sid,             \* pairing session ids
    NoDevice,        \* "no request yet" in a session
    NoSession,       \* no session under a sid
    PairingTTL,      \* PAIRING_TTL_MS
    CodeTTL,         \* lifetime the operator gives a code
    MaxOpenPairings, \* MAX_OPEN_PAIRINGS
    MaxNow           \* model bound on the clock, no counterpart in the code

ASSUME StoreAssumption ==
    /\ NoDevice \notin Device
    /\ IsFiniteSet(Sid)
    /\ PairingTTL \in Nat \ {0}
    /\ CodeTTL \in Nat \ {0}
    /\ MaxOpenPairings \in Nat
    /\ MaxNow \in Nat

Role == {"owner", "member"}
Kind == {"master", "period"}
Session == [opener : Device, expiresAt : Nat,
            signer : Device \cup {NoDevice}, granted : BOOLEAN]

ASSUME NoSessionAssumption == NoSession \notin Session

VARIABLES
    now,       \* the store's clock
    role,      \* devices.role, "none" for a key with no row
    status,    \* devices.status: "none", "active" or "revoked"
    kind,      \* scopes.kind, "none" for an unregistered tag
    retired,   \* the retired scopes
    acl,       \* device -> the tags it has been granted
    codes,     \* owner codes: "absent", "unused" or "used", and an expiry
    pairings   \* pairing sessions by sid

deviceVars == <<role, status>>
scopeVars == <<kind, retired, acl>>
storeVars == <<now, role, status, kind, retired, acl, codes, pairings>>

StoreTypeOK ==
    /\ now \in Nat
    /\ role \in [Device -> Role \cup {"none"}]
    /\ status \in [Device -> {"none", "active", "revoked"}]
    /\ kind \in [Scope -> Kind \cup {"none"}]
    /\ retired \in SUBSET Scope
    /\ acl \in [Device -> SUBSET Scope]
    /\ codes \in [Code -> [state : {"absent", "unused", "used"}, expiresAt : Nat]]
    /\ pairings \in [Sid -> Session \cup {NoSession}]

StoreInit ==
    /\ now = 0
    /\ role = [d \in Device |-> "none"]
    /\ status = [d \in Device |-> "none"]
    /\ kind = [s \in Scope |-> "none"]
    /\ retired = {}
    /\ acl = [d \in Device |-> {}]
    /\ codes = [c \in Code |-> [state |-> "absent", expiresAt |-> 0]]
    /\ pairings = [x \in Sid |-> NoSession]

-----------------------------------------------------------------------------
(* Queries *)

ActiveOwners == {d \in Device : role[d] = "owner" /\ status[d] = "active"}
Masters == {s \in Scope : kind[s] = "master"}

\* isAuthorized
IsAuthorized(d, s) == status[d] = "active" /\ s \in acl[d]

\* A session that exists and has not expired (#openPairing).
IsOpen(x) == pairings[x] # NoSession /\ pairings[x].expiresAt > now
OpenSids == {x \in Sid : IsOpen(x)}

\* The mode a redeem would report.
RedeemMode == IF ActiveOwners = {} /\ Masters = {} THEN "first" ELSE "recovery"

(***************************************************************************)
(* checkScope on one requested <<tag, kind>> pair, for a grantee of role r *)
(***************************************************************************)
\* Mutant: the second_master refusal is dropped.
ScopeAcceptable_SecondMaster(r, g) ==
    /\ kind[g[1]] \in {"none", g[2]}
    /\ g[1] \notin retired
    /\ g[2] = "master" => r = "owner"

\* Mutant: the member_master refusal is dropped.
ScopeAcceptable_MemberMaster(r, g) ==
    /\ kind[g[1]] \in {"none", g[2]}
    /\ g[1] \notin retired
    /\ g[2] = "master" => Masters \subseteq {g[1]}

ScopeAcceptable(r, g) ==
    /\ kind[g[1]] \in {"none", g[2]}
    /\ g[1] \notin retired
    /\ g[2] = "master" => r = "owner" /\ Masters \subseteq {g[1]}

(***************************************************************************)
(* checkGrant: the requested list, a set of <<tag, kind>> pairs, against a *)
(* grantee with this role and status.  The code walks the list in order    *)
(* but accepts or refuses it as a whole, and the verdict does not depend   *)
(* on the order: no tag under two kinds, no two masters.                   *)
(***************************************************************************)
\* Mutant: the grantee's status is not looked at.
CheckGrant_AnyStatus(r, st, grants) ==
    /\ \A g \in grants : ScopeAcceptable(r, g)
    /\ \A g, h \in grants : g[1] = h[1] \/ {g[2], h[2]} = {"master"} => g = h

CheckGrant(r, st, grants) ==
    /\ st = "active"
    /\ \A g \in grants : ScopeAcceptable(r, g)
    /\ \A g, h \in grants : g[1] = h[1] \/ {g[2], h[2]} = {"master"} => g = h

\* #writeGrant: register the unknown tags, add every tag to the device's ACL.
WriteGrant(d, grants) ==
    /\ kind' = [s \in Scope |->
                  CASE kind[s] = "none" /\ <<s, "master">> \in grants -> "master"
                    [] kind[s] = "none" /\ <<s, "period">> \in grants -> "period"
                    [] OTHER -> kind[s]]
    /\ acl' = [acl EXCEPT ![d] = @ \cup {g[1] : g \in grants}]
    /\ UNCHANGED retired

-----------------------------------------------------------------------------
(* Owner codes *)

NoCode == [state |-> "absent", expiresAt |-> 0]

\* The operator's CLI issues a hash once (issueOwnerCode, CodeTTL from now).
IssueOwnerCode(c) ==
    /\ codes[c].state = "absent"
    /\ codes' = [codes EXCEPT ![c] = [state |-> "unused", expiresAt |-> now + CodeTTL]]
    /\ UNCHANGED <<now, deviceVars, scopeVars, pairings>>

\* Mutant: the `used' flag of the code is not checked.
CodeUsable_Reusable(c) == codes[c].state # "absent" /\ codes[c].expiresAt > now

CodeUsable(c) == codes[c].state = "unused" /\ codes[c].expiresAt > now

\* Mutant: only an active key counts as known to the relay.
FreshKey_RevokedIsFresh(d) == status[d] # "active"

FreshKey(d) == status[d] = "none"

\* Mutant: the reported mode is stored as the role.
RedeemOwnerCode_ModeAsRole(c, d) ==
    /\ CodeUsable(c) /\ FreshKey(d)
    /\ codes' = [codes EXCEPT ![c].state = "used"]
    /\ role' = [role EXCEPT ![d] = RedeemMode]
    /\ status' = [status EXCEPT ![d] = "active"]
    /\ UNCHANGED <<now, scopeVars, pairings>>

\* redeemOwnerCode: a usable code makes a fresh key an active owner.
RedeemOwnerCode(c, d) ==
    /\ CodeUsable(c) /\ FreshKey(d)
    /\ codes' = [codes EXCEPT ![c].state = "used"]
    /\ role' = [role EXCEPT ![d] = "owner"]
    /\ status' = [status EXCEPT ![d] = "active"]
    /\ UNCHANGED <<now, scopeVars, pairings>>

\* invalidateOwnerCodes: delete every unused code.
InvalidateOwnerCodes ==
    /\ codes' = [c \in Code |-> IF codes[c].state = "unused" THEN NoCode ELSE codes[c]]
    /\ UNCHANGED <<now, deviceVars, scopeVars, pairings>>

-----------------------------------------------------------------------------
(* Grants, retirement, revocation *)

\* grantScopes: all or nothing, to an active device.
GrantScopes(d, grants) ==
    /\ CheckGrant(role[d], status[d], grants)
    /\ WriteGrant(d, grants)
    /\ UNCHANGED <<now, deviceVars, codes, pairings>>

\* retireScope: a registered period scope becomes read-only, for good.
RetireScope(s) ==
    /\ kind[s] = "period"
    /\ retired' = retired \cup {s}
    /\ UNCHANGED <<now, deviceVars, kind, acl, codes, pairings>>

\* Mutant: the last_owner refusal is dropped.
Revocable_LastOwner(d) == status[d] = "active"

\* An active device that is not the last active owner.
Revocable(d) == status[d] = "active" /\ ActiveOwners # {d}

\* Mutant: revoke leaves the sessions the device posted a request to.
SessionsOf_OpenerOnly(d) ==
    {x \in Sid : pairings[x] # NoSession /\ pairings[x].opener = d}

\* The sessions the device opened or posted its request to.
SessionsOf(d) ==
    {x \in Sid : pairings[x] # NoSession /\ d \in {pairings[x].opener, pairings[x].signer}}

\* revoke: permanent, drops the device's ACL rows and its sessions.
Revoke(d) ==
    /\ Revocable(d)
    /\ status' = [status EXCEPT ![d] = "revoked"]
    /\ acl' = [acl EXCEPT ![d] = {}]
    /\ pairings' = [x \in Sid |-> IF x \in SessionsOf(d) THEN NoSession ELSE pairings[x]]
    /\ UNCHANGED <<now, role, kind, retired, codes>>

-----------------------------------------------------------------------------
(* The pairing mailbox *)

\* Mutant: one session too many.
RoomForSession_OffByOne == Cardinality(OpenSids) <= MaxOpenPairings

RoomForSession == Cardinality(OpenSids) < MaxOpenPairings

\* openPairing
OpenPairing(x, d) ==
    /\ pairings[x] = NoSession
    /\ RoomForSession
    /\ d \in ActiveOwners
    /\ pairings' = [pairings EXCEPT ![x] =
          [opener |-> d, expiresAt |-> now + PairingTTL, signer |-> NoDevice, granted |-> FALSE]]
    /\ UNCHANGED <<now, deviceVars, scopeVars, codes>>

\* Mutant: a later request replaces the first one.
RequestSlotFree_LastWins(x) == TRUE

RequestSlotFree(x) == pairings[x].signer = NoDevice

\* putPairingRequest: first write wins; not the opener, not a revoked key.
PutPairingRequest(x, d) ==
    /\ IsOpen(x)
    /\ RequestSlotFree(x)
    /\ pairings[x].opener # d
    /\ status[d] # "revoked"
    /\ pairings' = [pairings EXCEPT ![x].signer = d]
    /\ UNCHANGED <<now, deviceVars, scopeVars, codes>>

\* The session the opener may still read the request of, or put the grant to.
AwaitsGrant(x, o) ==
    /\ IsOpen(x)
    /\ pairings[x].opener = o
    /\ pairings[x].signer # NoDevice
    /\ ~pairings[x].granted
    /\ o \in ActiveOwners

\* Mutant: the role of a device already enrolled may change.
EnrollmentOK_RoleChange(x, d, r) == pairings[x].signer = d

\* checkEnrollment: the grantee is the request signer, and keeps its role.
EnrollmentOK(x, d, r) ==
    /\ pairings[x].signer = d
    /\ status[d] = "active" => role[d] = r

\* completePairing: enroll the request signer with its scopes and store the grant.
CompletePairing(x, o, d, r, grants) ==
    /\ AwaitsGrant(x, o)
    /\ EnrollmentOK(x, d, r)
    /\ IF status[d] = "none" THEN CheckGrant(r, "active", grants)
                             ELSE CheckGrant(role[d], status[d], grants)
    /\ role' = [role EXCEPT ![d] = r]
    /\ status' = [status EXCEPT ![d] = "active"]
    /\ WriteGrant(d, grants)
    /\ pairings' = [pairings EXCEPT ![x].granted = TRUE]
    /\ UNCHANGED <<now, codes>>

\* takePairingGrant: the active request signer collects the grant, once.
TakePairingGrant(x, d) ==
    /\ IsOpen(x)
    /\ pairings[x].granted
    /\ pairings[x].signer = d
    /\ status[d] = "active"
    /\ pairings' = [pairings EXCEPT ![x] = NoSession]
    /\ UNCHANGED <<now, deviceVars, scopeVars, codes>>

\* sweepExpired: drop expired sessions and expired unused codes.
SweepExpired ==
    /\ pairings' = [x \in Sid |-> IF IsOpen(x) THEN pairings[x] ELSE NoSession]
    /\ codes' = [c \in Code |->
          IF codes[c].state = "unused" /\ codes[c].expiresAt <= now THEN NoCode ELSE codes[c]]
    /\ UNCHANGED <<now, deviceVars, scopeVars>>

\* The clock the store reads advances (bounded by MaxNow).
Tick ==
    /\ now < MaxNow
    /\ now' = now + 1
    /\ UNCHANGED <<deviceVars, scopeVars, codes, pairings>>

StoreNext ==
    \/ \E c \in Code : IssueOwnerCode(c)
    \/ \E c \in Code, d \in Device : RedeemOwnerCode(c, d)
    \/ InvalidateOwnerCodes
    \/ \E d \in Device, grants \in SUBSET (Scope \X Kind) : GrantScopes(d, grants)
    \/ \E s \in Scope : RetireScope(s)
    \/ \E d \in Device : Revoke(d)
    \/ \E x \in Sid, d \in Device : OpenPairing(x, d)
    \/ \E x \in Sid, d \in Device : PutPairingRequest(x, d)
    \/ \E x \in Sid, o \in Device, d \in Device, r \in Role, grants \in SUBSET (Scope \X Kind) :
          CompletePairing(x, o, d, r, grants)
    \/ \E x \in Sid, d \in Device : TakePairingGrant(x, d)
    \/ SweepExpired
    \/ Tick

StoreSpec == StoreInit /\ [][StoreNext]_storeVars

-----------------------------------------------------------------------------
(* Invariants *)

(***************************************************************************)
(* Scope kinds (store.ts checkScope): the deployment never has two master  *)
(* scopes, and no sequence of redeems, grants and pairings puts the master *)
(* in the access list of a member (a para).                                *)
(***************************************************************************)
MasterStaysWithTheOwners ==
    /\ \A s, t \in Masters : s = t
    /\ \A d \in Device : role[d] = "member" => acl[d] \cap Masters = {}

(***************************************************************************)
(* Access lists (grantScopes, completePairing, revoke): only an active     *)
(* device has one, whatever raced with its revocation, and every tag in it *)
(* is registered.                                                          *)
(***************************************************************************)
AccessOnlyForActiveDevices ==
    \A d \in Device : acl[d] # {} =>
        /\ status[d] = "active"
        /\ \A s \in acl[d] : kind[s] # "none"

(***************************************************************************)
(* revoke's last_owner refusal, under every order of mutual revocations:   *)
(* once a deployment has had an owner it has an active one, so a redeem    *)
(* never again reports "first" (the mode that starts a fresh deployment).  *)
(***************************************************************************)
OwnerRemains ==
    (\E d \in Device : role[d] = "owner") => ActiveOwners # {} /\ RedeemMode = "recovery"

(***************************************************************************)
(* A session (pairing mailbox) always belongs to devices that may still    *)
(* use it: an active owner opened it, its request is not the opener's own  *)
(* or a revoked key's, and a stored grant waits for a signer that IS       *)
(* enrolled -- so a grant is never left for a device revoked meanwhile.    *)
(***************************************************************************)
SessionsAreLive ==
    \A x \in Sid : pairings[x] # NoSession =>
        LET p == pairings[x] IN
        /\ p.opener \in ActiveOwners
        /\ p.signer # p.opener
        /\ p.signer # NoDevice => status[p.signer] # "revoked"
        /\ p.granted => p.signer # NoDevice /\ status[p.signer] = "active"

\* MAX_OPEN_PAIRINGS: the unexpired sessions of a deployment are bounded.
OpenSessionsBounded == Cardinality(OpenSids) <= MaxOpenPairings

-----------------------------------------------------------------------------
(* Action properties *)

(***************************************************************************)
(* `revoked' is permanent (store.ts DeviceStatus): no code, grant, pairing *)
(* or late request brings a revoked key back or gives it access again.     *)
(***************************************************************************)
RevokedForever ==
    [][\A d \in Device : status[d] = "revoked" =>
          status'[d] = "revoked" /\ acl'[d] = {}]_storeVars

(***************************************************************************)
(* A device keeps its role, a scope its kind, and a retired scope stays    *)
(* retired, however often the same tag or key is granted again.            *)
(***************************************************************************)
RolesAndKindsAreFixed ==
    [][/\ \A d \in Device : role[d] # "none" => role'[d] = role[d]
       /\ \A s \in Scope : kind[s] # "none" => kind'[s] = kind[s]
       /\ retired \subseteq retired']_storeVars

(***************************************************************************)
(* The only ways into a deployment: a device that becomes active does so   *)
(* as an owner with a code that is live now and spent from now on, or as   *)
(* the first and only signer of a session an active owner has just put the *)
(* grant to; and it is alone in that step.  So a code or a session never   *)
(* enrolls two devices.                                                    *)
(***************************************************************************)
EnrolledByCodeOrPairing ==
    [][\A d \in Device : status[d] # "active" /\ status'[d] = "active" =>
          /\ \A e \in Device \ {d} : status'[e] = status[e]
          /\ \/ /\ role'[d] = "owner"
                /\ \E c \in Code : /\ codes[c].state = "unused" /\ codes[c].expiresAt > now
                                    /\ codes'[c].state = "used"
             \/ \E x \in Sid : /\ AwaitsGrant(x, pairings[x].opener)
                                /\ pairings[x].signer = d
                                /\ pairings'[x] # NoSession /\ pairings'[x].granted
       ]_storeVars

\* First write wins (putPairingRequest): a session keeps its request signer
\* until it is deleted, so the key A approves is the key A was shown.
FirstRequestWins ==
    [][\A x \in Sid :
          /\ pairings[x] # NoSession /\ pairings[x].signer # NoDevice
          /\ pairings'[x] # NoSession
          => pairings'[x].signer = pairings[x].signer]_storeVars
=============================================================================
