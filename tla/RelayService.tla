----------------------------- MODULE RelayService -----------------------------
(***************************************************************************)
(* The relay as it runs: its HTTP routes (services/sync-relay/src/app.ts)  *)
(* over PostgresRelayStore (postgres-store.ts).  RelayStore gives the      *)
(* tables and what one method must do; here a method is the statements it  *)
(* sends, and requests interleave between any two of them.                 *)
(*                                                                         *)
(* A control transaction takes an advisory lock, reads, and commits its    *)
(* writes; what it has written is seen by nobody before it commits, so its *)
(* reads are one step and its writes another.  A single statement outside  *)
(* the lock (putPairingRequest, append) reads its snapshot in one step and *)
(* writes in another: READ COMMITTED looks at the row it writes again, and *)
(* at no other.  A statement that fails, times out or dies with the        *)
(* process rolls back; an answer that is lost changes nothing here.        *)
(***************************************************************************)
EXTENDS RelayStore, Sequences

CONSTANTS
    Owner,        \* the owners of the deployment at the start
    Master,       \* its master scope
    Doc,          \* opaque document ids
    Slot,         \* requests under way at a time (model bound)
    Grants,       \* the scope lists that grants carry
    None,         \* no lock holder, no scope, no request
    MaxRequests,  \* requests in a behaviour (model bound)
    MAX_GRANT_SCOPES

ASSUME ServiceAssumption ==
    /\ Owner \subseteq Device /\ Master \in Scope
    /\ Grants \subseteq SUBSET (Scope \X Kind)
    /\ IsFiniteSet(Slot)
    /\ None \notin Slot \cup Scope
    /\ MaxRequests \in Nat

VARIABLES
    call,    \* per slot: the request under way and how far it is, or None
    lock,    \* the slot whose transaction holds CONTROL_LOCK_KEY
    docs,    \* per document: the scope it is bound to and its updates' signers and scopes
    late,    \* history, per device: requests it had under way when it was revoked, less
             \* what it has done since
    served   \* requests so far

serviceVars == <<call, lock, docs, late, served>>
vars == <<storeVars, serviceVars>>

-----------------------------------------------------------------------------
(* Requests *)

\* parseScopes: 1 to MAX_GRANT_SCOPES well-formed tags and kinds.
ScopeLists == {g \in Grants : g # {} /\ Cardinality(g) <= MAX_GRANT_SCOPES}

\* What the strict parsers let through, with the signer; `teacher' is parsed to owner and
\* `para' to member.  A body of another shape is answered 400 and changes nothing.
Call ==
    [op : {"redeem"}, by : Device, code : Code]
      \cup [op : {"grant"}, by : Device, dev : Device, grants : ScopeLists]
      \cup [op : {"revoke"}, by : Device, dev : Device]
      \cup [op : {"retire"}, by : Device, tag : Scope]
      \cup [op : {"open", "request-put", "grant-get"}, by : Device, sid : Sid]
      \cup [op : {"grant-put"}, by : Device, sid : Sid, dev : Device, role : Role, grants : ScopeLists]
      \cup [op : {"push", "pull"}, by : Device, tag : Scope, doc : Doc]

\* The routes only an active owner may call; the store decides on the other control routes.
OwnerOps == {"grant", "revoke", "retire", "open", "grant-put"}
DocOps == {"push", "pull"}

Phase == {"allowed",    \* authorized: nothing of the operation has run
          "bound",      \* a document request whose document's scope was looked at
          "locked",     \* a control transaction has read what it decides by
          "snapshot"}   \* a single statement runs with the snapshot it took

At(r, phase) == call[r] # None /\ call[r].at = phase
Body(r) == call[r].body
Op(r, phase, op) == At(r, phase) /\ Body(r).op = op

Step(r, phase) == call' = [call EXCEPT ![r].at = phase]

\* The request is answered, whatever the answer.
Answer(r) ==
    /\ call' = [call EXCEPT ![r] = None]
    /\ lock' = IF lock = r THEN None ELSE lock

ServiceTypeOK ==
    /\ StoreTypeOK
    /\ call \in [Slot -> [body : Call, at : Phase] \cup {None}]
    /\ lock \in Slot \cup {None}
    /\ docs \in [Doc -> [scope : Scope \cup {None}, log : Seq(Device \X Scope)]]
    /\ \A f \in Doc : docs[f].scope = None <=> docs[f].log = <<>>
    /\ late \in [Device -> Int]
    /\ served \in 0 .. MaxRequests

\* A deployment in use: its owners hold the master, a member may hold the period scopes,
\* a code is out, and a device to add has posted its request.
ServiceInit ==
    /\ now = 0
    /\ kind = [s \in Scope |-> IF s = Master THEN "master" ELSE "period"]
    /\ retired = {}
    /\ codes = [c \in Code |-> [state |-> "unused", expiresAt |-> CodeTTL]]
    /\ \E members \in SUBSET (Device \ Owner) :
          /\ role = [d \in Device |-> IF d \in Owner THEN "owner" ELSE IF d \in members THEN "member" ELSE "none"]
          /\ status = [d \in Device |-> IF d \in Owner \cup members THEN "active" ELSE "none"]
          /\ acl = [d \in Device |-> IF d \in Owner THEN {Master} ELSE IF d \in members THEN Scope \ {Master} ELSE {}]
    /\ pairings \in [Sid -> [opener : Owner, expiresAt : {PairingTTL}, signer : Device \ Owner, granted : BOOLEAN]]
    /\ \A x \in Sid : pairings[x].granted => status[pairings[x].signer] = "active"
    /\ call = [r \in Slot |-> None]
    /\ lock = None
    /\ docs = [f \in Doc |-> [scope |-> None, log |-> <<>>]]
    /\ late = [d \in Device |-> 0]
    /\ served = 0

-----------------------------------------------------------------------------
(* Before the operation: authorizeDoc, authorizeControl *)

\* Mutant: only the scope's access list is asked, not the device's standing, on a control route.
Allowed_AnyStatus(b) ==
    CASE b.op \in DocOps -> IsAuthorized(b.by, b.tag)
      [] b.op \in OwnerOps -> role[b.by] = "owner"
      [] OTHER -> TRUE

\* deviceRole for the owner routes, isAuthorized for a document under the declared scope;
\* the other routes take any valid signature.
Allowed(b) ==
    CASE b.op \in DocOps -> IsAuthorized(b.by, b.tag)
      [] b.op \in OwnerOps -> b.by \in ActiveOwners
      [] OTHER -> TRUE

\* A request is authorized; on a control route the sweep, a control transaction of one
\* statement, follows at once: it deletes only rows that no statement takes for live.  A
\* request that is not authorized gets the one 404 and changes nothing.
Authorize(r, b) ==
    /\ call[r] = None /\ served < MaxRequests
    /\ Allowed(b)
    /\ call' = [call EXCEPT ![r] = [body |-> b, at |-> "allowed"]]
    /\ served' = served + 1
    /\ IF b.op \in DocOps THEN UNCHANGED storeVars ELSE lock = None /\ SweepExpired
    /\ UNCHANGED <<lock, docs, late>>

\* docScope: a document bound to another scope is hidden.
DocScope(r) ==
    /\ At(r, "allowed") /\ Body(r).op \in DocOps
    /\ IF docs[Body(r).doc].scope \in {None, Body(r).tag} THEN Step(r, "bound") /\ UNCHANGED lock ELSE Answer(r)
    /\ UNCHANGED <<storeVars, docs, late, served>>

-----------------------------------------------------------------------------
(* Control transactions *)

\* redeemOwnerCode's first statement: a usable code and a key the relay does not know.
RedeemReads(b) == CodeUsable(b.code) /\ FreshKey(b.by)

\* grantScopes and #checkGrant, from the device row and the scope rows.
GrantReads(b) == CheckGrant(role[b.dev], status[b.dev], b.grants)

RetireReads(b) == kind[b.tag] = "period"

\* revoke: an active device, and not the last of the active owners it counts.
RevokeReads(b) == Revocable(b.dev)

OpenReads(b) == pairings[b.sid] = NoSession /\ RoomForSession /\ b.by \in ActiveOwners

\* completePairing: the session row, checkEnrollment against the grantee's row, #checkGrant.
CompleteReads(b) ==
    /\ AwaitsGrant(b.sid, b.by) /\ EnrollmentOK(b.sid, b.dev, b.role)
    /\ IF status[b.dev] = "none" THEN CheckGrant(b.role, "active", b.grants)
                                 ELSE CheckGrant(role[b.dev], status[b.dev], b.grants)

TakeReads(b) ==
    /\ IsOpen(b.sid) /\ pairings[b.sid].granted
    /\ pairings[b.sid].signer = b.by /\ status[b.by] = "active"

Reads(b) ==
    CASE b.op = "redeem" -> RedeemReads(b)
      [] b.op = "grant" -> GrantReads(b)
      [] b.op = "retire" -> RetireReads(b)
      [] b.op = "revoke" -> RevokeReads(b)
      [] b.op = "open" -> OpenReads(b)
      [] b.op = "grant-put" -> CompleteReads(b)
      [] b.op = "grant-get" -> TakeReads(b)

\* Mutant: the transaction does not wait for the lock.
LockFree_Ignored == TRUE

LockFree == lock = None

\* #control: take the lock, then decide; a refusal ends the transaction.
TakeLock(r) ==
    /\ At(r, "allowed") /\ Body(r).op \notin DocOps \cup {"request-put"}
    /\ LockFree
    /\ IF Reads(Body(r)) THEN Step(r, "locked") /\ lock' = r ELSE Answer(r)
    /\ UNCHANGED <<storeVars, docs, late, served>>

\* What an accepted operation of a device revoked meanwhile takes from its allowance.
Spend(d) == late' = [late EXCEPT ![d] = IF status[d] = "revoked" THEN @ - 1 ELSE @]

Commit(r, op) == Op(r, "locked", op) /\ Answer(r) /\ UNCHANGED <<docs, served>>

\* Mutant: the write does not look at the code again, and a deleted row is no obstacle.
StillUsable_NotChecked(c) == TRUE

\* The UPDATE of the code's row looks again: invalidateOwnerCodes runs outside the lock.
StillUsable(c) == CodeUsable(c)

RedeemWrites(r) ==
    /\ Commit(r, "redeem")
    /\ LET b == Body(r)
       IN IF StillUsable(b.code)
          THEN /\ codes' = [codes EXCEPT ![b.code].state = "used"]
               /\ role' = [role EXCEPT ![b.by] = "owner"]
               /\ status' = [status EXCEPT ![b.by] = "active"]
               /\ UNCHANGED <<now, scopeVars, pairings>>
          ELSE UNCHANGED storeVars
    /\ UNCHANGED late

GrantWrites(r) ==
    /\ Commit(r, "grant")
    /\ WriteGrant(Body(r).dev, Body(r).grants)
    /\ Spend(Body(r).by)
    /\ UNCHANGED <<now, deviceVars, codes, pairings>>

RetireWrites(r) ==
    /\ Commit(r, "retire")
    /\ retired' = retired \cup {Body(r).tag}
    /\ Spend(Body(r).by)
    /\ UNCHANGED <<now, deviceVars, kind, acl, codes, pairings>>

\* The requests of d that are past their authorization, r's own aside.
UnderWay(d, r) == {q \in Slot \ {r} : call[q] # None /\ call[q].body.by = d}

\* The row, the access list and the sessions the DELETE's snapshot shows.
RevokeWrites(r) ==
    /\ Commit(r, "revoke")
    /\ LET d == Body(r).dev
       IN /\ status' = [status EXCEPT ![d] = "revoked"]
          /\ acl' = [acl EXCEPT ![d] = {}]
          /\ pairings' = [x \in Sid |-> IF x \in SessionsOf(d) THEN NoSession ELSE pairings[x]]
          /\ late' = [late EXCEPT ![d] = Cardinality(UnderWay(d, r)),
                                  ![Body(r).by] = IF status[Body(r).by] = "revoked" THEN @ - 1 ELSE @]
    /\ UNCHANGED <<now, role, kind, retired, codes>>

OpenWrites(r) ==
    /\ Commit(r, "open")
    /\ pairings' = [pairings EXCEPT ![Body(r).sid] =
          [opener |-> Body(r).by, expiresAt |-> now + PairingTTL, signer |-> NoDevice, granted |-> FALSE]]
    /\ Spend(Body(r).by)
    /\ UNCHANGED <<now, deviceVars, scopeVars, codes>>

\* The device row (ON CONFLICT DO NOTHING), its scopes, and the grant: a session row that
\* is gone rolls all of it back.
CompleteWrites(r) ==
    /\ Commit(r, "grant-put")
    /\ LET b == Body(r)
       IN IF pairings[b.sid] # NoSession
          THEN /\ role' = [role EXCEPT ![b.dev] = IF @ = "none" THEN b.role ELSE @]
               /\ status' = [status EXCEPT ![b.dev] = IF @ = "none" THEN "active" ELSE @]
               /\ WriteGrant(b.dev, b.grants)
               /\ pairings' = [pairings EXCEPT ![b.sid].granted = TRUE]
               /\ UNCHANGED <<now, codes>>
          ELSE UNCHANGED storeVars
    /\ Spend(Body(r).by)

TakeWrites(r) ==
    /\ Commit(r, "grant-get")
    /\ pairings' = [pairings EXCEPT ![Body(r).sid] = NoSession]
    /\ Spend(Body(r).by)
    /\ UNCHANGED <<now, deviceVars, scopeVars, codes>>

-----------------------------------------------------------------------------
(* Single statements *)

\* putPairingRequest's UPDATE takes its snapshot: the device row it asks about is read here.
PutSnapshot(r) ==
    /\ Op(r, "allowed", "request-put")
    /\ IF status[Body(r).by] # "revoked" THEN Step(r, "snapshot") /\ UNCHANGED lock ELSE Answer(r)
    /\ UNCHANGED <<storeVars, docs, late, served>>

\* The row it writes is looked at as it is now: there, unexpired, free, not the opener's own.
PutWrites(r) ==
    /\ Op(r, "snapshot", "request-put")
    /\ LET x == Body(r).sid
           d == Body(r).by
       IN IF IsOpen(x) /\ RequestSlotFree(x) /\ pairings[x].opener # d
          THEN pairings' = [pairings EXCEPT ![x].signer = d]
          ELSE UNCHANGED pairings
    /\ Answer(r)
    /\ Spend(Body(r).by)
    /\ UNCHANGED <<now, deviceVars, scopeVars, codes, docs, served>>

\* APPEND_SQL's snapshot: a scope retired by now takes no row.
AppendSnapshot(r) ==
    /\ Op(r, "bound", "push")
    /\ IF Body(r).tag \notin retired THEN Step(r, "snapshot") /\ UNCHANGED lock ELSE Answer(r)
    /\ UNCHANGED <<storeVars, docs, late, served>>

\* Mutant: a document bound meanwhile takes the update of another scope.
BindsOrExtends_AnyScope(f, s) == TRUE

\* ON CONFLICT ... WHERE: a new row, or one bound to the same scope.
BindsOrExtends(f, s) == docs[f].scope \in {None, s}

\* Mutant: the row is inserted without its scope.
BoundTo_NotOnInsert(f, s) == docs[f].scope

\* The inserted row takes the declared scope; an existing row keeps its own.
BoundTo(f, s) == IF docs[f].scope = None THEN s ELSE docs[f].scope

\* The document's row is written: bound on first write, extended after.
AppendWrites(r) ==
    /\ Op(r, "snapshot", "push")
    /\ LET b == Body(r)
       IN IF BindsOrExtends(b.doc, b.tag)
          THEN /\ docs' = [docs EXCEPT ![b.doc] =
                     [scope |-> BoundTo(b.doc, b.tag), log |-> Append(@.log, <<b.by, b.tag>>)]]
               /\ Spend(b.by)
          ELSE UNCHANGED <<docs, late>>
    /\ Answer(r)
    /\ UNCHANGED <<storeVars, served>>

\* fetch: the document's updates, whatever has bound it since docScope looked.
Fetch(r) ==
    /\ Op(r, "bound", "pull")
    /\ Answer(r)
    /\ UNCHANGED <<storeVars, docs, late, served>>

-----------------------------------------------------------------------------
(* Failures, the operator, time *)

\* A statement fails or times out: its transaction rolls back and the answer is 503.
Fail(r) ==
    /\ call[r] # None
    /\ Answer(r)
    /\ UNCHANGED <<storeVars, docs, late, served>>

\* The process dies and starts again: every request under way is gone, its transaction
\* rolled back and the lock free; what has expired is swept before the port opens.
Restart ==
    /\ \E r \in Slot : call[r] # None
    /\ call' = [r \in Slot |-> None]
    /\ lock' = None
    /\ SweepExpired
    /\ UNCHANGED <<docs, late, served>>

\* The operator's command line issues a code; the redeem lockout invalidates all unused.
Operator ==
    /\ (\E c \in Code : IssueOwnerCode(c)) \/ InvalidateOwnerCodes
    /\ UNCHANGED serviceVars

Clock == Tick /\ UNCHANGED serviceVars

\* What a slot does next, its failures aside.
Serve(r) ==
    \/ DocScope(r) \/ TakeLock(r)
    \/ RedeemWrites(r) \/ GrantWrites(r) \/ RetireWrites(r) \/ RevokeWrites(r)
    \/ OpenWrites(r) \/ CompleteWrites(r) \/ TakeWrites(r)
    \/ PutSnapshot(r) \/ PutWrites(r)
    \/ AppendSnapshot(r) \/ AppendWrites(r) \/ Fetch(r)

ServiceNext ==
    \/ \E r \in Slot, b \in Call : Authorize(r, b)
    \/ \E r \in Slot : Serve(r) \/ Fail(r)
    \/ Restart \/ Operator \/ Clock

ServiceSpec == ServiceInit /\ [][ServiceNext]_vars

-----------------------------------------------------------------------------
(* Properties *)

(***************************************************************************)
(* Revocation across requests under way (authorizeControl, authorizeDoc):  *)
(* what a revoked device still changes was authorized before it was        *)
(* revoked, one change for each request it had under way at that moment    *)
(* and none after -- also when grantScopes, retireScope and append do not  *)
(* look at their signer again.                                             *)
(***************************************************************************)
RevocationTakesHold == \A d \in Device : status[d] = "revoked" => late[d] >= 0

(***************************************************************************)
(* The append statement (bind or extend): every update of a document was   *)
(* pushed under the scope that the document is bound to, however first     *)
(* writers under different scopes raced.                                   *)
(***************************************************************************)
OneScopePerDocument ==
    \A f \in Doc : \A i \in 1 .. Len(docs[f].log) : docs[f].log[i][2] = docs[f].scope

(***************************************************************************)
(* Enrolling over Postgres (redeemOwnerCode's second look at the code,     *)
(* completePairing's rollback): a device becomes active alone in its step, *)
(* with a code that was live until that step and is spent from it on, or   *)
(* by the grant of a session that named it and had none; so a code wiped   *)
(* by the lockout between the two statements enrolls nobody.  The session  *)
(* may have passed its expiry since the transaction read it.               *)
(***************************************************************************)
EnrolledWithCodeOrGrant ==
    [][\A d \in Device : status[d] # "active" /\ status'[d] = "active" =>
          /\ \A e \in Device \ {d} : status'[e] = status[e]
          /\ \/ \E c \in Code : CodeUsable(c) /\ codes'[c].state = "used"
             \/ \E x \in Sid : /\ pairings[x] # NoSession /\ ~pairings[x].granted
                                /\ pairings[x].signer = d /\ pairings[x].opener \in ActiveOwners
                                /\ pairings'[x] = [pairings[x] EXCEPT !.granted = TRUE]]_vars

(***************************************************************************)
(* Pairing over Postgres (putPairingRequest outside the lock): a request   *)
(* of a key revoked meanwhile may stay in a session, but a session that    *)
(* holds a grant is for an enrolled signer, and was opened by an owner.    *)
(***************************************************************************)
GrantedSessionsAreLive ==
    \A x \in Sid : pairings[x] # NoSession =>
        /\ pairings[x].opener \in ActiveOwners
        /\ pairings[x].granted => status[pairings[x].signer] = "active"
=============================================================================
