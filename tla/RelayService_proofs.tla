------------------------- MODULE RelayService_proofs -------------------------
(***************************************************************************)
(* Proofs about the relay as it runs, for every set of devices, documents  *)
(* and slots and every value of the bounds.                                *)
(*                                                                         *)
(* A control transaction decides in one step and writes in another.  What  *)
(* makes that safe is the lock: no step another request takes meanwhile    *)
(* changes a fact that the writes rest on (Stands).  From that, the types  *)
(* and a count of what a revoked device may still complete follow the      *)
(* invariants of the service, and the store's own promises about scopes,   *)
(* access and owners: they survive the split of its methods.               *)
(***************************************************************************)
EXTENDS RelayService, RelayStore_proofs

\* completePairing's decision on the row of the grantee and on the grant.
GrantFits(b) ==
    IF status[b.dev] = "none" THEN CheckGrant(b.role, "active", b.grants)
                              ELSE CheckGrant(role[b.dev], status[b.dev], b.grants)

\* What an operation decided by its reads, as far as its writes depend on it.
Stands(b) ==
    /\ b.op = "redeem" => FreshKey(b.by)
    /\ b.op = "grant" => GrantReads(b)
    /\ b.op = "retire" => RetireReads(b)
    /\ b.op = "revoke" => RevokeReads(b)
    /\ b.op = "open" => b.by \in ActiveOwners
    /\ b.op = "grant-put" /\ pairings[b.sid] # NoSession =>
          EnrollmentOK(b.sid, b.dev, b.role) /\ ~pairings[b.sid].granted /\ GrantFits(b)

\* One transaction at a time holds the lock, and what it decided by still stands.
LockHolds ==
    \A r \in Slot : At(r, "locked") => lock = r /\ \A b \in Call : b = Body(r) => Stands(b)

\* Operations that any signature may ask for, and that the store refuses to a revoked key.
RefusedOps == {"redeem", "request-put", "grant-get"}

\* The requests of d that may change something: all but those the store has yet to refuse.
Armed(d) ==
    {r \in Slot : /\ call[r] # None /\ Body(r).by = d
                  /\ ~(call[r].at = "allowed" /\ Body(r).op \in RefusedOps)}

\* A revoked device has an allowance for each of them.
AllowanceCovers ==
    \A d \in Device : status[d] = "revoked" => late[d] >= Cardinality(Armed(d))

\* A session that holds a grant has a signer.
GrantHasSigner ==
    \A x \in Sid : pairings[x] # NoSession /\ pairings[x].granted => pairings[x].signer # NoDevice

ServiceInv ==
    /\ ServiceTypeOK
    /\ RowsInv
    /\ LockHolds
    /\ AllowanceCovers
    /\ GrantHasSigner
    /\ OneScopePerDocument
    /\ GrantedSessionsAreLive

-----------------------------------------------------------------------------
(* Requests and their parts *)

\* The fields of a parsed request (control-bodies.ts), by its operation.
LEMMA CallFields ==
    ASSUME NEW b \in Call
    PROVE  /\ b.by \in Device
           /\ b.op \in {"redeem", "grant", "revoke", "retire", "open", "request-put", "grant-get",
                        "grant-put", "push", "pull"}
           /\ b.op = "redeem" => b.code \in Code
           /\ b.op = "grant" => b.dev \in Device /\ b.grants \in SUBSET (Scope \X Kind)
           /\ b.op = "revoke" => b.dev \in Device
           /\ b.op = "retire" => b.tag \in Scope
           /\ b.op \in {"open", "request-put", "grant-get"} => b.sid \in Sid
           /\ b.op = "grant-put" => /\ b.sid \in Sid /\ b.dev \in Device /\ b.role \in Role
                                    /\ b.grants \in SUBSET (Scope \X Kind)
           /\ b.op \in DocOps => b.tag \in Scope /\ b.doc \in Doc
<1>1. ScopeLists \subseteq SUBSET (Scope \X Kind)
  BY ServiceAssumption DEF ScopeLists
<1>. QED BY <1>1 DEF Call, DocOps

\* A slot that is not free holds a parsed request.
LEMMA CallOf ==
    ASSUME ServiceTypeOK, NEW r \in Slot, call[r] # None
    PROVE  call[r] \in [body : Call, at : Phase] /\ Body(r) \in Call
<1>1. call[r] \in [body : Call, at : Phase]
  BY DEF ServiceTypeOK
<1>. QED BY <1>1 DEF Body

-----------------------------------------------------------------------------
(* The lock *)

\* What a decision rests on is untouched by a step that leaves devices, scopes and access
\* alone, opens no session, grants none and replaces no signer.
LEMMA StandsKept ==
    ASSUME NEW b \in Call, Stands(b), StoreTypeOK, UNCHANGED <<deviceVars, scopeVars>>,
           \A x \in Sid : pairings'[x] # NoSession =>
              /\ pairings[x] # NoSession
              /\ pairings[x].signer # NoDevice => pairings'[x].signer = pairings[x].signer
              /\ pairings'[x].granted = pairings[x].granted
    PROVE  Stands(b)'
<1> USE DEF deviceVars, scopeVars
<1>1. ActiveOwners' = ActiveOwners /\ Masters' = Masters
  BY DEF ActiveOwners, Masters
<1>2. \A R, S, G : CheckGrant(R, S, G) => CheckGrant(R, S, G)'
  BY <1>1 DEF CheckGrant, ScopeAcceptable
<1>3. /\ b.op = "redeem" => FreshKey(b.by)'
      /\ b.op = "retire" => RetireReads(b)'
      /\ b.op = "revoke" => RevokeReads(b)'
      /\ b.op = "open" => b.by \in ActiveOwners'
  BY <1>1 DEF Stands, FreshKey, RetireReads, RevokeReads, Revocable
<1>4. b.op = "grant" => GrantReads(b)'
  BY <1>2 DEF Stands, GrantReads
<1>5. ASSUME b.op = "grant-put", pairings'[b.sid] # NoSession
      PROVE  EnrollmentOK(b.sid, b.dev, b.role)' /\ ~pairings'[b.sid].granted /\ GrantFits(b)'
  <2>1. b.sid \in Sid /\ b.dev \in Device
    BY <1>5, CallFields
  <2>2. pairings[b.sid] # NoSession
    BY <1>5, <2>1
  <2>3. EnrollmentOK(b.sid, b.dev, b.role) /\ ~pairings[b.sid].granted /\ GrantFits(b)
    BY <1>5, <2>2 DEF Stands
  <2>4. pairings[b.sid].signer # NoDevice
    BY <2>1, <2>3, StoreAssumption DEF EnrollmentOK
  <2>5. pairings'[b.sid].signer = pairings[b.sid].signer /\ ~pairings'[b.sid].granted
    BY <1>5, <2>1, <2>3, <2>4
  <2>6. EnrollmentOK(b.sid, b.dev, b.role)'
    BY <2>3, <2>5 DEF EnrollmentOK
  <2>7. GrantFits(b)'
    BY <1>2, <2>3 DEF GrantFits
  <2>. QED BY <2>5, <2>6, <2>7
<1>. QED BY <1>3, <1>4, <1>5 DEF Stands

\* The holder of the lock keeps it, and its decision, through another's step.
LEMMA HolderKept ==
    ASSUME ServiceInv, NEW q \in Slot, At(q, "locked"), call'[q] = call[q],
           lock = q => lock' = q, UNCHANGED <<deviceVars, scopeVars>>,
           \A x \in Sid : pairings'[x] # NoSession =>
              /\ pairings[x] # NoSession
              /\ pairings[x].signer # NoDevice => pairings'[x].signer = pairings[x].signer
              /\ pairings'[x].granted = pairings[x].granted
    PROVE  lock' = q /\ \A b \in Call : b = Body(q)' => Stands(b)'
<1>1. call[q] # None /\ Body(q)' = Body(q)
  BY DEF At, Body
<1>2. lock' = q
  BY DEF ServiceInv, LockHolds
<1>3. ASSUME NEW b \in Call, b = Body(q)' PROVE Stands(b)'
  <2>1. Stands(b)
    BY <1>1, <1>3 DEF ServiceInv, LockHolds
  <2>. QED BY <2>1, StandsKept DEF ServiceInv, RowsInv
<1>. QED BY <1>2, <1>3

\* A transaction that ends leaves the lock to nobody.
LEMMA CommitFrees ==
    ASSUME ServiceInv, NEW r \in Slot, NEW op, Commit(r, op)
    PROVE  LockHolds'
<1>1. At(r, "locked") /\ Answer(r)
  BY DEF Commit, Op
<1>2. lock = r /\ call \in [Slot -> [body : Call, at : Phase] \cup {None}]
  BY <1>1, CallOf DEF ServiceInv, ServiceTypeOK, LockHolds, At
<1>3. \A q \in Slot : ~At(q, "locked")'
  <2> SUFFICES ASSUME NEW q \in Slot, At(q, "locked")' PROVE FALSE
    OBVIOUS
  <2>1. q # r /\ call'[q] = call[q]
    BY <1>1, <1>2 DEF Answer, At
  <2>2. At(q, "locked") /\ Body(q) \in Call
    BY <2>1, CallOf DEF At, ServiceInv
  <2>3. lock = q
    BY <2>2 DEF ServiceInv, LockHolds
  <2>. QED BY <1>2, <2>1, <2>3
<1>. QED BY <1>3 DEF LockHolds

\* A step of slot r that leaves the tables alone, and does not take the lock.
LEMMA QuietKeepsLock ==
    ASSUME ServiceInv, NEW r \in Slot, UNCHANGED storeVars,
           \/ Answer(r)
           \/ UNCHANGED lock /\ \E phase \in {"bound", "snapshot"} : Step(r, phase)
           \/ /\ UNCHANGED lock
              /\ \E b \in Call : call' = [call EXCEPT ![r] = [body |-> b, at |-> "allowed"]]
    PROVE  LockHolds'
<1> SUFFICES ASSUME NEW q \in Slot, At(q, "locked")'
             PROVE  lock' = q /\ \A b \in Call : b = Body(q)' => Stands(b)'
  BY DEF LockHolds
<1>1. call \in [Slot -> [body : Call, at : Phase] \cup {None}]
  BY DEF ServiceInv, ServiceTypeOK
<1>2. q # r
  <2>1. CASE Answer(r)
    BY <1>1, <2>1 DEF Answer, At
  <2>2. ASSUME NEW phase \in {"bound", "snapshot"}, Step(r, phase) PROVE q # r
    BY <1>1, <2>2 DEF Step, At
  <2>3. ASSUME NEW b \in Call, call' = [call EXCEPT ![r] = [body |-> b, at |-> "allowed"]]
        PROVE q # r
    BY <1>1, <2>3 DEF At
  <2>. QED BY <2>1, <2>2, <2>3
<1>3. call'[q] = call[q] /\ (lock = q => lock' = q)
  BY <1>1, <1>2 DEF Answer, Step
<1>4. At(q, "locked")
  BY <1>3 DEF At
<1>. QED BY <1>3, <1>4, HolderKept DEF storeVars, deviceVars, scopeVars

\* Every step keeps the lock's holder alone and its decision standing.
LEMMA LockStep == ServiceInv /\ [ServiceNext]_vars => LockHolds'
<1> SUFFICES ASSUME ServiceInv, [ServiceNext]_vars PROVE LockHolds'
  OBVIOUS
<1>0. call \in [Slot -> [body : Call, at : Phase] \cup {None}] /\ None \notin Slot
  BY ServiceAssumption DEF ServiceInv, ServiceTypeOK
<1>1. ASSUME NEW r \in Slot, NEW b \in Call, Authorize(r, b) PROVE LockHolds'
  <2>1. CASE b.op \in DocOps
    BY <1>1, <2>1, QuietKeepsLock DEF Authorize
  <2>2. CASE b.op \notin DocOps
    <3> SUFFICES ASSUME NEW q \in Slot, At(q, "locked")' PROVE FALSE
      BY DEF LockHolds
    <3>1. lock = None /\ call' = [call EXCEPT ![r] = [body |-> b, at |-> "allowed"]]
      BY <1>1, <2>2 DEF Authorize
    <3>2. q # r /\ At(q, "locked")
      BY <1>0, <3>1 DEF At
    <3>. QED BY <1>0, <3>1, <3>2 DEF ServiceInv, LockHolds
  <2>. QED BY <2>1, <2>2
<1>2. ASSUME NEW r \in Slot, TakeLock(r) PROVE LockHolds'
  <2>0. Body(r) \in Call /\ call[r] # None
    BY <1>2, CallOf DEF TakeLock, At, ServiceInv
  <2>1. CASE Reads(Body(r))
    <3>1. /\ lock = None /\ lock' = r /\ Step(r, "locked") /\ UNCHANGED storeVars
      BY <1>2, <2>1 DEF TakeLock, LockFree
    <3>2. \A q \in Slot \ {r} : ~At(q, "locked")'
      BY <1>0, <3>1 DEF At, Step, ServiceInv, LockHolds
    <3>3. Body(r)' = Body(r)
      <4>1. call[r] \in [body : Call, at : Phase]
        BY <2>0, CallOf DEF ServiceInv
      <4>. QED BY <1>0, <3>1, <4>1 DEF Step, Body
    <3>4. ASSUME NEW b \in Call, b = Body(r) PROVE Stands(b)'
      <4>1. Reads(b)
        BY <2>1, <3>4
      <4>2. Stands(b)
        BY <4>1 DEF Stands, Reads, RedeemReads, OpenReads, CompleteReads, AwaitsGrant, GrantFits
      <4>. QED BY <3>1, <4>2, StandsKept DEF storeVars, deviceVars, scopeVars, ServiceInv, RowsInv
    <3>. QED BY <3>1, <3>2, <3>3, <3>4 DEF LockHolds
  <2>2. CASE ~Reads(Body(r))
    BY <1>2, <2>2, QuietKeepsLock DEF TakeLock
  <2>. QED BY <2>1, <2>2
<1>3. ASSUME NEW r \in Slot, NEW op, Commit(r, op) PROVE LockHolds'
  BY <1>3, CommitFrees
<1>4. ASSUME NEW r \in Slot, DocScope(r) \/ PutSnapshot(r) \/ AppendSnapshot(r)
      PROVE LockHolds'
  BY <1>4, QuietKeepsLock DEF DocScope, PutSnapshot, AppendSnapshot
<1>5. ASSUME NEW r \in Slot, AppendWrites(r) \/ Fetch(r) \/ Fail(r) PROVE LockHolds'
  BY <1>5, QuietKeepsLock DEF AppendWrites, Fetch, Fail
<1>6. ASSUME NEW r \in Slot, PutWrites(r) PROVE LockHolds'
  <2> SUFFICES ASSUME NEW q \in Slot, At(q, "locked")'
               PROVE  lock' = q /\ \A b \in Call : b = Body(q)' => Stands(b)'
    BY DEF LockHolds
  <2>1. q # r /\ call'[q] = call[q] /\ (lock = q => lock' = q)
    BY <1>0, <1>6 DEF PutWrites, Answer, At
  <2>2. At(q, "locked")
    BY <2>1 DEF At
  <2>3. ASSUME NEW x \in Sid, pairings'[x] # NoSession
        PROVE  /\ pairings[x] # NoSession
               /\ pairings[x].signer # NoDevice => pairings'[x].signer = pairings[x].signer
               /\ pairings'[x].granted = pairings[x].granted
    <3>1. pairings \in [Sid -> Session \cup {NoSession}]
      BY DEF ServiceInv, ServiceTypeOK, StoreTypeOK
    <3>2. CASE UNCHANGED pairings
      BY <2>3, <3>2
    <3>3. ASSUME NEW y \in Sid, NEW d \in Device, IsOpen(y), RequestSlotFree(y),
                 pairings' = [pairings EXCEPT ![y].signer = d]
          PROVE  /\ pairings[x] # NoSession
                 /\ pairings[x].signer # NoDevice => pairings'[x].signer = pairings[x].signer
                 /\ pairings'[x].granted = pairings[x].granted
      BY <2>3, <3>1, <3>3 DEF IsOpen, RequestSlotFree, Session
    <3>4. Body(r) \in Call /\ Body(r).op = "request-put"
      BY <1>6, CallOf DEF PutWrites, Op, At, ServiceInv
    <3>5. Body(r).sid \in Sid /\ Body(r).by \in Device
      BY <3>4, CallFields
    <3>. QED BY <1>6, <3>2, <3>3, <3>5 DEF PutWrites
  <2>4. UNCHANGED <<deviceVars, scopeVars>>
    BY <1>6 DEF PutWrites
  <2>. QED BY <2>1, <2>2, <2>3, <2>4, HolderKept
<1>7. ASSUME Restart PROVE LockHolds'
  BY <1>7 DEF Restart, LockHolds, At
<1>8. ASSUME Operator \/ Clock \/ UNCHANGED vars PROVE LockHolds'
  <2>1. UNCHANGED <<deviceVars, scopeVars, pairings, call, lock>>
    BY <1>8 DEF Operator, Clock, IssueOwnerCode, InvalidateOwnerCodes, Tick, vars, storeVars,
       serviceVars, deviceVars, scopeVars
  <2>2. ASSUME NEW q \in Slot, At(q, "locked")'
        PROVE  lock' = q /\ \A b \in Call : b = Body(q)' => Stands(b)'
    <3>1. At(q, "locked") /\ call'[q] = call[q]
      BY <2>1, <2>2 DEF At
    <3>. QED BY <2>1, <3>1, HolderKept
  <2>. QED BY <2>2 DEF LockHolds
<1>. QED
  BY <1>1, <1>2, <1>3, <1>4, <1>5, <1>6, <1>7, <1>8
  DEF ServiceNext, Serve, RedeemWrites, GrantWrites, RetireWrites, RevokeWrites, OpenWrites,
      CompleteWrites, TakeWrites

-----------------------------------------------------------------------------
(* Transactions as methods of the store *)

\* The request whose transaction commits, and what it decided by.
LEMMA CommitStands ==
    ASSUME ServiceInv, NEW r \in Slot, NEW op, Commit(r, op)
    PROVE  Body(r) \in Call /\ Body(r).op = op /\ Stands(Body(r))
<1>1. At(r, "locked") /\ Body(r).op = op
  BY DEF Commit, Op
<1>2. Body(r) \in Call
  BY <1>1, CallOf DEF At, ServiceInv
<1>. QED BY <1>1, <1>2 DEF ServiceInv, LockHolds

\* redeemOwnerCode, split: it writes what the method does, or nothing.
LEMMA RedeemIsMethod ==
    ASSUME ServiceInv, NEW r \in Slot, RedeemWrites(r)
    PROVE  UNCHANGED storeVars \/ \E c \in Code, d \in Device : RedeemOwnerCode(c, d)
<1>1. Body(r) \in Call /\ Body(r).op = "redeem" /\ Stands(Body(r))
  BY CommitStands DEF RedeemWrites
<1>2. Body(r).code \in Code /\ Body(r).by \in Device /\ FreshKey(Body(r).by)
  BY <1>1, CallFields DEF Stands
<1>. QED BY <1>2 DEF RedeemWrites, StillUsable, RedeemOwnerCode

\* grantScopes, split, is the method.
LEMMA GrantIsMethod ==
    ASSUME ServiceInv, NEW r \in Slot, GrantWrites(r)
    PROVE  \E d \in Device, grants \in SUBSET (Scope \X Kind) : GrantScopes(d, grants)
<1>1. Body(r) \in Call /\ Body(r).op = "grant" /\ Stands(Body(r))
  BY CommitStands DEF GrantWrites
<1>2. Body(r).dev \in Device /\ Body(r).grants \in SUBSET (Scope \X Kind) /\ GrantReads(Body(r))
  BY <1>1, CallFields DEF Stands
<1>. QED BY <1>2 DEF GrantWrites, GrantReads, GrantScopes

\* retireScope, split, is the method.
LEMMA RetireIsMethod ==
    ASSUME ServiceInv, NEW r \in Slot, RetireWrites(r)
    PROVE  \E s \in Scope : RetireScope(s)
<1>1. Body(r) \in Call /\ Body(r).op = "retire" /\ Stands(Body(r))
  BY CommitStands DEF RetireWrites
<1>2. Body(r).tag \in Scope /\ RetireReads(Body(r))
  BY <1>1, CallFields DEF Stands
<1>. QED BY <1>2 DEF RetireWrites, RetireReads, RetireScope

\* revoke, split, is the method: the owner it counted on is still there.
LEMMA RevokeIsMethod ==
    ASSUME ServiceInv, NEW r \in Slot, RevokeWrites(r)
    PROVE  Body(r).dev \in Device /\ Revoke(Body(r).dev)
<1>1. Body(r) \in Call /\ Body(r).op = "revoke" /\ Stands(Body(r))
  BY CommitStands DEF RevokeWrites
<1>2. Body(r).dev \in Device /\ RevokeReads(Body(r))
  BY <1>1, CallFields DEF Stands
<1>. QED BY <1>2 DEF RevokeWrites, RevokeReads, Revoke

\* What a grant decided for a session writes to the device's row, when the session is there.
LEMMA CompleteWritesRow ==
    ASSUME ServiceInv, NEW r \in Slot, CompleteWrites(r), ~UNCHANGED storeVars,
           NEW b \in Call, b = Body(r)
    PROVE  /\ b.sid \in Sid /\ b.dev \in Device /\ b.role \in Role
           /\ b.grants \in SUBSET (Scope \X Kind)
           /\ pairings[b.sid] # NoSession /\ ~pairings[b.sid].granted
           /\ pairings[b.sid].signer = b.dev /\ pairings[b.sid].opener \in ActiveOwners
           /\ CheckGrant(b.role, "active", b.grants) /\ WriteGrant(b.dev, b.grants)
           /\ status[b.dev] \in {"none", "active"} /\ (status[b.dev] = "active" => role[b.dev] = b.role)
           /\ role' = [role EXCEPT ![b.dev] = b.role]
           /\ status' = [status EXCEPT ![b.dev] = "active"]
           /\ pairings' = [pairings EXCEPT ![b.sid].granted = TRUE]
           /\ UNCHANGED <<now, codes>>
<1>1. b.op = "grant-put" /\ Stands(b)
  BY CommitStands DEF CompleteWrites
<1>2. /\ b.sid \in Sid /\ b.dev \in Device /\ b.role \in Role
      /\ b.grants \in SUBSET (Scope \X Kind)
  BY <1>1, CallFields
<1>3. /\ pairings[b.sid] # NoSession /\ WriteGrant(b.dev, b.grants)
      /\ role' = [role EXCEPT ![b.dev] = IF @ = "none" THEN b.role ELSE @]
      /\ status' = [status EXCEPT ![b.dev] = IF @ = "none" THEN "active" ELSE @]
      /\ pairings' = [pairings EXCEPT ![b.sid].granted = TRUE]
      /\ UNCHANGED <<now, codes>>
  BY DEF CompleteWrites
<1>4. EnrollmentOK(b.sid, b.dev, b.role) /\ ~pairings[b.sid].granted /\ GrantFits(b)
  BY <1>1, <1>3 DEF Stands
<1>5. /\ role \in [Device -> Role \cup {"none"}]
      /\ status \in [Device -> {"none", "active", "revoked"}]
      /\ \A d \in Device : role[d] = "none" <=> status[d] = "none"
  BY DEF ServiceInv, RowsInv, StoreTypeOK, RowsAgree
<1>6. status[b.dev] \in {"none", "active"} /\ CheckGrant(b.role, "active", b.grants)
      /\ (status[b.dev] = "active" => role[b.dev] = b.role)
  <2>1. CASE status[b.dev] = "none"
    BY <1>4, <2>1 DEF GrantFits
  <2>2. CASE status[b.dev] # "none"
    BY <1>4, <2>2 DEF GrantFits, EnrollmentOK, CheckGrant
  <2>. QED BY <2>1, <2>2
<1>7. role' = [role EXCEPT ![b.dev] = b.role] /\ status' = [status EXCEPT ![b.dev] = "active"]
  BY <1>2, <1>3, <1>5, <1>6 DEF Role
<1>8. pairings[b.sid].opener \in ActiveOwners /\ pairings[b.sid].signer = b.dev
  BY <1>2, <1>3, <1>4 DEF ServiceInv, GrantedSessionsAreLive, EnrollmentOK
<1>. QED BY <1>2, <1>3, <1>4, <1>6, <1>7, <1>8

\* The mailbox's statements touch sessions alone.
LEMMA MailboxWrites ==
    ASSUME ServiceInv, NEW r \in Slot, OpenWrites(r) \/ TakeWrites(r) \/ PutWrites(r)
    PROVE  /\ pairings' \in [Sid -> Session \cup {NoSession}]
           /\ UNCHANGED <<now, codes, deviceVars, scopeVars>>
<1>1. pairings \in [Sid -> Session \cup {NoSession}] /\ now \in Nat
  BY DEF ServiceInv, RowsInv, StoreTypeOK
<1>2. CASE OpenWrites(r)
  <2>1. Body(r) \in Call /\ Body(r).op = "open"
    BY <1>2, CommitStands DEF OpenWrites
  <2>2. Body(r).sid \in Sid /\ Body(r).by \in Device
    BY <2>1, CallFields
  <2>3. [opener |-> Body(r).by, expiresAt |-> now + PairingTTL, signer |-> NoDevice,
         granted |-> FALSE] \in Session
    BY <1>1, <2>2, StoreAssumption DEF Session
  <2>. QED BY <1>1, <1>2, <2>3 DEF OpenWrites
<1>3. CASE TakeWrites(r)
  BY <1>1, <1>3 DEF TakeWrites
<1>4. CASE PutWrites(r)
  <2>1. Body(r) \in Call /\ Body(r).op = "request-put"
    BY <1>4, CallOf DEF PutWrites, Op, At, ServiceInv
  <2>2. Body(r).sid \in Sid /\ Body(r).by \in Device
    BY <2>1, CallFields
  <2>3. CASE UNCHANGED pairings
    BY <1>1, <1>4, <2>3 DEF PutWrites
  <2>4. ASSUME NEW x \in Sid, NEW d \in Device, IsOpen(x),
               pairings' = [pairings EXCEPT ![x].signer = d]
        PROVE  pairings' \in [Sid -> Session \cup {NoSession}]
    <3>1. pairings[x] \in Session
      BY <1>1, <2>4 DEF IsOpen
    <3>2. [pairings[x] EXCEPT !.signer = d] \in Session
      BY <3>1 DEF Session
    <3>. QED BY <1>1, <2>4, <3>2
  <2>. QED BY <1>1, <1>4, <2>2, <2>3, <2>4 DEF PutWrites
<1>. QED BY <1>2, <1>3, <1>4

\* Every step keeps what the store promises about devices, scopes and access.
LEMMA RowsStep == ServiceInv /\ [ServiceNext]_vars => RowsInv'
<1> SUFFICES ASSUME ServiceInv, [ServiceNext]_vars PROVE RowsInv'
  OBVIOUS
<1>0. RowsInv
  BY DEF ServiceInv
<1>1. ASSUME StoreTypeOK', UNCHANGED <<deviceVars, scopeVars>> PROVE RowsInv'
  BY <1>0, <1>1, QuietStep DEF RowsInv
<1>2. ASSUME SweepExpired \/ Tick \/ UNCHANGED storeVars PROVE RowsInv'
  <2>1. StoreTypeOK'
    BY <1>0, <1>2, NextType DEF RowsInv, StoreNext
  <2>. QED BY <1>1, <1>2, <2>1 DEF SweepExpired, Tick, storeVars, deviceVars, scopeVars
<1>3. ASSUME NEW r \in Slot, RedeemWrites(r) PROVE RowsInv'
  BY <1>0, <1>2, <1>3, RedeemIsMethod, RedeemRows
<1>4. ASSUME NEW r \in Slot, GrantWrites(r) PROVE RowsInv'
  BY <1>0, <1>4, GrantIsMethod, GrantRows
<1>5. ASSUME NEW r \in Slot, RetireWrites(r) PROVE RowsInv'
  BY <1>0, <1>5, RetireIsMethod, RetireRows
<1>6. ASSUME NEW r \in Slot, RevokeWrites(r) PROVE RowsInv'
  BY <1>0, <1>6, RevokeIsMethod, RevokeRows
<1>7. ASSUME NEW r \in Slot, OpenWrites(r) \/ TakeWrites(r) \/ PutWrites(r) PROVE RowsInv'
  <2>1. StoreTypeOK'
    BY <1>0, <1>7, MailboxWrites DEF RowsInv, StoreTypeOK, deviceVars, scopeVars
  <2>. QED BY <1>1, <1>7, <2>1, MailboxWrites
<1>8. ASSUME NEW r \in Slot, CompleteWrites(r) PROVE RowsInv'
  <2>1. CASE UNCHANGED storeVars
    BY <1>2, <2>1
  <2>2. CASE ~UNCHANGED storeVars
    <3> PICK b \in Call : b = Body(r)
      BY <1>8, CommitStands DEF CompleteWrites
    <3>1. /\ b.sid \in Sid /\ b.dev \in Device /\ b.role \in Role
          /\ b.grants \in SUBSET (Scope \X Kind)
          /\ pairings[b.sid] # NoSession /\ pairings[b.sid].opener \in ActiveOwners
          /\ CheckGrant(b.role, "active", b.grants) /\ WriteGrant(b.dev, b.grants)
          /\ status[b.dev] \in {"none", "active"}
          /\ (status[b.dev] = "active" => role[b.dev] = b.role)
          /\ role' = [role EXCEPT ![b.dev] = b.role]
          /\ status' = [status EXCEPT ![b.dev] = "active"]
          /\ pairings' = [pairings EXCEPT ![b.sid].granted = TRUE]
          /\ UNCHANGED <<now, codes>>
      BY <1>8, <2>2, CompleteWritesRow
    <3>2. /\ MasterStaysWithTheOwners' /\ AccessOnlyForActiveDevices'
          /\ \A s \in retired' : kind'[s] = "period"
      BY <1>0, <3>1, GrantKeepsScopes
    <3>3. /\ role \in [Device -> Role \cup {"none"}]
          /\ status \in [Device -> {"none", "active", "revoked"}]
          /\ \A e \in Device : role[e] = "none" <=> status[e] = "none"
          /\ pairings \in [Sid -> Session \cup {NoSession}]
      BY <1>0 DEF RowsInv, StoreTypeOK, RowsAgree
    <3>4. RowsAgree'
      BY <3>1, <3>2, <3>3 DEF RowsAgree, Role
    <3>5. OwnerRemains'
      <4>1. pairings[b.sid].opener \in ActiveOwners'
        BY <3>1, <3>3 DEF ActiveOwners
      <4>. QED BY <4>1 DEF OwnerRemains, RedeemMode
    <3>6. StoreTypeOK'
      <4>1. [pairings[b.sid] EXCEPT !.granted = TRUE] \in Session
        <5>1. pairings[b.sid] \in Session
          BY <3>1, <3>3
        <5>. QED BY <5>1 DEF Session
      <4>2. pairings' \in [Sid -> Session \cup {NoSession}]
        BY <3>1, <3>3, <4>1
      <4>3. /\ kind' \in [Scope -> Kind \cup {"none"}] /\ retired' \in SUBSET Scope
            /\ acl' \in [Device -> SUBSET Scope]
        BY <1>0, <3>1, WriteGrantType DEF RowsInv
      <4>. QED BY <1>0, <3>1, <3>3, <4>2, <4>3 DEF RowsInv, StoreTypeOK, Role
    <3>. QED BY <3>2, <3>4, <3>5, <3>6 DEF RowsInv
  <2>. QED BY <2>1, <2>2
<1>9. ASSUME Operator PROVE RowsInv'
  <2>1. (\E c \in Code : IssueOwnerCode(c)) \/ InvalidateOwnerCodes
    BY <1>9 DEF Operator
  <2>2. StoreTypeOK'
    BY <1>0, <2>1, NextType DEF RowsInv, StoreNext
  <2>. QED BY <1>1, <2>1, <2>2 DEF IssueOwnerCode, InvalidateOwnerCodes
<1>10. ASSUME NEW r \in Slot, \/ \E b \in Call : Authorize(r, b)
                              \/ DocScope(r) \/ TakeLock(r) \/ PutSnapshot(r) \/ AppendSnapshot(r)
                              \/ AppendWrites(r) \/ Fetch(r) \/ Fail(r)
       PROVE RowsInv'
  <2>1. SweepExpired \/ UNCHANGED storeVars
    BY <1>10 DEF Authorize, DocScope, TakeLock, PutSnapshot, AppendSnapshot, AppendWrites, Fetch, Fail
  <2>. QED BY <1>2, <2>1
<1>11. ASSUME Restart \/ Clock \/ UNCHANGED vars PROVE RowsInv'
  BY <1>2, <1>11 DEF Restart, Clock, vars
<1>. QED
  BY <1>3, <1>4, <1>5, <1>6, <1>7, <1>8, <1>9, <1>10, <1>11 DEF ServiceNext, Serve

-----------------------------------------------------------------------------
(* Sessions and documents *)

\* A session with a grant keeps an enrolled signer, and every session its owner: revoke
\* takes its sessions along, and the grant's device row was checked under the lock.
LEMMA SessionStep ==
    ServiceInv /\ [ServiceNext]_vars => GrantHasSigner' /\ GrantedSessionsAreLive'
<1> DEFINE Live(x) == pairings[x] # NoSession =>
              /\ pairings[x].opener \in ActiveOwners
              /\ pairings[x].granted => /\ pairings[x].signer # NoDevice
                                        /\ status[pairings[x].signer] = "active"
<1> SUFFICES ASSUME ServiceInv, [ServiceNext]_vars, NEW x \in Sid PROVE Live(x)'
  BY DEF GrantHasSigner, GrantedSessionsAreLive
<1>0. /\ Live(x) /\ NoDevice \notin Device
      /\ pairings \in [Sid -> Session \cup {NoSession}]
      /\ role \in [Device -> Role \cup {"none"}]
      /\ status \in [Device -> {"none", "active", "revoked"}]
  BY StoreAssumption
  DEF ServiceInv, GrantHasSigner, GrantedSessionsAreLive, RowsInv, StoreTypeOK
<1>1. ASSUME pairings'[x] \in {pairings[x], NoSession},
             \A d \in Device : status[d] = "active" => status'[d] = "active" /\ role'[d] = role[d]
      PROVE  Live(x)'
  BY <1>0, <1>1 DEF ActiveOwners, Session
<1>2. ASSUME SweepExpired \/ Tick \/ UNCHANGED storeVars PROVE Live(x)'
  BY <1>1, <1>2 DEF SweepExpired, Tick, storeVars, deviceVars
<1>3. ASSUME NEW r \in Slot, RedeemWrites(r) PROVE Live(x)'
  <2>1. CASE UNCHANGED storeVars
    BY <1>2, <2>1
  <2>2. ASSUME NEW c \in Code, NEW d \in Device, RedeemOwnerCode(c, d) PROVE Live(x)'
    BY <1>0, <1>1, <2>2 DEF RedeemOwnerCode, FreshKey
  <2>. QED BY <1>3, <2>1, <2>2, RedeemIsMethod
<1>4. ASSUME NEW r \in Slot, GrantWrites(r) \/ RetireWrites(r) PROVE Live(x)'
  BY <1>1, <1>4 DEF GrantWrites, RetireWrites, deviceVars
<1>5. ASSUME NEW r \in Slot, RevokeWrites(r) PROVE Live(x)'
  <2> PICK d \in Device : Revoke(d)
    BY <1>5, RevokeIsMethod
  <2>1. CASE x \in SessionsOf(d)
    BY <1>0, <2>1 DEF Revoke
  <2>2. CASE x \notin SessionsOf(d)
    <3>1. pairings'[x] = pairings[x] /\ UNCHANGED role
          /\ \A e \in Device \ {d} : status'[e] = status[e]
      BY <1>0, <2>2 DEF Revoke
    <3>2. pairings[x] # NoSession => pairings[x].opener # d /\ pairings[x].signer # d
      BY <2>2 DEF SessionsOf
    <3>. QED BY <1>0, <3>1, <3>2 DEF ActiveOwners, Session
  <2>. QED BY <2>1, <2>2
<1>6. ASSUME NEW r \in Slot, OpenWrites(r) PROVE Live(x)'
  <2> PICK b \in Call : b = Body(r) /\ b.op = "open" /\ Stands(b)
    BY <1>6, CommitStands DEF OpenWrites
  <2>1. b.sid \in Sid /\ b.by \in ActiveOwners
    BY CallFields DEF Stands
  <2>2. CASE x = b.sid
    <3>1. pairings'[x].opener = b.by /\ ~pairings'[x].granted
      BY <1>0, <1>6, <2>2 DEF OpenWrites
    <3>. QED BY <1>6, <2>1, <3>1 DEF OpenWrites, deviceVars, ActiveOwners
  <2>3. CASE x # b.sid
    BY <1>0, <1>1, <1>6, <2>3 DEF OpenWrites, deviceVars
  <2>. QED BY <2>2, <2>3
<1>7. ASSUME NEW r \in Slot, CompleteWrites(r) PROVE Live(x)'
  <2>1. CASE UNCHANGED storeVars
    BY <1>2, <2>1
  <2>2. CASE ~UNCHANGED storeVars
    <3> PICK b \in Call : b = Body(r)
      BY <1>7, CommitStands DEF CompleteWrites
    <3>1. /\ b.sid \in Sid /\ b.dev \in Device /\ b.role \in Role
          /\ pairings[b.sid] # NoSession /\ pairings[b.sid].signer = b.dev
          /\ (status[b.dev] = "active" => role[b.dev] = b.role)
          /\ role' = [role EXCEPT ![b.dev] = b.role]
          /\ status' = [status EXCEPT ![b.dev] = "active"]
          /\ pairings' = [pairings EXCEPT ![b.sid].granted = TRUE]
      BY <1>7, <2>2, CompleteWritesRow
    <3>2. \A d \in Device : status[d] = "active" => status'[d] = "active" /\ role'[d] = role[d]
      BY <1>0, <3>1
    <3>3. CASE x # b.sid
      BY <1>0, <1>1, <3>1, <3>2, <3>3
    <3>4. CASE x = b.sid
      <4>1. pairings[x] \in Session /\ pairings'[x] = [pairings[x] EXCEPT !.granted = TRUE]
        BY <1>0, <3>1, <3>4
      <4>2. pairings'[x].opener = pairings[x].opener /\ pairings'[x].signer = b.dev
        BY <3>1, <3>4, <4>1 DEF Session
      <4>3. pairings[x].opener \in ActiveOwners'
        BY <1>0, <3>1, <3>2, <3>4 DEF ActiveOwners
      <4>. QED BY <1>0, <3>1, <4>2, <4>3
    <3>. QED BY <3>3, <3>4
  <2>. QED BY <2>1, <2>2
<1>8. ASSUME NEW r \in Slot, TakeWrites(r) PROVE Live(x)'
  BY <1>0, <1>1, <1>8 DEF TakeWrites, deviceVars
<1>9. ASSUME NEW r \in Slot, PutWrites(r) PROVE Live(x)'
  <2>0. UNCHANGED <<role, status>> /\ ActiveOwners' = ActiveOwners
    BY <1>9 DEF PutWrites, deviceVars, ActiveOwners
  <2>1. CASE UNCHANGED pairings
    BY <1>1, <2>0, <2>1
  <2>2. ASSUME NEW y \in Sid, NEW d \in Device, IsOpen(y), RequestSlotFree(y),
               pairings' = [pairings EXCEPT ![y].signer = d]
        PROVE  Live(x)'
    <3>1. CASE x # y
      BY <1>0, <1>1, <2>0, <2>2, <3>1
    <3>2. CASE x = y
      <4>1. pairings[x] \in Session /\ pairings[x].signer = NoDevice /\ pairings[x] # NoSession
        BY <1>0, <2>2, <3>2 DEF IsOpen, RequestSlotFree
      <4>2. pairings'[x] = [pairings[x] EXCEPT !.signer = d]
        BY <1>0, <2>2, <3>2
      <4>3. pairings'[x].opener = pairings[x].opener /\ pairings'[x].granted = pairings[x].granted
        BY <4>1, <4>2 DEF Session
      <4>. QED BY <1>0, <2>0, <4>1, <4>3
    <3>. QED BY <3>1, <3>2
  <2>3. Body(r) \in Call /\ Body(r).op = "request-put"
    BY <1>9, CallOf DEF PutWrites, Op, At, ServiceInv
  <2>4. Body(r).sid \in Sid /\ Body(r).by \in Device
    BY <2>3, CallFields
  <2>. QED BY <1>9, <2>1, <2>2, <2>4 DEF PutWrites
<1>10. ASSUME Operator PROVE Live(x)'
  BY <1>1, <1>10 DEF Operator, IssueOwnerCode, InvalidateOwnerCodes, deviceVars
<1>11. ASSUME NEW r \in Slot, \/ \E b \in Call : Authorize(r, b)
                              \/ DocScope(r) \/ TakeLock(r) \/ PutSnapshot(r) \/ AppendSnapshot(r)
                              \/ AppendWrites(r) \/ Fetch(r) \/ Fail(r)
       PROVE Live(x)'
  <2>1. SweepExpired \/ UNCHANGED storeVars
    BY <1>11 DEF Authorize, DocScope, TakeLock, PutSnapshot, AppendSnapshot, AppendWrites, Fetch, Fail
  <2>. QED BY <1>2, <2>1
<1>12. ASSUME Restart \/ Clock \/ UNCHANGED vars PROVE Live(x)'
  BY <1>2, <1>12 DEF Restart, Clock, vars
<1>. QED
  BY <1>3, <1>4, <1>5, <1>6, <1>7, <1>8, <1>9, <1>10, <1>11, <1>12 DEF ServiceNext, Serve

\* A document's type, and the one scope of its updates: the append statement.
DocsInv ==
    /\ docs \in [Doc -> [scope : Scope \cup {None}, log : Seq(Device \X Scope)]]
    /\ \A f \in Doc : docs[f].scope = None <=> docs[f].log = <<>>
    /\ OneScopePerDocument

\* Only a committed append writes a document, and it binds the document or finds it bound
\* to the scope it declares.
LEMMA DocsStep == ServiceInv /\ [ServiceNext]_vars => DocsInv'
<1> SUFFICES ASSUME ServiceInv, [ServiceNext]_vars PROVE DocsInv'
  OBVIOUS
<1>0. DocsInv
  BY DEF ServiceInv, ServiceTypeOK, DocsInv
<1>1. ASSUME UNCHANGED docs PROVE DocsInv'
  BY <1>0, <1>1 DEF DocsInv, OneScopePerDocument
<1>2. ASSUME NEW r \in Slot, AppendWrites(r) PROVE DocsInv'
  <2> PICK b \in Call : b = Body(r) /\ b.op = "push"
    BY <1>2, CallOf DEF AppendWrites, Op, At, ServiceInv
  <2>1. b.tag \in Scope /\ b.doc \in Doc /\ b.by \in Device
    BY CallFields DEF DocOps
  <2>2. CASE ~BindsOrExtends(b.doc, b.tag)
    BY <1>1, <1>2, <2>2 DEF AppendWrites
  <2>3. CASE BindsOrExtends(b.doc, b.tag)
    <3> DEFINE old == docs[b.doc]
               entry == <<b.by, b.tag>>
    <3>1. old.scope \in {None, b.tag} /\ old.log \in Seq(Device \X Scope)
      BY <1>0, <2>1, <2>3 DEF BindsOrExtends, DocsInv
    <3>2. BoundTo(b.doc, b.tag) = b.tag
      BY <3>1 DEF BoundTo
    <3>3. docs' = [docs EXCEPT ![b.doc] = [scope |-> b.tag, log |-> Append(old.log, entry)]]
      BY <1>0, <1>2, <2>1, <2>3, <3>2 DEF AppendWrites, DocsInv
    <3>4. entry \in Device \X Scope /\ Append(old.log, entry) \in Seq(Device \X Scope)
          /\ Append(old.log, entry) # <<>>
      BY <2>1, <3>1
    <3>5. \A i \in 1 .. Len(Append(old.log, entry)) : Append(old.log, entry)[i][2] = b.tag
      <4> SUFFICES ASSUME NEW i \in 1 .. Len(Append(old.log, entry))
                   PROVE  Append(old.log, entry)[i][2] = b.tag
        OBVIOUS
      <4>1. CASE i = Len(old.log) + 1
        BY <3>1, <3>4, <4>1
      <4>2. CASE i \in 1 .. Len(old.log)
        <5>1. Append(old.log, entry)[i] = old.log[i]
          BY <3>1, <3>4, <4>2
        <5>2. old.log[i][2] = old.scope
          BY <1>0, <2>1, <4>2 DEF DocsInv, OneScopePerDocument
        <5>3. old.scope # None
          BY <1>0, <2>1, <3>1, <4>2 DEF DocsInv
        <5>. QED BY <3>1, <5>1, <5>2, <5>3
      <4>. QED BY <3>1, <3>4, <4>1, <4>2, SMTT(30)
    <3>6. b.tag # None
      BY <2>1, ServiceAssumption
    <3>7. docs' \in [Doc -> [scope : Scope \cup {None}, log : Seq(Device \X Scope)]]
      BY <1>0, <2>1, <3>3, <3>4 DEF DocsInv
    <3>8. /\ \A f \in Doc : docs'[f].scope = None <=> docs'[f].log = <<>>
          /\ \A f \in Doc : \A i \in 1 .. Len(docs'[f].log) : docs'[f].log[i][2] = docs'[f].scope
      <4> SUFFICES ASSUME NEW f \in Doc
                   PROVE  /\ docs'[f].scope = None <=> docs'[f].log = <<>>
                          /\ \A i \in 1 .. Len(docs'[f].log) : docs'[f].log[i][2] = docs'[f].scope
        OBVIOUS
      <4>1. CASE f = b.doc
        <5>1. docs'[f].scope = b.tag /\ docs'[f].log = Append(old.log, entry)
          BY <1>0, <3>3, <4>1 DEF DocsInv
        <5>. QED BY <3>4, <3>5, <3>6, <5>1
      <4>2. CASE f # b.doc
        <5>1. docs'[f] = docs[f]
          BY <1>0, <3>3, <4>2 DEF DocsInv
        <5>. QED BY <1>0, <5>1 DEF DocsInv, OneScopePerDocument
      <4>. QED BY <4>1, <4>2
    <3>. QED BY <3>7, <3>8 DEF DocsInv, OneScopePerDocument
  <2>. QED BY <2>2, <2>3
<1>3. CASE ~\E r \in Slot : AppendWrites(r)
  <2>1. UNCHANGED docs
    BY <1>3 DEF ServiceNext, Serve, Authorize, DocScope, TakeLock, Commit, RedeemWrites, GrantWrites,
       RetireWrites, RevokeWrites, OpenWrites, CompleteWrites, TakeWrites, PutSnapshot, PutWrites,
       AppendSnapshot, Fetch, Fail, Restart, Operator, Clock, vars, serviceVars
  <2>. QED BY <1>1, <2>1
<1>. QED BY <1>2, <1>3

-----------------------------------------------------------------------------
(* What a revoked device may still complete *)

\* The requests under way are as many as there are slots at most.
LEMMA ArmedFinite == \A d : IsFiniteSet(Armed(d)) /\ Cardinality(Armed(d)) \in Nat
<1> SUFFICES ASSUME NEW d PROVE IsFiniteSet(Armed(d)) /\ Cardinality(Armed(d)) \in Nat
  OBVIOUS
<1>1. Armed(d) \subseteq Slot
  BY DEF Armed
<1>2. IsFiniteSet(Armed(d))
  BY <1>1, FS_Subset, ServiceAssumption
<1>. QED BY <1>2, FS_CardinalityType

\* A revoked device arms no request: what it sends is not authorized, or refused by the
\* store before it is past "allowed".
LEMMA NoneArmed ==
    ASSUME ServiceInv, [ServiceNext]_vars, NEW d \in Device, status[d] = "revoked",
           NEW q \in Slot, q \in Armed(d)'
    PROVE  q \in Armed(d)
<1>0. /\ call \in [Slot -> [body : Call, at : Phase] \cup {None}]
      /\ role \in [Device -> Role \cup {"none"}]
      /\ status \in [Device -> {"none", "active", "revoked"}]
  BY DEF ServiceInv, ServiceTypeOK, RowsInv, StoreTypeOK
<1>1. /\ call'[q] # None /\ call'[q].body.by = d
      /\ ~(call'[q].at = "allowed" /\ call'[q].body.op \in RefusedOps)
  BY DEF Armed, Body
<1>2. CASE call'[q] = call[q]
  BY <1>1, <1>2 DEF Armed, Body
<1>3. ASSUME NEW b \in Call, Authorize(q, b) PROVE FALSE
  <2>1. call'[q] = [body |-> b, at |-> "allowed"]
    BY <1>0, <1>3 DEF Authorize
  <2>2. b.by = d /\ b.op \notin RefusedOps
    BY <1>1, <2>1
  <2>3. ~Allowed(b)
    BY <2>2, CallFields DEF Allowed, OwnerOps, DocOps, RefusedOps, IsAuthorized, ActiveOwners
  <2>. QED BY <1>3, <2>3 DEF Authorize
<1>4. ASSUME NEW phase \in Phase, Step(q, phase), call[q] # None,
             call[q].at # "allowed" \/ Body(q).op \notin RefusedOps
      PROVE  q \in Armed(d)
  <2>1. call[q] \in [body : Call, at : Phase]
    BY <1>0, <1>4
  <2>2. call'[q].body = call[q].body
    BY <1>0, <1>4, <2>1 DEF Step
  <2>. QED BY <1>1, <1>4, <2>2 DEF Armed, Body
<1>5. CASE DocScope(q)
  <2>1. call'[q] # None => Step(q, "bound")
    BY <1>0, <1>5 DEF DocScope, Answer
  <2>. QED BY <1>1, <1>4, <1>5, <2>1 DEF DocScope, At, DocOps, RefusedOps, Phase
<1>6. CASE TakeLock(q)
  <2>1. call'[q] # None => Step(q, "locked") /\ Reads(Body(q))
    BY <1>0, <1>6 DEF TakeLock, Answer
  <2>2. Step(q, "locked") /\ call[q] \in [body : Call, at : Phase]
    BY <1>0, <1>1, <1>6, <2>1 DEF TakeLock, At
  <2>3. Body(q).by = d
    BY <1>0, <1>1, <2>2 DEF Step, Body
  <2>4. Body(q).op \notin RefusedOps
    BY <1>1, <1>6, <2>1, <2>3
    DEF RefusedOps, TakeLock, Reads, RedeemReads, FreshKey, TakeReads
  <2>. QED BY <1>4, <1>6, <2>2, <2>4 DEF TakeLock, At, Phase
<1>7. CASE PutSnapshot(q)
  <2>1. call'[q] # None => Step(q, "snapshot") /\ status[Body(q).by] # "revoked"
    BY <1>0, <1>7 DEF PutSnapshot, Answer
  <2>2. call[q] \in [body : Call, at : Phase]
    BY <1>0, <1>7 DEF PutSnapshot, Op, At
  <2>3. Body(q).by = d
    BY <1>0, <1>1, <2>1, <2>2 DEF Step, Body
  <2>. QED BY <1>1, <2>1, <2>3
<1>8. CASE AppendSnapshot(q)
  <2>1. call'[q] # None => Step(q, "snapshot")
    BY <1>0, <1>8 DEF AppendSnapshot, Answer
  <2>. QED BY <1>1, <1>4, <1>8, <2>1 DEF AppendSnapshot, Op, At, RefusedOps, Phase
<1>9. CASE Answer(q)
  BY <1>0, <1>1, <1>9 DEF Answer
<1>10. \/ call'[q] = call[q] \/ Answer(q) \/ DocScope(q) \/ TakeLock(q) \/ PutSnapshot(q)
       \/ AppendSnapshot(q) \/ \E b \in Call : Authorize(q, b)
       \/ call'[q] = None
  <2>1. ASSUME NEW r \in Slot, r # q, Answer(r) \/ (\E phase : Step(r, phase))
               \/ \E b \in Call : Authorize(r, b)
        PROVE  call'[q] = call[q]
    BY <1>0, <2>1 DEF Answer, Step, Authorize
  <2>2. ASSUME NEW r \in Slot, Serve(r) \/ Fail(r)
        PROVE  \/ Answer(r) \/ DocScope(r) \/ TakeLock(r) \/ PutSnapshot(r) \/ AppendSnapshot(r)
    BY <2>2 DEF Serve, Fail, Commit, RedeemWrites, GrantWrites, RetireWrites, RevokeWrites,
       OpenWrites, CompleteWrites, TakeWrites, PutWrites, AppendWrites, Fetch
  <2>3. ASSUME NEW r \in Slot, DocScope(r) \/ TakeLock(r) \/ PutSnapshot(r) \/ AppendSnapshot(r)
        PROVE  Answer(r) \/ \E phase : Step(r, phase)
    BY <2>3 DEF DocScope, TakeLock, PutSnapshot, AppendSnapshot
  <2>4. CASE Restart
    BY <2>4 DEF Restart
  <2>5. CASE Operator \/ Clock \/ UNCHANGED vars
    BY <2>5 DEF Operator, Clock, vars, serviceVars
  <2>6. ASSUME NEW r \in Slot, r # q,
               Serve(r) \/ Fail(r) \/ \E b \in Call : Authorize(r, b)
        PROVE  call'[q] = call[q]
    BY <2>1, <2>2, <2>3, <2>6
  <2>. QED BY <2>2, <2>4, <2>5, <2>6 DEF ServiceNext
<1>. QED BY <1>1, <1>2, <1>3, <1>5, <1>6, <1>7, <1>8, <1>9, <1>10

\* An allowance that covers the armed requests covers fewer of them, and one fewer of one less.
LEMMA StillCovered ==
    ASSUME NEW d \in Device, late \in [Device -> Int], late[d] >= Cardinality(Armed(d)),
           Armed(d)' \subseteq Armed(d),
           \/ late'[d] = late[d]
           \/ late'[d] = late[d] - 1 /\ \E r \in Armed(d) : r \notin Armed(d)'
    PROVE  late'[d] >= Cardinality(Armed(d)')
<1>1. IsFiniteSet(Armed(d)) /\ Cardinality(Armed(d)) \in Nat
  BY ArmedFinite
<1>2. Cardinality(Armed(d)') <= Cardinality(Armed(d)) /\ Cardinality(Armed(d)') \in Nat
  BY <1>1, FS_Subset, FS_CardinalityType
<1>3. CASE late'[d] = late[d]
  BY <1>1, <1>2, <1>3
<1>4. ASSUME NEW r \in Armed(d), r \notin Armed(d)', late'[d] = late[d] - 1
      PROVE  late'[d] >= Cardinality(Armed(d)')
  <2>1. Cardinality(Armed(d) \ {r}) = Cardinality(Armed(d)) - 1 /\ IsFiniteSet(Armed(d) \ {r})
    BY <1>1, FS_RemoveElement
  <2>2. Cardinality(Armed(d)') <= Cardinality(Armed(d) \ {r})
    BY <1>4, <2>1, FS_Subset
  <2>. QED BY <1>1, <1>2, <1>4, <2>1, <2>2
<1>. QED BY <1>3, <1>4

\* An accepted operation spends from its signer's allowance as it leaves its slot.
LEMMA SpendCovered ==
    ASSUME ServiceInv, [ServiceNext]_vars, NEW r \in Slot, At(r, "locked") \/ At(r, "snapshot"),
           Answer(r), Spend(Body(r).by), NEW d \in Device, status[d] = "revoked"
    PROVE  late'[d] >= Cardinality(Armed(d)')
<1>1. Armed(d)' \subseteq Armed(d)
  BY NoneArmed DEF Armed
<1>2. late[d] >= Cardinality(Armed(d)) /\ late \in [Device -> Int]
  BY DEF ServiceInv, ServiceTypeOK, AllowanceCovers
<1>3. CASE Body(r).by # d
  BY <1>1, <1>2, <1>3, StillCovered DEF Spend
<1>4. CASE Body(r).by = d
  <2>1. late'[d] = late[d] - 1
    BY <1>2, <1>4 DEF Spend
  <2>2. r \in Armed(d)
    BY <1>4 DEF Armed, At
  <2>3. call'[r] = None
    BY DEF Answer, ServiceInv, ServiceTypeOK
  <2>4. r \notin Armed(d)'
    BY <2>3 DEF Armed
  <2>. QED BY <1>1, <1>2, <2>1, <2>2, <2>4, StillCovered
<1>. QED BY <1>3, <1>4

\* Every step keeps the allowances of revoked devices sufficient.
LEMMA AllowanceStep == ServiceInv /\ [ServiceNext]_vars => AllowanceCovers'
<1> SUFFICES ASSUME ServiceInv, [ServiceNext]_vars, NEW d \in Device, status'[d] = "revoked"
             PROVE  late'[d] >= Cardinality(Armed(d)')
  BY DEF AllowanceCovers
<1>0. /\ late \in [Device -> Int] /\ status \in [Device -> {"none", "active", "revoked"}]
      /\ call \in [Slot -> [body : Call, at : Phase] \cup {None}]
  BY DEF ServiceInv, ServiceTypeOK, RowsInv, StoreTypeOK
<1>1. ASSUME status[d] = "revoked", late'[d] = late[d] PROVE late'[d] >= Cardinality(Armed(d)')
  <2>1. Armed(d)' \subseteq Armed(d)
    BY <1>1, NoneArmed DEF Armed
  <2>. QED BY <1>0, <1>1, <2>1, StillCovered DEF ServiceInv, AllowanceCovers
<1>2. ASSUME NEW r \in Slot, RevokeWrites(r) PROVE late'[d] >= Cardinality(Armed(d)')
  <2> PICK b \in Call : b = Body(r) /\ b.op = "revoke" /\ Stands(b)
    BY <1>2, CommitStands DEF RevokeWrites
  <2>1. b.dev \in Device /\ b.by \in Device /\ status[b.dev] = "active"
    BY CallFields DEF Stands, RevokeReads, Revocable
  <2>2. /\ At(r, "locked") /\ Answer(r)
        /\ late' = [late EXCEPT ![b.dev] = Cardinality(UnderWay(b.dev, r)),
                                ![b.by] = IF status[b.by] = "revoked" THEN @ - 1 ELSE @]
        /\ status' = [status EXCEPT ![b.dev] = "revoked"]
    BY <1>2 DEF RevokeWrites, Commit, Op
  <2>3. call'[r] = None /\ \A q \in Slot \ {r} : call'[q] = call[q]
    BY <1>0, <2>2 DEF Answer
  <2>4. CASE d = b.dev
    <3>1. IsFiniteSet(UnderWay(d, r))
      <4>1. UnderWay(d, r) \subseteq Slot
        BY DEF UnderWay
      <4>. QED BY <4>1, FS_Subset, ServiceAssumption
    <3>2. Cardinality(UnderWay(d, r)) \in Nat
      BY <3>1, FS_CardinalityType
    <3>3. late'[d] = Cardinality(UnderWay(d, r))
      BY <1>0, <2>1, <2>2, <2>4, <3>2
    <3>4. Armed(d)' \subseteq UnderWay(d, r)
      BY <2>3 DEF Armed, UnderWay, Body
    <3>5. Cardinality(Armed(d)') <= Cardinality(UnderWay(d, r)) /\ Cardinality(Armed(d)') \in Nat
      BY <3>1, <3>4, FS_Subset, FS_CardinalityType
    <3>. QED BY <3>2, <3>3, <3>5
  <2>5. CASE d # b.dev
    <3>1. status[d] = "revoked"
      BY <1>0, <2>2, <2>5
    <3>2. late'[d] = IF b.by = d THEN late[d] - 1 ELSE late[d]
      BY <1>0, <2>1, <2>2, <2>5, <3>1
    <3>3. CASE b.by # d
      BY <1>1, <3>1, <3>2, <3>3
    <3>4. CASE b.by = d
      <4>1. Armed(d)' \subseteq Armed(d)
        BY <3>1, NoneArmed DEF Armed
      <4>2. r \in Armed(d) /\ r \notin Armed(d)'
        BY <2>2, <2>3, <3>4 DEF Armed, At
      <4>. QED BY <1>0, <3>1, <3>2, <3>4, <4>1, <4>2, StillCovered DEF ServiceInv, AllowanceCovers
    <3>. QED BY <3>3, <3>4
  <2>. QED BY <2>4, <2>5
<1>3. status[d] = "revoked" \/ \E r \in Slot : RevokeWrites(r)
  <2>1. ASSUME UNCHANGED status PROVE status[d] = "revoked"
    BY <2>1
  <2>2. ASSUME NEW r \in Slot, RedeemWrites(r) \/ CompleteWrites(r) PROVE status[d] = "revoked"
    <3>1. \A e \in Device : status'[e] = status[e] \/ status'[e] = "active"
      BY <1>0, <2>2 DEF RedeemWrites, CompleteWrites, storeVars, deviceVars
    <3>. QED BY <3>1
  <2>3. CASE ~\E r \in Slot : RevokeWrites(r) \/ RedeemWrites(r) \/ CompleteWrites(r)
    <3>1. UNCHANGED status
      BY <2>3 DEF ServiceNext, Serve, Authorize, DocScope, TakeLock, GrantWrites,
         RetireWrites, OpenWrites, TakeWrites, PutSnapshot, PutWrites, AppendSnapshot, AppendWrites,
         Fetch, Fail, Restart, Operator, Clock, vars, storeVars, deviceVars, SweepExpired,
         IssueOwnerCode, InvalidateOwnerCodes, Tick
    <3>. QED BY <2>1, <3>1
  <2>. QED BY <2>2, <2>3
<1>4. ASSUME NEW r \in Slot, status[d] = "revoked",
             \/ GrantWrites(r) \/ RetireWrites(r) \/ OpenWrites(r) \/ CompleteWrites(r)
             \/ TakeWrites(r) \/ PutWrites(r) \/ AppendWrites(r)
      PROVE  late'[d] >= Cardinality(Armed(d)')
  <2>1. (At(r, "locked") \/ At(r, "snapshot")) /\ Answer(r)
    BY <1>4 DEF Commit, Op, GrantWrites, RetireWrites, OpenWrites, CompleteWrites, TakeWrites,
       PutWrites, AppendWrites
  <2>2. Spend(Body(r).by) \/ UNCHANGED late
    BY <1>4 DEF GrantWrites, RetireWrites, OpenWrites, CompleteWrites, TakeWrites, PutWrites,
       AppendWrites
  <2>. QED BY <1>1, <1>4, <2>1, <2>2, SpendCovered
<1>5. CASE /\ status[d] = "revoked"
           /\ ~\E r \in Slot : \/ RevokeWrites(r)
                               \/ GrantWrites(r) \/ RetireWrites(r) \/ OpenWrites(r)
                               \/ CompleteWrites(r) \/ TakeWrites(r) \/ PutWrites(r) \/ AppendWrites(r)
  <2>1. UNCHANGED late
    BY <1>5 DEF ServiceNext, Serve, Authorize, DocScope, TakeLock, RedeemWrites,
       PutSnapshot, AppendSnapshot, Fetch, Fail, Restart, Operator, Clock, vars, serviceVars
  <2>. QED BY <1>1, <1>5, <2>1
<1>. QED BY <1>2, <1>3, <1>4, <1>5


-----------------------------------------------------------------------------
(* The invariant *)

\* The requests keep their types: a slot is free, or holds a parsed request at a phase.
LEMMA CallStep ==
    ServiceInv /\ [ServiceNext]_vars =>
        /\ call' \in [Slot -> [body : Call, at : Phase] \cup {None}]
        /\ lock' \in Slot \cup {None}
        /\ served' \in 0 .. MaxRequests
<1> DEFINE CallType == /\ call \in [Slot -> [body : Call, at : Phase] \cup {None}]
                       /\ lock \in Slot \cup {None}
                       /\ served \in 0 .. MaxRequests
<1> SUFFICES ASSUME ServiceInv, [ServiceNext]_vars PROVE CallType'
  OBVIOUS
<1>0. CallType
  BY DEF ServiceInv, ServiceTypeOK
<1>1. ASSUME NEW r \in Slot, NEW b \in Call, Authorize(r, b) PROVE CallType'
  BY <1>0, <1>1, ServiceAssumption DEF Authorize, Phase
<1>2. ASSUME NEW r \in Slot, Answer(r), UNCHANGED served PROVE CallType'
  BY <1>0, <1>2 DEF Answer
<1>3. ASSUME NEW r \in Slot, NEW phase \in Phase, call[r] # None, Step(r, phase),
             lock' \in {lock, r}, UNCHANGED served
      PROVE CallType'
  <2>1. [call[r] EXCEPT !.at = phase] \in [body : Call, at : Phase]
    BY <1>0, <1>3
  <2>2. call' \in [Slot -> [body : Call, at : Phase] \cup {None}]
    BY <1>0, <1>3, <2>1 DEF Step
  <2>. QED BY <1>0, <1>3, <2>2
<1>4. ASSUME NEW r \in Slot, DocScope(r) \/ TakeLock(r) \/ PutSnapshot(r) \/ AppendSnapshot(r)
      PROVE CallType'
  <2>1. Answer(r) \/ \E phase \in Phase : Step(r, phase) /\ lock' \in {lock, r}
    BY <1>4 DEF DocScope, TakeLock, PutSnapshot, AppendSnapshot, Phase
  <2>2. call[r] # None /\ UNCHANGED served
    BY <1>4 DEF DocScope, TakeLock, PutSnapshot, AppendSnapshot, Op, At
  <2>. QED BY <1>2, <1>3, <2>1, <2>2
<1>5. ASSUME NEW r \in Slot,
             \/ RedeemWrites(r) \/ GrantWrites(r) \/ RetireWrites(r) \/ RevokeWrites(r)
             \/ OpenWrites(r) \/ CompleteWrites(r) \/ TakeWrites(r)
             \/ PutWrites(r) \/ AppendWrites(r) \/ Fetch(r) \/ Fail(r)
      PROVE CallType'
  <2>1. Answer(r) /\ UNCHANGED served
    BY <1>5 DEF Commit, RedeemWrites, GrantWrites, RetireWrites, RevokeWrites, OpenWrites,
       CompleteWrites, TakeWrites, PutWrites, AppendWrites, Fetch, Fail
  <2>. QED BY <1>2, <2>1
<1>6. ASSUME Restart PROVE CallType'
  BY <1>0, <1>6 DEF Restart
<1>7. ASSUME Operator \/ Clock \/ UNCHANGED vars PROVE CallType'
  BY <1>0, <1>7 DEF Operator, Clock, vars, serviceVars
<1>. QED BY <1>1, <1>4, <1>5, <1>6, <1>7 DEF ServiceNext, Serve

\* An allowance is a number: a step counts the requests of the device it revokes, or takes one.
LEMMA LateStep == ServiceInv /\ [ServiceNext]_vars => late' \in [Device -> Int]
<1> SUFFICES ASSUME ServiceInv, [ServiceNext]_vars PROVE late' \in [Device -> Int]
  OBVIOUS
<1>0. late \in [Device -> Int]
  BY DEF ServiceInv, ServiceTypeOK
<1>1. ASSUME NEW d, Spend(d) PROVE late' \in [Device -> Int]
  <2>1. CASE d \in Device
    BY <1>0, <1>1, <2>1 DEF Spend
  <2>2. CASE d \notin Device
    BY <1>0, <1>1, <2>2 DEF Spend
  <2>. QED BY <2>1, <2>2
<1>2. ASSUME NEW r \in Slot, RevokeWrites(r) PROVE late' \in [Device -> Int]
  <2> DEFINE d == Body(r).dev
  <2>0. d \in Device /\ Body(r).by \in Device
    BY <1>2, RevokeIsMethod, CommitStands, CallFields DEF RevokeWrites
  <2>1. UnderWay(d, r) \subseteq Slot
    BY DEF UnderWay
  <2>2. Cardinality(UnderWay(d, r)) \in Nat
    BY <2>1, FS_Subset, FS_CardinalityType, ServiceAssumption
  <2>3. late' = [late EXCEPT ![d] = Cardinality(UnderWay(d, r)),
                            ![Body(r).by] = IF status[Body(r).by] = "revoked" THEN @ - 1 ELSE @]
    BY <1>2 DEF RevokeWrites
  <2> HIDE DEF d
  <2>. QED BY <1>0, <2>0, <2>2, <2>3
<1>3. \/ UNCHANGED late \/ \E r \in Slot : RevokeWrites(r) \/ Spend(Body(r).by)
  BY DEF ServiceNext, Serve, Authorize, DocScope, TakeLock, RedeemWrites, GrantWrites,
     RetireWrites, OpenWrites, CompleteWrites, TakeWrites, PutSnapshot, PutWrites, AppendSnapshot,
     AppendWrites, Fetch, Fail, Restart, Operator, Clock, vars, serviceVars
<1>. QED BY <1>0, <1>1, <1>2, <1>3

\* The deployment a relay starts from: owners with the master, members, sessions, a code.
LEMMA ServiceInitInv == ServiceInit => ServiceInv
<1> SUFFICES ASSUME ServiceInit PROVE ServiceInv
  OBVIOUS
<1> USE ServiceAssumption, StoreAssumption
<1>0. PICK members \in SUBSET (Device \ Owner) :
          /\ role = [d \in Device |-> IF d \in Owner THEN "owner" ELSE IF d \in members THEN "member" ELSE "none"]
          /\ status = [d \in Device |-> IF d \in Owner \cup members THEN "active" ELSE "none"]
          /\ acl = [d \in Device |-> IF d \in Owner THEN {Master} ELSE IF d \in members THEN Scope \ {Master} ELSE {}]
  BY DEF ServiceInit
<1>1. pairings \in [Sid -> Session] /\ \A x \in Sid : pairings[x].opener \in Owner /\ pairings[x].signer \in Device
  BY DEF ServiceInit, Session
<1>2. StoreTypeOK
  <2>1. kind \in [Scope -> Kind \cup {"none"}] /\ retired \in SUBSET Scope /\ now \in Nat
    BY DEF ServiceInit, Kind
  <2>2. /\ role \in [Device -> Role \cup {"none"}]
        /\ status \in [Device -> {"none", "active", "revoked"}]
    BY <1>0 DEF Role
  <2>3. acl \in [Device -> SUBSET Scope]
    BY <1>0
  <2>4. codes \in [Code -> [state : {"absent", "unused", "used"}, expiresAt : Nat]]
    BY DEF ServiceInit
  <2>. QED BY <1>1, <2>1, <2>2, <2>3, <2>4 DEF StoreTypeOK
<1>3. ActiveOwners = Owner /\ Masters = {Master}
  BY <1>0 DEF ServiceInit, ActiveOwners, Masters
<1>4. RowsInv
  <2>1. RowsAgree
    BY <1>0 DEF ServiceInit, RowsAgree
  <2>2. MasterStaysWithTheOwners
    BY <1>0, <1>3 DEF MasterStaysWithTheOwners
  <2>3. AccessOnlyForActiveDevices
    BY <1>0 DEF ServiceInit, AccessOnlyForActiveDevices
  <2>4. OwnerRemains
    BY <1>0, <1>3 DEF OwnerRemains, RedeemMode
  <2>. QED BY <1>2, <2>1, <2>2, <2>3, <2>4 DEF RowsInv
<1>5. ServiceTypeOK
  <2>1. \A f \in Doc : docs[f].scope = None /\ docs[f].log = <<>>
    BY DEF ServiceInit
  <2>2. docs \in [Doc -> [scope : Scope \cup {None}, log : Seq(Device \X Scope)]]
    BY DEF ServiceInit
  <2>. QED BY <1>2, <2>1, <2>2 DEF ServiceInit, ServiceTypeOK
<1>6. LockHolds
  BY DEF ServiceInit, LockHolds, At
<1>7. AllowanceCovers
  BY <1>0 DEF AllowanceCovers
<1>8. GrantHasSigner /\ GrantedSessionsAreLive
  BY <1>1, <1>3 DEF ServiceInit, GrantHasSigner, GrantedSessionsAreLive
<1>9. OneScopePerDocument
  BY DEF ServiceInit, OneScopePerDocument
<1>. QED BY <1>4, <1>5, <1>6, <1>7, <1>8, <1>9 DEF ServiceInv

\* The invariant is kept by every step of the service.
LEMMA ServiceNextInv == ServiceInv /\ [ServiceNext]_vars => ServiceInv'
<1> SUFFICES ASSUME ServiceInv, [ServiceNext]_vars PROVE ServiceInv'
  OBVIOUS
<1>1. RowsInv' /\ LockHolds' /\ AllowanceCovers' /\ GrantHasSigner' /\ GrantedSessionsAreLive'
  BY RowsStep, LockStep, AllowanceStep, SessionStep
<1>2. OneScopePerDocument'
  BY DocsStep DEF DocsInv
<1>3. ServiceTypeOK'
  BY <1>1, CallStep, LateStep, DocsStep DEF RowsInv, DocsInv, ServiceTypeOK
<1>. QED BY <1>1, <1>2, <1>3 DEF ServiceInv

-----------------------------------------------------------------------------
(* The theorems *)

(***************************************************************************)
(* The inductive invariant of the service: types, rows, the lock, the      *)
(* allowances, sessions and documents, whatever requests interleave.       *)
(***************************************************************************)
THEOREM ServiceInvariant == ServiceSpec => []ServiceInv
<1>. QED BY ServiceInitInv, ServiceNextInv, PTL DEF ServiceSpec

(***************************************************************************)
(* Type correctness: requests, the lock, documents and tables keep their   *)
(* types through every interleaving, failure and restart.                  *)
(***************************************************************************)
THEOREM ServiceTypeCorrect == ServiceSpec => []ServiceTypeOK
<1>1. ServiceInv => ServiceTypeOK
  BY DEF ServiceInv
<1>. QED BY <1>1, ServiceInvariant, PTL

(***************************************************************************)
(* The advisory lock (CONTROL_LOCK_KEY): what a control transaction read   *)
(* and decided still holds when it writes, though the statements outside   *)
(* the lock, the sweep and the operator run meanwhile.                     *)
(***************************************************************************)
THEOREM DecisionsStand == ServiceSpec => []LockHolds
<1>1. ServiceInv => LockHolds
  BY DEF ServiceInv
<1>. QED BY <1>1, ServiceInvariant, PTL

(***************************************************************************)
(* Revocation takes hold (authorizeControl, authorizeDoc): however many    *)
(* requests a device has under way, it completes no more of them than it   *)
(* had when it was revoked.                                                *)
(***************************************************************************)
THEOREM RevocationAlwaysHolds == ServiceSpec => []RevocationTakesHold
<1>1. ServiceInv => RevocationTakesHold
  <2> SUFFICES ASSUME ServiceInv, NEW d \in Device, status[d] = "revoked" PROVE late[d] >= 0
    BY DEF RevocationTakesHold
  <2>1. late[d] \in Int /\ late[d] >= Cardinality(Armed(d)) /\ Cardinality(Armed(d)) \in Nat
    BY ArmedFinite DEF ServiceInv, ServiceTypeOK, AllowanceCovers
  <2>. QED BY <2>1
<1>. QED BY <1>1, ServiceInvariant, PTL

(***************************************************************************)
(* The append statement: the updates of a document all carry the scope it  *)
(* is bound to, for any number of writers racing to bind it.               *)
(***************************************************************************)
THEOREM DocumentsHaveOneScope == ServiceSpec => []OneScopePerDocument
<1>1. ServiceInv => OneScopePerDocument
  BY DEF ServiceInv
<1>. QED BY <1>1, ServiceInvariant, PTL

(***************************************************************************)
(* The mailbox over Postgres: a session belongs to an active owner, and a  *)
(* grant in it is for an enrolled signer, although requests are put        *)
(* outside the lock.                                                       *)
(***************************************************************************)
THEOREM GrantsAreForLive == ServiceSpec => []GrantedSessionsAreLive
<1>1. ServiceInv => GrantedSessionsAreLive
  BY DEF ServiceInv
<1>. QED BY <1>1, ServiceInvariant, PTL

(***************************************************************************)
(* The store's promises survive the split of its methods into statements   *)
(* (postgres-store.ts against store.ts): one master that no member has,    *)
(* access for active devices only, and an owner that remains.              *)
(***************************************************************************)
THEOREM PromisesSurviveTheSplit ==
    ServiceSpec => [](MasterStaysWithTheOwners /\ AccessOnlyForActiveDevices /\ OwnerRemains)
<1>1. ServiceInv => MasterStaysWithTheOwners /\ AccessOnlyForActiveDevices /\ OwnerRemains
  BY DEF ServiceInv, RowsInv
<1>. QED BY <1>1, ServiceInvariant, PTL

-----------------------------------------------------------------------------
(* Steps of the service as steps of the enrollment contract *)

\* A committed control transaction admits, freezes or expels, or changes none of what the
\* contract speaks of; nothing else touches it.
LEMMA ServiceStepKeepsContract ==
    ASSUME ServiceInv, [ServiceNext]_vars
    PROVE  E!Next \/ UNCHANGED E!vars
<1>0. RowsInv
  BY DEF ServiceInv
<1>1. ASSUME UNCHANGED <<deviceVars, scopeVars>> PROVE UNCHANGED E!vars
  BY <1>1 DEF E!vars, Standing, ScopeState, deviceVars, scopeVars
<1>2. ASSUME NEW r \in Slot, RedeemWrites(r) PROVE E!Next \/ UNCHANGED E!vars
  BY <1>0, <1>1, <1>2, RedeemIsMethod, RedeemAdmits DEF storeVars, deviceVars, scopeVars
<1>3. ASSUME NEW r \in Slot, GrantWrites(r) PROVE E!Next
  BY <1>0, <1>3, GrantIsMethod, GrantScopesAdmits
<1>4. ASSUME NEW r \in Slot, RetireWrites(r) PROVE E!Next \/ UNCHANGED E!vars
  BY <1>0, <1>4, RetireIsMethod, RetireFreezes
<1>5. ASSUME NEW r \in Slot, RevokeWrites(r) PROVE E!Next
  BY <1>0, <1>5, RevokeIsMethod, RevokeExpels
<1>6. ASSUME NEW r \in Slot, CompleteWrites(r) PROVE E!Next \/ UNCHANGED E!vars
  <2>1. CASE UNCHANGED storeVars
    BY <1>1, <2>1 DEF storeVars, deviceVars, scopeVars
  <2>2. CASE ~UNCHANGED storeVars
    <3> PICK b \in Call : b = Body(r)
      BY <1>6, CommitStands DEF CompleteWrites
    <3>1. /\ b.dev \in Device /\ b.role \in Role /\ b.grants \in SUBSET (Scope \X Kind)
          /\ pairings[b.sid].opener \in ActiveOwners
          /\ CheckGrant(b.role, "active", b.grants) /\ WriteGrant(b.dev, b.grants)
          /\ status[b.dev] \in {"none", "active"} /\ (status[b.dev] = "active" => role[b.dev] = b.role)
          /\ role' = [role EXCEPT ![b.dev] = b.role]
          /\ status' = [status EXCEPT ![b.dev] = "active"]
      BY <1>6, <2>2, CompleteWritesRow
    <3>. QED BY <1>0, <3>1, GrantAdmits
  <2>. QED BY <2>1, <2>2
<1>7. ASSUME ~\E r \in Slot : \/ RedeemWrites(r) \/ GrantWrites(r) \/ RetireWrites(r)
                              \/ RevokeWrites(r) \/ CompleteWrites(r)
      PROVE  UNCHANGED <<deviceVars, scopeVars>>
  BY <1>7 DEF ServiceNext, Serve, Authorize, DocScope, TakeLock, OpenWrites, TakeWrites, PutSnapshot,
     PutWrites, AppendSnapshot, AppendWrites, Fetch, Fail, Restart, Operator, Clock, vars, storeVars,
     deviceVars, scopeVars, SweepExpired, IssueOwnerCode, InvalidateOwnerCodes, Tick
<1>. QED BY <1>1, <1>2, <1>3, <1>4, <1>5, <1>6, <1>7

(***************************************************************************)
(* The service over Postgres keeps the enrollment contract from any        *)
(* deployment it starts on: though a method is several statements and      *)
(* requests interleave, every step is an Admit, a Freeze or an Expel of    *)
(* Enrollment, or changes nothing that it speaks of.                       *)
(***************************************************************************)
THEOREM ServiceKeepsEnrollment == ServiceSpec => [][E!Next]_(E!vars)
<1>1. ServiceInv /\ [ServiceNext]_vars => [E!Next]_(E!vars)
  BY ServiceStepKeepsContract
<1>. QED BY <1>1, ServiceInvariant, PTL DEF ServiceSpec

(***************************************************************************)
(* Revocation is permanent (store.ts DeviceStatus) also when a grant or a  *)
(* completion that was decided before it commits after it: the lock has    *)
(* the one or the other decided again.                                     *)
(***************************************************************************)
THEOREM RevocationIsPermanentInService ==
    ServiceSpec => [][\A d \in Device : status[d] = "revoked" => status'[d] = "revoked" /\ acl'[d] = {}]_vars
<1>1. ASSUME ServiceInv, [ServiceNext]_vars, NEW d \in Device, status[d] = "revoked"
      PROVE  status'[d] = "revoked" /\ acl'[d] = {}
  <2>1. RowsInv /\ RowsInv'
    BY <1>1, RowsStep DEF ServiceInv
  <2>2. Standing[d] = "revoked" /\ DOMAIN Standing = Device
        /\ Standing = [e \in Device |-> Standing[e]]
    BY <1>1 DEF Standing
  <2>3. Standing'[d] = "revoked"
    <3>1. ASSUME NEW e \in Device, NEW r \in {"owner", "member"}, NEW S \in SUBSET Scope, E!Admit(e, r, S)
          PROVE  Standing'[d] = "revoked"
      BY <2>2, <3>1 DEF E!Admit
    <3>2. ASSUME NEW e \in Device, E!Expel(e) PROVE Standing'[d] = "revoked"
      BY <2>2, <3>2 DEF E!Expel
    <3>. QED BY <1>1, <2>2, <3>1, <3>2, ServiceStepKeepsContract DEF E!Next, E!Freeze, E!vars
  <2>4. status'[d] = "revoked"
    BY <2>1, <2>3 DEF Standing, RowsInv, StoreTypeOK, Role
  <2>. QED BY <2>1, <2>4 DEF RowsInv, AccessOnlyForActiveDevices
<1>2. ServiceInv /\ [ServiceNext]_vars =>
        [\A d \in Device : status[d] = "revoked" => status'[d] = "revoked" /\ acl'[d] = {}]_vars
  BY <1>1
<1>. QED BY <1>2, ServiceInvariant, PTL DEF ServiceSpec

(***************************************************************************)
(* Enrolling over Postgres: a device becomes active alone in its step,     *)
(* with a code that was live until that step, or by the grant of a session *)
(* of an active owner that named it and had no grant.                      *)
(***************************************************************************)
THEOREM EnrollmentIsEarnedInService == ServiceSpec => EnrolledWithCodeOrGrant
<1> DEFINE Earned(d) ==
      /\ \A e \in Device \ {d} : status'[e] = status[e]
      /\ \/ \E c \in Code : CodeUsable(c) /\ codes'[c].state = "used"
         \/ \E x \in Sid : /\ pairings[x] # NoSession /\ ~pairings[x].granted
                            /\ pairings[x].signer = d /\ pairings[x].opener \in ActiveOwners
                            /\ pairings'[x] = [pairings[x] EXCEPT !.granted = TRUE]
<1>1. ASSUME ServiceInv, [ServiceNext]_vars, NEW d \in Device,
             status[d] # "active", status'[d] = "active"
      PROVE  Earned(d)
  <2>0. /\ status \in [Device -> {"none", "active", "revoked"}]
        /\ pairings \in [Sid -> Session \cup {NoSession}]
        /\ codes \in [Code -> [state : {"absent", "unused", "used"}, expiresAt : Nat]]
    BY <1>1 DEF ServiceInv, RowsInv, StoreTypeOK
  <2>1. ASSUME NEW r \in Slot, RedeemWrites(r) PROVE Earned(d)
    <3>1. PICK c \in Code, e \in Device : RedeemOwnerCode(c, e)
      BY <1>1, <2>1, RedeemIsMethod DEF storeVars
    <3>2. status' = [status EXCEPT ![e] = "active"] /\ CodeUsable(c)
          /\ codes' = [codes EXCEPT ![c].state = "used"]
      BY <3>1 DEF RedeemOwnerCode
    <3>3. \A f \in Device \ {d} : status'[f] = status[f]
      BY <1>1, <2>0, <3>2
    <3>4. codes'[c].state = "used"
      BY <2>0, <3>2
    <3>. QED BY <3>2, <3>3, <3>4
  <2>2. ASSUME NEW r \in Slot, CompleteWrites(r) PROVE Earned(d)
    <3> PICK b \in Call : b = Body(r)
      BY <1>1, <2>2, CommitStands DEF CompleteWrites
    <3>1. /\ b.sid \in Sid /\ b.dev \in Device
          /\ pairings[b.sid] # NoSession /\ ~pairings[b.sid].granted
          /\ pairings[b.sid].signer = b.dev /\ pairings[b.sid].opener \in ActiveOwners
          /\ status' = [status EXCEPT ![b.dev] = "active"]
          /\ pairings' = [pairings EXCEPT ![b.sid].granted = TRUE]
      BY <1>1, <2>2, CompleteWritesRow DEF storeVars
    <3>2. b.dev = d /\ \A f \in Device \ {d} : status'[f] = status[f]
      BY <1>1, <2>0, <3>1
    <3>3. pairings'[b.sid] = [pairings[b.sid] EXCEPT !.granted = TRUE]
      BY <2>0, <3>1
    <3>. QED BY <3>1, <3>2, <3>3
  <2>3. ASSUME NEW r \in Slot, RevokeWrites(r) PROVE FALSE
    BY <1>1, <2>0, <2>3, RevokeIsMethod DEF Revoke
  <2>4. CASE ~\E r \in Slot : RedeemWrites(r) \/ CompleteWrites(r) \/ RevokeWrites(r)
    BY <1>1, <2>4 DEF ServiceNext, Serve, Authorize, DocScope, TakeLock, GrantWrites,
       RetireWrites, OpenWrites, TakeWrites, PutSnapshot, PutWrites, AppendSnapshot, AppendWrites,
       Fetch, Fail, Restart, Operator, Clock, vars, storeVars, deviceVars, SweepExpired,
       IssueOwnerCode, InvalidateOwnerCodes, Tick
  <2>. QED BY <2>1, <2>2, <2>3, <2>4
<1>2. ServiceInv /\ [ServiceNext]_vars =>
        [\A d \in Device : status[d] # "active" /\ status'[d] = "active" => Earned(d)]_vars
  BY <1>1
<1>. QED BY <1>2, ServiceInvariant, PTL DEF ServiceSpec, EnrolledWithCodeOrGrant
=============================================================================
