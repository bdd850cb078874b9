----------------------------- MODULE Pairing_proofs -----------------------------
(***************************************************************************)
(* Proofs about pairing, for every set of keys, sessions and profiles and  *)
(* every value of the bounds.                                              *)
(*                                                                         *)
(* Every step of pairing is a step of the relay's store or leaves it       *)
(* alone, so the store's invariant holds beside it.  What the approver     *)
(* holds of a request agrees with the relay's session and with the blob    *)
(* that was posted, because the first request wins and a session id is     *)
(* opened once; what a joining run holds agrees with the device record,    *)
(* because the setup lock keeps everybody else's hands off it.             *)
(***************************************************************************)
EXTENDS Pairing, RelayStore_proofs

\* From the request's arrival on an approving session holds a key.
HoldsRequest == {"match", "confirm", "unlocking", "naming", "granting"}

\* The mailbox blob of a session is its signer's.
PostedBySigner ==
    \A x \in Sid : pairings[x] # NoSession /\ pairings[x].signer # NoDevice =>
        posted[x] # None /\ posted[x].key = pairings[x].signer

\* What an approving session has read is a teacher's request, and still the
\* one in the mailbox as long as the relay has the session.
ReadIsPosted ==
    \A x \in Sid : appr[x].at \in HoldsRequest =>
        /\ posted[x] # None /\ posted[x].label = "teacher"
        /\ appr[x].arrived = posted[x].key
        /\ pairings[x] # NoSession => pairings[x].signer = appr[x].arrived

\* A session that went past the matching code had the right one typed, and one
\* about to grant has written the name.
ConfirmedIsTyped ==
    \A x \in Sid :
        /\ appr[x].at \in HoldsRequest \ {"match"} => appr[x].arrived \in typed[x]
        /\ appr[x].at = "granting" => appr[x].arrived \in named

\* A session that has ended is over, and only one that has ended ran out of tries.
EndedIsOver ==
    \A x \in Sid :
        /\ appr[x].at \in {"added", "stopped"} => appr[x].over
        /\ appr[x].misses = MATCH_TRIES => appr[x].at = "stopped"

\* An owner that was enrolled with the master, or revoked since.
Joined(d) ==
    role[d] = "owner" /\ status[d] # "none" /\ (status[d] = "active" => Master \in acl[d])

\* ... what that means after a step.
JoinedNext(d) ==
    role'[d] = "owner" /\ status'[d] # "none" /\ (status'[d] = "active" => Master \in acl'[d])

\* The session of a stored grant has ended, and everything it rested on still stands.
GrantedIsEnded ==
    \A x \in Sid : pairings[x] # NoSession /\ pairings[x].granted =>
        appr[x].at \in {"added", "stopped"} /\ Joined(pairings[x].signer)

\* Where a run stands decides what it has made.
RunsHold ==
    \A p \in Profile :
        /\ join[p].at \in {"passkey", "waiting"} \cup JoinWait =>
              join[p].sid \in Sid /\ join[p].label \in Label
        /\ join[p].at \in {"waiting"} \cup JoinWait => join[p].key \in Device
        /\ join[p].at = "storing" => Joined(join[p].key)

\* A live run holds the setup lock, and no wipe is under way beside it.
LiveHoldsTheLock ==
    \A p \in Profile : join[p] # NoJoin /\ ~join[p].over => lock[p] /\ wipes[p] = "none"

\* A record is the one its run made, and was joined if it says so.
RecordsAgree ==
    \A p \in Profile : record[p] # None =>
        /\ join[p].key # None => record[p].key = join[p].key
        /\ record[p].stage = "done" => record[p].grant = Master /\ Joined(record[p].key)

\* Only devices whose code she typed ever enter the deployment, whatever became
\* of the session they entered by.
OnlyTypedEnter ==
    \A d \in Device : status[d] # "none" => d = Approver \/ \E x \in Sid : d \in typed[x]

ApproverInv ==
    /\ PostedBySigner
    /\ ReadIsPosted
    /\ ConfirmedIsTyped
    /\ EndedIsOver
    /\ GrantedIsEnded
    /\ OnlyWhatSheTyped

JoinerInv ==
    /\ RunsHold
    /\ LiveHoldsTheLock
    /\ RecordsAgree
    /\ LiveJoinKeepsItsRecord

PairingInv ==
    /\ PairingTypeOK
    /\ StoreInv
    /\ ApproverInv
    /\ JoinerInv
    /\ EnrolledIsNamed
    /\ OnlyTypedEnter

-----------------------------------------------------------------------------
(* Pairing and the relay's store *)

Appr == [at : ApproveScreen \cup ApproveWait, over : BOOLEAN, openedAt : Nat,
         arrived : Device \cup {None}, misses : 0 .. MATCH_TRIES]
Join == [at : JoinScreen \cup JoinWait, over : BOOLEAN, sid : Sid \cup {None},
         key : Device \cup {None}, label : Label \cup {None}, startedAt : Nat]

\* The steps at which the relay's store may change, or the blob it keeps.
Relayed ==
    \/ \E x \in Sid : OpenPairing(x, Approver)
    \/ \E x \in Sid : appr[x].at = "granting"
                      /\ CompletePairing(x, Approver, appr[x].arrived, "owner", Grants)
    \/ \E p \in Profile : TakePairingGrant(join[p].sid, join[p].key)
    \/ \E p \in Profile : RelayTakesPost(p)

\* Every step of pairing is a call of the store's methods by a key the store
\* knows of, or leaves the store alone.
LEMMA StoreStep ==
    ASSUME PairingInv, [PairingNext]_vars
    PROVE  [StoreNext]_storeVars
<1> USE DEF PairingInv, ApproverInv, JoinerInv
<1>0. Approver \in Device /\ Grants \in SUBSET (Scope \X Kind) /\ "owner" \in Role
  BY PairingAssumption DEF Grants, Kind, Role
<1>1. ASSUME NEW x \in Sid, OpenPairing(x, Approver) PROVE StoreNext
  BY <1>0, <1>1 DEF StoreNext
<1>2. ASSUME NEW x \in Sid, appr[x].at = "granting",
             CompletePairing(x, Approver, appr[x].arrived, "owner", Grants)
      PROVE  StoreNext
  <2>1. appr[x].arrived \in Device
    BY <1>2 DEF ReadIsPosted, HoldsRequest, PairingTypeOK, Request
  <2>. QED BY <1>0, <1>2, <2>1 DEF StoreNext
<1>3. ASSUME NEW p \in Profile, join[p].at \in {"posting", "taking"}
      PROVE  join[p].sid \in Sid /\ join[p].key \in Device
  BY <1>3 DEF RunsHold, JoinWait
<1>4. ASSUME NEW p \in Profile, join[p].at = "posting", RelayTakesPost(p) PROVE StoreNext
  BY <1>3, <1>4 DEF RelayTakesPost, StoreNext
<1>5. ASSUME NEW p \in Profile, join[p].at = "taking", TakePairingGrant(join[p].sid, join[p].key)
      PROVE  StoreNext
  BY <1>3, <1>5 DEF StoreNext
<1>6. ASSUME NEW x \in Sid, Approving(x) PROVE StoreNext \/ UNCHANGED storeVars
  <2>1. CASE ServeOpen(x)
    BY <1>1, <2>1 DEF ServeOpen
  <2>2. CASE ServeGrant(x)
    BY <1>2, <2>2 DEF ServeGrant
  <2>3. CASE LoseApprover(x)
    BY <1>1, <1>2, <2>3 DEF LoseApprover
  <2>. QED
    BY <1>6, <2>1, <2>2, <2>3
    DEF Approving, Open, PollRequest, ServeRead, CheckCode, Approve, Unlocked, Name, Abandon
<1>7. ASSUME NEW p \in Profile, Joining(p) PROVE StoreNext \/ UNCHANGED storeVars
  <2>1. CASE ServePost(p)
    BY <1>4, <2>1 DEF ServePost
  <2>2. CASE ServeTake(p)
    BY <1>5, <2>2 DEF ServeTake
  <2>3. CASE LoseJoin(p)
    BY <1>4, <1>5, <2>3 DEF LoseJoin
  <2>. QED
    BY <1>7, <2>1, <2>2, <2>3
    DEF Joining, Begin, SealVault, PollGrant, StoreGrant, LockJoin, WipeDiscarded, CloseJoin,
        StatusRead, StatusWipe
<1>8. ASSUME Elsewhere PROVE StoreNext
  BY <1>8 DEF Elsewhere, StoreNext
<1>. QED BY <1>6, <1>7, <1>8 DEF PairingNext, vars, storeVars

\* An owner that joined stays one until it is revoked, whoever else is granted,
\* revoked or enrolled.
LEMMA JoinedStays ==
    ASSUME StoreInv, [StoreNext]_storeVars, NEW d \in Device, Joined(d)
    PROVE  JoinedNext(d)
<1> USE DEF StoreInv, StoreTypeOK
<1>1. role'[d] = "owner"
  BY DeviceStep DEF Joined
<1>2. status'[d] = "active" => status[d] = "active"
  BY DeviceStep DEF Joined
<1>3. StoreTypeOK'
  BY NextType
<1>4. status'[d] # "none"
  BY <1>1, <1>3, NextInv DEF RowsAgree
<1>5. ASSUME NEW e \in Device, NEW grants \in SUBSET (Scope \X Kind), WriteGrant(e, grants)
      PROVE  acl[d] \subseteq acl'[d]
  BY <1>5 DEF WriteGrant
<1>6. ASSUME NEW e \in Device, Revoke(e) PROVE acl'[d] = acl[d] \/ status'[d] # "active"
  BY <1>6 DEF Revoke
<1>7. status'[d] = "active" => acl[d] \subseteq acl'[d]
  BY <1>5, <1>6
  DEF StoreNext, storeVars, scopeVars, IssueOwnerCode, RedeemOwnerCode, InvalidateOwnerCodes,
      GrantScopes, RetireScope, OpenPairing, PutPairingRequest, CompletePairing,
      TakePairingGrant, SweepExpired, Tick
<1>. QED BY <1>1, <1>2, <1>4, <1>7 DEF Joined, JoinedNext

\* A deployment whose first setup is done satisfies the store's invariant.
LEMMA PairingInitInv == PairingInit => PairingInv
<1> SUFFICES ASSUME PairingInit PROVE PairingInv
  OBVIOUS
<1> USE PairingAssumption, StoreAssumption, NoneAssumption, NoSessionAssumption DEF PairingInit
<1>1. StoreTypeOK
  BY DEF StoreTypeOK, Role, Kind, NoCode
<1>2. ActiveOwners = {Approver} /\ Masters = {Master}
  BY DEF ActiveOwners, Masters
<1>3. StoreInv
  <2>1. RowsAgree /\ SessionsAreLive /\ AccessOnlyForActiveDevices
    BY DEF RowsAgree, SessionsAreLive, AccessOnlyForActiveDevices
  <2>2. MasterStaysWithTheOwners
    BY <1>2 DEF MasterStaysWithTheOwners
  <2>3. OwnerRemains
    BY <1>2, RecoveryMode DEF OwnerRemains
  <2>. QED BY <1>1, <2>1, <2>2, <2>3 DEF StoreInv
<1>4. PairingTypeOK
  <2>1. NoAppr \in Appr
    BY DEF NoAppr, Appr, ApproveScreen
  <2>2. NoJoin \in Join
    BY DEF NoJoin, Join, JoinScreen
  <2>3. \A x \in Sid : appr[x].misses # MATCH_TRIES
    BY DEF NoAppr
  <2>. QED BY <1>1, <2>1, <2>2, <2>3 DEF PairingTypeOK, Appr, Join
<1>5. ApproverInv
  <2>1. \A x \in Sid : /\ pairings[x] = NoSession /\ appr[x].at = "whose"
                       /\ appr[x].misses # MATCH_TRIES
    BY DEF NoAppr
  <2>. QED
    BY <2>1 DEF ApproverInv, PostedBySigner, ReadIsPosted, ConfirmedIsTyped, EndedIsOver,
         GrantedIsEnded, OnlyWhatSheTyped, HoldsRequest
<1>6. JoinerInv
  <2>1. \A p \in Profile : /\ join[p] = NoJoin /\ record[p] = None
                           /\ join[p].at = "scan" /\ join[p].key = None
    BY DEF NoJoin
  <2>. QED
    BY <2>1
    DEF JoinerInv, RunsHold, LiveHoldsTheLock, RecordsAgree, LiveJoinKeepsItsRecord, JoinWait
<1>7. EnrolledIsNamed /\ OnlyTypedEnter
  BY DEF EnrolledIsNamed, OnlyTypedEnter
<1>. QED BY <1>1, <1>3, <1>4, <1>5, <1>6, <1>7 DEF PairingInv

-----------------------------------------------------------------------------
(* The approver's side *)

\* The steps that move an approving session, and those that leave all of them.
LEMMA ApproverCases ==
    ASSUME [PairingNext]_vars
    PROVE  \/ \E x \in Sid : Approving(x)
           \/ UNCHANGED <<appr, named, typed>>
<1>1. ASSUME NEW p \in Profile, Joining(p) PROVE UNCHANGED <<appr, named, typed>>
  BY <1>1
  DEF Joining, Begin, SealVault, ServePost, PollGrant, ServeTake, StoreGrant, LockJoin,
      WipeDiscarded, CloseJoin, StatusRead, StatusWipe, LoseJoin
<1>. QED BY <1>1 DEF PairingNext, Elsewhere, vars, pairVars

\* A session with one of its fields set is a session.
LEMMA SessionFields ==
    ASSUME NEW r \in Appr
    PROVE  /\ \A at \in ApproveScreen \cup ApproveWait : [r EXCEPT !.at = at] \in Appr
           /\ \A over \in BOOLEAN : [r EXCEPT !.over = over] \in Appr
           /\ \A t \in Nat : [r EXCEPT !.openedAt = t] \in Appr
           /\ \A d \in Device : [r EXCEPT !.arrived = d] \in Appr
           /\ \A n \in 0 .. MATCH_TRIES : [r EXCEPT !.misses = n] \in Appr
           /\ \A n \in 0 .. MATCH_TRIES :
                 [r EXCEPT !.at = "stopped", !.over = TRUE, !.misses = n] \in Appr
           /\ [r EXCEPT !.at = "stopped", !.over = TRUE] \in Appr
BY DEF Appr, ApproveScreen

LEMMA FreshSession == NoAppr \in Appr
BY PairingAssumption DEF NoAppr, Appr, ApproveScreen

\* A session keeps its types in each of its steps, and moves alone.
LEMMA SessionMoves ==
    ASSUME PairingTypeOK, EndedIsOver, ReadIsPosted, PostedBySigner, NEW x \in Sid, Approving(x)
    PROVE  /\ appr'[x] \in Appr
           /\ appr' = [appr EXCEPT ![x] = appr'[x]]
<1> USE PairingAssumption DEF PairingTypeOK
<1>0. appr \in [Sid -> Appr]
  BY DEF Appr
<1>1. ASSUME Stop(x) PROVE appr'[x] \in Appr /\ appr' = [appr EXCEPT ![x] = appr'[x]]
  <2>1. [NoAppr EXCEPT !.at = "stopped", !.over = TRUE] \in Appr
    BY SessionFields, FreshSession
  <2>. QED BY <1>0, <1>1, <2>1 DEF Stop
<1>2. ASSUME NEW at \in ApproveScreen \cup ApproveWait, appr' = [appr EXCEPT ![x].at = at]
      PROVE  appr'[x] \in Appr /\ appr' = [appr EXCEPT ![x] = appr'[x]]
  BY <1>0, <1>2, ZenonT(30) DEF Appr
<1>3. CASE Open(x)
  BY <1>2, <1>3 DEF Open, ApproveWait
<1>4. CASE ServeOpen(x)
  <2>1. ASSUME appr' = [appr EXCEPT ![x].at = "show", ![x].openedAt = now]
        PROVE  appr'[x] \in Appr /\ appr' = [appr EXCEPT ![x] = appr'[x]]
    <3> DEFINE shown == [appr[x] EXCEPT !.at = "show"]
    <3>1. shown \in Appr
      BY <1>0, SessionFields DEF ApproveScreen
    <3>2. appr' = [appr EXCEPT ![x] = [shown EXCEPT !.openedAt = now]]
      BY <1>0, <2>1
    <3>3. now \in Nat
      BY DEF StoreTypeOK
    <3> HIDE DEF shown
    <3>4. [shown EXCEPT !.openedAt = now] \in Appr
      BY <3>1, <3>3, SessionFields
    <3>. QED BY <1>0, <3>2, <3>4
  <2>. QED BY <1>1, <1>4, <2>1 DEF ServeOpen
<1>5. CASE PollRequest(x)
  BY <1>1, <1>2, <1>5 DEF PollRequest, ApproveWait
<1>6. CASE ServeRead(x)
  <2>1. ASSUME AwaitsGrant(x, Approver),
               appr' = [appr EXCEPT ![x].at = "match", ![x].arrived = posted[x].key]
        PROVE  appr'[x] \in Appr /\ appr' = [appr EXCEPT ![x] = appr'[x]]
    <3>1. posted[x] \in Request
      BY <2>1 DEF AwaitsGrant, IsOpen, PostedBySigner
    <3>2. posted[x].key \in Device
      BY <3>1 DEF Request
    <3> DEFINE met == [appr[x] EXCEPT !.at = "match"]
    <3>3. met \in Appr
      BY <1>0, SessionFields DEF ApproveScreen
    <3>4. appr' = [appr EXCEPT ![x] = [met EXCEPT !.arrived = posted[x].key]]
      BY <1>0, <2>1
    <3> HIDE DEF met
    <3>5. [met EXCEPT !.arrived = posted[x].key] \in Appr
      BY <3>2, <3>3, SessionFields
    <3>. QED BY <1>0, <3>4, <3>5
  <2>. QED BY <1>1, <1>2, <1>6, <2>1 DEF ServeRead, ApproveScreen
<1>7. ASSUME NEW d \in Shown \cup {None}, CheckCode(x, d)
      PROVE  appr'[x] \in Appr /\ appr' = [appr EXCEPT ![x] = appr'[x]]
  <2>1. CASE Matches(x, d)
    BY <1>2, <1>7, <2>1 DEF CheckCode, ApproveScreen
  <2>2. CASE ~Matches(x, d) /\ LastMiss(x)
    <3>1. [NoAppr EXCEPT !.at = "stopped", !.over = TRUE, !.misses = MATCH_TRIES] \in Appr
      <4>1. MATCH_TRIES \in 0 .. MATCH_TRIES
        OBVIOUS
      <4>. QED BY <4>1, SessionFields, FreshSession, Zenon
    <3>. QED BY <1>0, <1>7, <2>2, <3>1 DEF CheckCode
  <2>3. CASE ~Matches(x, d) /\ ~LastMiss(x)
    <3>1. appr' = [appr EXCEPT ![x].misses = @ + 1]
      BY <1>7, <2>3 DEF CheckCode
    <3>2. appr[x].misses + 1 \in 0 .. MATCH_TRIES
      BY <1>0, <2>3 DEF LastMiss, Appr
    <3>. QED BY <1>0, <3>1, <3>2, ZenonT(30) DEF Appr
  <2>. QED BY <2>1, <2>2, <2>3
<1>8. CASE Approve(x)
  BY <1>1, <1>2, <1>8 DEF Approve, ApproveWait
<1>9. CASE Unlocked(x)
  BY <1>1, <1>2, <1>9 DEF Unlocked, ApproveWait, ApproveScreen
<1>10. CASE Name(x)
  BY <1>1, <1>2, <1>10 DEF Name, ApproveWait
<1>11. CASE ServeGrant(x)
  <2>1. ASSUME appr' = [appr EXCEPT ![x].at = "added", ![x].over = TRUE]
        PROVE  appr'[x] \in Appr /\ appr' = [appr EXCEPT ![x] = appr'[x]]
    <3> DEFINE added == [appr[x] EXCEPT !.at = "added"]
    <3>1. added \in Appr
      BY <1>0, SessionFields DEF ApproveScreen
    <3>2. appr' = [appr EXCEPT ![x] = [added EXCEPT !.over = TRUE]]
      BY <1>0, <2>1
    <3> HIDE DEF added
    <3>3. [added EXCEPT !.over = TRUE] \in Appr
      BY <3>1, SessionFields
    <3>. QED BY <1>0, <3>2, <3>3
  <2>. QED BY <1>1, <1>11, <2>1 DEF ServeGrant
<1>12. CASE Abandon(x)
  <2>1. ASSUME appr' = [appr EXCEPT ![x].over = TRUE]
        PROVE  appr'[x] \in Appr /\ appr' = [appr EXCEPT ![x] = appr'[x]]
    BY <1>0, <2>1, ZenonT(30) DEF Appr
  <2>. QED BY <1>1, <1>12, <2>1 DEF Abandon
<1>13. CASE LoseApprover(x)
  BY <1>1, <1>2, <1>13 DEF LoseApprover, ApproveScreen
<1>. QED
  BY <1>3, <1>4, <1>5, <1>6, <1>7, <1>8, <1>9, <1>10, <1>11, <1>12, <1>13 DEF Approving

\* ... and what it had to hold to move on.
LEMMA SessionSteps ==
    ASSUME PairingTypeOK, EndedIsOver, ReadIsPosted, PostedBySigner, NEW x \in Sid, Approving(x)
    PROVE  /\ appr'[x].at \in {"added", "stopped"} => appr'[x].over
           /\ appr'[x].misses = MATCH_TRIES => appr'[x].at = "stopped"
           /\ appr[x].at \notin {"added", "stopped"}
           /\ appr'[x].at \in HoldsRequest =>
                /\ \/ appr[x].at \in HoldsRequest /\ appr'[x].arrived = appr[x].arrived
                   \/ /\ appr[x].at = "reading" /\ appr'[x].at = "match" /\ UNCHANGED storeVars
                      /\ AwaitsGrant(x, Approver) /\ posted[x].label = "teacher"
                      /\ appr'[x].arrived = posted[x].key
                /\ appr'[x].at # "match" /\ appr[x].at = "match" => appr[x].arrived \in typed'[x]
                /\ appr'[x].at # "match" => appr[x].at \in HoldsRequest
                /\ appr'[x].at = "granting" => appr[x].at = "granting" \/ appr[x].arrived \in named'
<1> USE PairingAssumption DEF PairingTypeOK, HoldsRequest, EndedIsOver
<1>0. appr \in [Sid -> Appr] /\ appr[x] \in Appr
  BY DEF Appr
<1>1. ASSUME Stop(x) PROVE appr'[x].at = "stopped" /\ appr'[x].over /\ appr'[x].misses # MATCH_TRIES
  BY <1>0, <1>1 DEF Stop, NoAppr
<1>2. ASSUME NEW at \in ApproveScreen \cup ApproveWait, appr' = [appr EXCEPT ![x].at = at]
      PROVE  appr'[x] = [appr[x] EXCEPT !.at = at]
  BY <1>0, <1>2
<1>3. CASE Open(x)
  BY <1>0, <1>2, <1>3 DEF Open, ApproveWait, Fresh, NoAppr, Appr
<1>4. CASE ServeOpen(x)
  BY <1>0, <1>1, <1>4 DEF ServeOpen, Appr
<1>5. CASE PollRequest(x)
  BY <1>0, <1>1, <1>2, <1>5 DEF PollRequest, ApproveWait, Appr
<1>6. CASE ServeRead(x)
  BY <1>0, <1>1, <1>2, <1>6 DEF ServeRead, NameAllowed, ApproveScreen, Appr
<1>7. ASSUME NEW d \in Shown \cup {None}, CheckCode(x, d), appr[x].at = "match"
      PROVE  \/ appr'[x] = [appr[x] EXCEPT !.at = "confirm"] /\ appr[x].arrived \in typed'[x]
             \/ appr'[x].at = "stopped" /\ appr'[x].over
             \/ appr'[x] = [appr[x] EXCEPT !.misses = @ + 1] /\ appr[x].misses + 1 < MATCH_TRIES
  <2>1. CASE Matches(x, d)
    <3>1. d = appr[x].arrived /\ d # None
      BY <1>7, <2>1, NoneAssumption DEF Matches, ReadIsPosted, Request
    <3>. QED BY <1>0, <1>7, <2>1, <3>1 DEF CheckCode
  <2>2. CASE ~Matches(x, d) /\ LastMiss(x)
    <3>1. appr'[x] = [NoAppr EXCEPT !.at = "stopped", !.over = TRUE, !.misses = MATCH_TRIES]
      BY <1>0, <1>7, <2>2 DEF CheckCode
    <3>2. NoAppr \in Appr
      BY FreshSession
    <3>. QED BY <3>1, <3>2 DEF Appr
  <2>3. CASE ~Matches(x, d) /\ ~LastMiss(x)
    BY <1>0, <1>7, <2>3 DEF CheckCode, LastMiss, Appr
  <2>. QED BY <2>1, <2>2, <2>3
<1>8. ASSUME NEW d \in Shown \cup {None}, CheckCode(x, d) PROVE appr[x].at = "match"
  BY <1>8 DEF CheckCode, Offers
<1>9. CASE Approve(x)
  <2>1. appr[x].at = "confirm"
    BY <1>9 DEF Approve, Offers
  <2>. QED BY <1>0, <1>1, <1>2, <1>9, <2>1 DEF Approve, ApproveWait, Appr
<1>10. CASE Unlocked(x)
  BY <1>0, <1>1, <1>2, <1>10 DEF Unlocked, ApproveWait, ApproveScreen, Appr
<1>11. CASE Name(x)
  BY <1>0, <1>1, <1>2, <1>11 DEF Name, NameWritten, ApproveWait, Appr
<1>12. CASE ServeGrant(x)
  BY <1>0, <1>1, <1>12 DEF ServeGrant, Appr
<1>13. CASE Abandon(x)
  <2>1. CASE appr[x].at \in ApproveWait
    BY <1>0, <1>13, <2>1 DEF Abandon, Appr, ApproveWait
  <2>2. CASE appr[x].at \notin ApproveWait
    BY <1>0, <1>1, <1>13, <2>2 DEF Abandon, Current, ApproveWait
  <2>. QED BY <2>1, <2>2
<1>14. CASE LoseApprover(x)
  BY <1>0, <1>1, <1>2, <1>14 DEF LoseApprover, ApproveScreen, Appr
<1>15. ASSUME NEW d \in Shown \cup {None}, CheckCode(x, d)
       PROVE  /\ appr[x].at = "match"
              /\ appr'[x].at \in {"added", "stopped"} => appr'[x].over
              /\ appr'[x].misses = MATCH_TRIES => appr'[x].at = "stopped"
              /\ appr'[x].at # "stopped" => appr'[x].arrived = appr[x].arrived
              /\ appr'[x].at \notin {"match", "stopped"} => appr[x].arrived \in typed'[x]
              /\ appr'[x].at # "granting"
  BY <1>0, <1>7, <1>8, <1>15 DEF Appr
<1>. QED
  BY <1>3, <1>4, <1>5, <1>6, <1>9, <1>10, <1>11, <1>12, <1>13, <1>14, <1>15 DEF Approving

-----------------------------------------------------------------------------
(* What becomes of a session in the relay's mailbox *)

MailKept(x) == pairings'[x] \in {pairings[x], NoSession} /\ posted'[x] = posted[x]

MailOpened(x) ==
    /\ appr[x].at = "opening" /\ posted'[x] = posted[x]
    /\ pairings'[x].signer = NoDevice /\ ~pairings'[x].granted

MailTaken(x) ==
    /\ pairings[x] # NoSession /\ pairings[x].signer = NoDevice
    /\ pairings'[x].signer \in Device /\ ~pairings'[x].granted
    /\ posted'[x] \in Request /\ posted'[x].key = pairings'[x].signer

MailGranted(x) ==
    /\ Approving(x) /\ appr[x].at = "granting" /\ posted'[x] = posted[x]
    /\ pairings[x] # NoSession /\ pairings'[x].signer = pairings[x].signer
    /\ pairings[x].signer = appr[x].arrived /\ JoinedNext(appr[x].arrived)
    /\ appr'[x].at \in {"added", "stopped"} /\ appr'[x].misses # MATCH_TRIES

\* The relay's writes: a session is opened, takes its first request, is granted, or goes.
LEMMA OpenMails ==
    ASSUME PairingTypeOK, NEW x \in Sid, appr[x].at = "opening", OpenPairing(x, Approver),
           UNCHANGED posted, NEW y \in Sid
    PROVE  MailKept(y) \/ MailOpened(y)
BY DEF OpenPairing, PairingTypeOK, StoreTypeOK, MailKept, MailOpened

LEMMA PostMails ==
    ASSUME PairingTypeOK, SessionsAreLive, RunsHold, NEW p \in Profile, join[p].at = "posting",
           RelayTakesPost(p), NEW y \in Sid
    PROVE  MailKept(y) \/ MailTaken(y)
<1> USE DEF PairingTypeOK, StoreTypeOK
<1> DEFINE x == join[p].sid
           d == join[p].key
<1>1. x \in Sid /\ d \in Device /\ join[p].label \in Label
  BY DEF RunsHold, JoinWait
<1>2. /\ pairings[x] # NoSession /\ pairings[x].signer = NoDevice
      /\ pairings' = [pairings EXCEPT ![x].signer = d]
      /\ posted' = [posted EXCEPT ![x] = [key |-> d, label |-> join[p].label]]
  BY DEF RelayTakesPost, PutPairingRequest, IsOpen, RequestSlotFree
<1>3. pairings[x] \in Session /\ ~pairings[x].granted
  BY <1>1, <1>2 DEF SessionsAreLive, Session
<1>4. [key |-> d, label |-> join[p].label] \in Request
  BY <1>1 DEF Request
<1> HIDE DEF x, d
<1>5. CASE y # x
  BY <1>1, <1>2, <1>5 DEF MailKept
<1>6. CASE y = x
  <2>1. /\ pairings'[x] = [pairings[x] EXCEPT !.signer = d]
        /\ posted'[x].key = d /\ posted'[x] \in Request
    BY <1>1, <1>2, <1>4
  <2>2. pairings'[x].signer = d /\ pairings'[x].granted = pairings[x].granted
    BY <1>3, <2>1 DEF Session
  <2>. QED BY <1>1, <1>2, <1>3, <1>6, <2>1, <2>2 DEF MailTaken
<1>. QED BY <1>5, <1>6

\* completePairing makes the request signer an owner that holds the master.
LEMMA GrantJoins ==
    ASSUME StoreInv, NEW x \in Sid, NEW d \in Device,
           CompletePairing(x, Approver, d, "owner", Grants)
    PROVE  JoinedNext(d)
<1>1. /\ role' = [role EXCEPT ![d] = "owner"] /\ status' = [status EXCEPT ![d] = "active"]
      /\ acl' = [acl EXCEPT ![d] = @ \cup {g[1] : g \in Grants}]
  BY DEF CompletePairing, WriteGrant
<1>2. Master \in {g[1] : g \in Grants}
  BY DEF Grants
<1>. QED BY <1>1, <1>2 DEF StoreInv, StoreTypeOK, JoinedNext

LEMMA GrantMails ==
    ASSUME PairingTypeOK, StoreInv, EndedIsOver, ReadIsPosted, NEW x \in Sid,
           Approving(x), appr[x].at = "granting",
           CompletePairing(x, Approver, appr[x].arrived, "owner", Grants), UNCHANGED posted,
           appr'[x].at \in {"added", "stopped"}, appr'[x].misses # MATCH_TRIES, NEW y \in Sid
    PROVE  MailKept(y) \/ MailGranted(y)
<1> USE DEF PairingTypeOK, StoreTypeOK
<1>1. appr[x].arrived \in Device
  BY DEF ReadIsPosted, HoldsRequest, Request
<1>2. JoinedNext(appr[x].arrived)
  BY <1>1, GrantJoins
<1>3. /\ pairings' = [pairings EXCEPT ![x].granted = TRUE] /\ pairings[x] # NoSession
      /\ pairings[x].signer = appr[x].arrived
  BY DEF CompletePairing, AwaitsGrant, IsOpen, EnrollmentOK
<1>4. pairings'[x].signer = pairings[x].signer
  BY <1>3 DEF Session
<1>. QED BY <1>2, <1>3, <1>4 DEF MailKept, MailGranted

LEMMA MailStep ==
    ASSUME PairingInv, [PairingNext]_vars, NEW y \in Sid
    PROVE  MailKept(y) \/ MailOpened(y) \/ MailTaken(y) \/ MailGranted(y)
<1> USE DEF PairingInv, ApproverInv, JoinerInv
<1>0. pairings \in [Sid -> Session \cup {NoSession}] /\ StoreInv /\ SessionsAreLive
  BY DEF StoreInv, StoreTypeOK
<1>1. ASSUME UNCHANGED <<storeVars, posted>> PROVE MailKept(y)
  BY <1>0, <1>1 DEF storeVars, MailKept
<1>2. ASSUME NEW x \in Sid, Stop(x) PROVE appr'[x].at = "stopped" /\ appr'[x].misses # MATCH_TRIES
  BY <1>2, PairingAssumption DEF Stop, NoAppr, PairingTypeOK
<1>3. ASSUME NEW x \in Sid, Approving(x)
      PROVE  MailKept(y) \/ MailOpened(y) \/ MailGranted(y)
  <2>1. CASE ServeOpen(x)
    BY <1>1, <2>1, OpenMails DEF ServeOpen
  <2>2. CASE ServeGrant(x)
    <3>1. appr[x].at = "granting" /\ appr[x].misses # MATCH_TRIES
      BY <2>2 DEF ServeGrant, EndedIsOver
    <3>2. appr'[x].at \in {"added", "stopped"} /\ appr'[x].misses # MATCH_TRIES
      BY <1>2, <2>2, <3>1 DEF ServeGrant, PairingTypeOK
    <3>. QED BY <1>0, <1>1, <1>3, <2>2, <3>1, <3>2, GrantMails DEF ServeGrant
  <2>3. CASE LoseApprover(x)
    BY <1>0, <1>1, <1>2, <1>3, <2>3, OpenMails, GrantMails DEF LoseApprover
  <2>. QED
    BY <1>1, <1>3, <2>1, <2>2, <2>3
    DEF Approving, Open, PollRequest, ServeRead, CheckCode, Approve, Unlocked, Name, Abandon
<1>4. ASSUME NEW x \in Sid, NEW d \in Device, TakePairingGrant(x, d), UNCHANGED posted
      PROVE  MailKept(y)
  BY <1>0, <1>4 DEF TakePairingGrant, MailKept
<1>5. ASSUME NEW p \in Profile, Joining(p) PROVE MailKept(y) \/ MailTaken(y)
  <2>1. CASE ServePost(p)
    BY <1>0, <1>1, <2>1, PostMails DEF ServePost
  <2>2. ASSUME join[p].at = "taking" PROVE join[p].sid \in Sid /\ join[p].key \in Device
    BY <2>2 DEF RunsHold, JoinWait
  <2>3. CASE ServeTake(p)
    BY <1>1, <1>4, <2>2, <2>3 DEF ServeTake
  <2>4. CASE LoseJoin(p)
    BY <1>0, <1>1, <1>4, <2>2, <2>4, PostMails DEF LoseJoin
  <2>. QED
    BY <1>1, <1>5, <2>1, <2>3, <2>4
    DEF Joining, Begin, SealVault, PollGrant, StoreGrant, LockJoin, WipeDiscarded, CloseJoin,
        StatusRead, StatusWipe
<1>6. ASSUME Elsewhere PROVE MailKept(y)
  <2>1. posted' = posted
    BY <1>6 DEF Elsewhere, pairVars
  <2>2. ASSUME NEW d \in Device, Revoke(d) PROVE pairings'[y] \in {pairings[y], NoSession}
    BY <2>2 DEF Revoke
  <2>3. ASSUME SweepExpired PROVE pairings'[y] \in {pairings[y], NoSession}
    BY <2>3 DEF SweepExpired
  <2>. QED BY <1>6, <2>1, <2>2, <2>3 DEF Elsewhere, Tick, MailKept
<1>7. CASE UNCHANGED vars
  BY <1>1, <1>7 DEF vars, pairVars
<1>. QED BY <1>3, <1>5, <1>6, <1>7 DEF PairingNext

-----------------------------------------------------------------------------
(* The approver's invariants *)

\* A session that no step of its own moves is as it was.
LEMMA OthersStay ==
    ASSUME PairingInv, [PairingNext]_vars
    PROVE  /\ \A y \in Sid : Approving(y) \/ appr'[y] = appr[y]
           /\ appr' \in [Sid -> Appr]
<1> USE DEF PairingInv, ApproverInv
<1>0. appr \in [Sid -> Appr]
  BY DEF PairingTypeOK, Appr
<1>1. ASSUME NEW x \in Sid, Approving(x)
      PROVE  appr'[x] \in Appr /\ appr' = [appr EXCEPT ![x] = appr'[x]]
  BY <1>1, SessionMoves
<1>2. CASE UNCHANGED <<appr, named, typed>>
  BY <1>0, <1>2
<1>. QED BY <1>0, <1>1, <1>2, ApproverCases

\* What was typed and what was named stays.
LEMMA HistoryGrows ==
    ASSUME PairingTypeOK, [PairingNext]_vars
    PROVE  named \subseteq named' /\ \A y \in Sid : typed[y] \subseteq typed'[y]
<1> USE DEF PairingTypeOK
<1>1. ASSUME NEW x \in Sid, Approving(x)
      PROVE  named \subseteq named' /\ \A y \in Sid : typed[y] \subseteq typed'[y]
  BY <1>1
  DEF Approving, Open, ServeOpen, PollRequest, ServeRead, CheckCode, Approve, Unlocked, Name,
      NameWritten, ServeGrant, Abandon, LoseApprover
<1>. QED BY <1>1, ApproverCases

\* First write wins at the relay, so the blob stays its signer's ...
LEMMA PostedStep == PairingInv /\ [PairingNext]_vars => PostedBySigner'
<1> SUFFICES ASSUME PairingInv, [PairingNext]_vars, NEW y \in Sid,
                    pairings'[y] # NoSession, pairings'[y].signer # NoDevice
             PROVE  posted'[y] # None /\ posted'[y].key = pairings'[y].signer
  BY DEF PostedBySigner
<1>. QED
  BY MailStep, NoneAssumption
  DEF PairingInv, ApproverInv, PostedBySigner, MailKept, MailOpened, MailTaken, MailGranted

\* ... and stays what the approver has read.
LEMMA ReadStep == PairingInv /\ [PairingNext]_vars => ReadIsPosted'
<1> SUFFICES ASSUME PairingInv, [PairingNext]_vars, NEW y \in Sid, appr'[y].at \in HoldsRequest
             PROVE  /\ posted'[y] # None /\ posted'[y].label = "teacher"
                    /\ appr'[y].arrived = posted'[y].key
                    /\ pairings'[y] # NoSession => pairings'[y].signer = appr'[y].arrived
  BY DEF ReadIsPosted
<1> USE DEF PairingInv, ApproverInv
<1>1. \/ appr[y].at \in HoldsRequest /\ appr'[y].arrived = appr[y].arrived
      \/ /\ UNCHANGED storeVars /\ appr[y].at = "reading"
         /\ AwaitsGrant(y, Approver) /\ posted[y].label = "teacher"
         /\ appr'[y].arrived = posted[y].key
  BY OthersStay, SessionSteps
<1>2. CASE appr[y].at \in HoldsRequest /\ appr'[y].arrived = appr[y].arrived
  <2>1. /\ posted[y] # None /\ posted[y].label = "teacher" /\ appr[y].arrived = posted[y].key
        /\ pairings[y] # NoSession => pairings[y].signer = appr[y].arrived
    BY <1>2 DEF ReadIsPosted
  <2>2. appr[y].arrived \in Device /\ NoDevice \notin Device
    BY <2>1, StoreAssumption DEF PairingTypeOK, Request
  <2>3. ~MailTaken(y)
    BY <2>1, <2>2 DEF MailTaken
  <2>4. ~MailOpened(y)
    BY <1>2 DEF MailOpened, HoldsRequest
  <2>. QED BY <1>2, <2>1, <2>3, <2>4, MailStep DEF MailKept, MailGranted
<1>3. CASE /\ UNCHANGED storeVars /\ appr[y].at = "reading"
           /\ AwaitsGrant(y, Approver) /\ posted[y].label = "teacher"
           /\ appr'[y].arrived = posted[y].key
  <2>1. /\ pairings'[y] = pairings[y] /\ pairings[y] # NoSession /\ pairings[y].signer # NoDevice
        /\ posted[y] # None /\ posted[y].key = pairings[y].signer
    BY <1>3 DEF AwaitsGrant, IsOpen, PostedBySigner, storeVars
  <2>2. ~MailTaken(y) /\ ~MailOpened(y) /\ ~MailGranted(y)
    BY <1>3, <2>1 DEF MailTaken, MailOpened, MailGranted
  <2>3. posted'[y] = posted[y]
    BY <2>2, MailStep DEF MailKept
  <2>. QED BY <1>3, <2>1, <2>3
<1>. QED BY <1>1, <1>2, <1>3

\* What was confirmed was typed, and what is granted was named before.
LEMMA ConfirmedStep == PairingInv /\ [PairingNext]_vars => ConfirmedIsTyped'
<1> SUFFICES ASSUME PairingInv, [PairingNext]_vars, NEW y \in Sid
             PROVE  /\ appr'[y].at \in HoldsRequest \ {"match"} => appr'[y].arrived \in typed'[y]
                    /\ appr'[y].at = "granting" => appr'[y].arrived \in named'
  BY DEF ConfirmedIsTyped
<1> USE DEF PairingInv, ApproverInv
<1>1. named \subseteq named' /\ typed[y] \subseteq typed'[y]
  BY HistoryGrows
<1>2. CASE appr'[y] = appr[y]
  BY <1>1, <1>2 DEF ConfirmedIsTyped
<1>3. ASSUME Approving(y), appr'[y].at \in HoldsRequest \ {"match"}
      PROVE  appr'[y].arrived \in typed'[y]
  <2>1. appr[y].at \in HoldsRequest /\ appr'[y].arrived = appr[y].arrived
    BY <1>3, SessionSteps DEF HoldsRequest
  <2>. QED BY <1>1, <1>3, <2>1, SessionSteps DEF ConfirmedIsTyped
<1>4. ASSUME Approving(y), appr'[y].at = "granting" PROVE appr'[y].arrived \in named'
  <2>1. appr[y].at \in HoldsRequest /\ appr'[y].arrived = appr[y].arrived
    BY <1>4, SessionSteps DEF HoldsRequest
  <2>2. appr[y].at = "granting" \/ appr[y].arrived \in named'
    BY <1>4, SessionSteps DEF HoldsRequest
  <2>. QED BY <1>1, <2>1, <2>2 DEF ConfirmedIsTyped
<1>. QED BY <1>2, <1>3, <1>4, OthersStay

\* A session ends once; a miss too many ends it.
LEMMA EndedStep == PairingInv /\ [PairingNext]_vars => EndedIsOver'
<1> SUFFICES ASSUME PairingInv, [PairingNext]_vars, NEW y \in Sid
             PROVE  /\ appr'[y].at \in {"added", "stopped"} => appr'[y].over
                    /\ appr'[y].misses = MATCH_TRIES => appr'[y].at = "stopped"
  BY DEF EndedIsOver
<1> USE DEF PairingInv, ApproverInv
<1>1. CASE appr'[y] = appr[y]
  BY <1>1 DEF EndedIsOver
<1>2. CASE Approving(y)
  BY <1>2, SessionSteps
<1>. QED BY <1>1, <1>2, OthersStay

\* A stored grant was put by a session that then ended; its key was typed, and stays an owner.
LEMMA GrantedStep == PairingInv /\ [PairingNext]_vars => GrantedIsEnded' /\ OnlyWhatSheTyped'
<1> SUFFICES ASSUME PairingInv, [PairingNext]_vars, NEW y \in Sid,
                    pairings'[y] # NoSession, pairings'[y].granted
             PROVE  /\ appr'[y].at \in {"added", "stopped"}
                    /\ JoinedNext(pairings'[y].signer)
                    /\ pairings'[y].signer \in typed'[y] /\ appr'[y].misses < MATCH_TRIES
                    /\ posted'[y].label = "teacher"
  BY DEF GrantedIsEnded, OnlyWhatSheTyped, Joined, JoinedNext
<1> USE DEF PairingInv, ApproverInv
<1>0. pairings \in [Sid -> Session \cup {NoSession}] /\ SessionsAreLive /\ StoreInv
  BY DEF StoreInv, StoreTypeOK
<1>1. ~MailOpened(y) /\ ~MailTaken(y)
  BY DEF MailOpened, MailTaken
<1>2. typed[y] \subseteq typed'[y]
  BY HistoryGrows
<1>3. ASSUME MailKept(y)
      PROVE  /\ appr'[y].at \in {"added", "stopped"} /\ JoinedNext(pairings'[y].signer)
             /\ pairings'[y].signer \in typed'[y] /\ appr'[y].misses < MATCH_TRIES
             /\ posted'[y].label = "teacher"
  <2>1. pairings'[y] = pairings[y] /\ posted'[y] = posted[y]
    BY <1>3 DEF MailKept
  <2>2. /\ appr[y].at \in {"added", "stopped"} /\ Joined(pairings[y].signer)
        /\ pairings[y].signer \in typed[y] /\ appr[y].misses < MATCH_TRIES
        /\ posted[y].label = "teacher"
    BY <2>1 DEF GrantedIsEnded, OnlyWhatSheTyped
  <2>3. appr'[y] = appr[y]
    BY <2>2, OthersStay, SessionSteps
  <2>4. pairings[y].signer \in Device
    BY <1>0, <2>1 DEF Session, SessionsAreLive
  <2>5. ASSUME NEW d \in Device, Joined(d) PROVE JoinedNext(d)
    BY <1>0, <2>5, StoreStep, JoinedStays
  <2>6. JoinedNext(pairings[y].signer)
    BY <2>2, <2>4, <2>5
  <2>. QED BY <1>2, <2>1, <2>2, <2>3, <2>6
<1>4. ASSUME MailGranted(y)
      PROVE  /\ appr'[y].at \in {"added", "stopped"} /\ JoinedNext(pairings'[y].signer)
             /\ pairings'[y].signer \in typed'[y] /\ appr'[y].misses < MATCH_TRIES
             /\ posted'[y].label = "teacher"
  <2>1. /\ appr[y].at = "granting" /\ posted'[y] = posted[y]
        /\ pairings'[y].signer = appr[y].arrived /\ JoinedNext(appr[y].arrived)
        /\ appr'[y].at \in {"added", "stopped"} /\ appr'[y].misses # MATCH_TRIES
    BY <1>4 DEF MailGranted
  <2>2. appr[y].arrived \in typed[y] /\ posted[y].label = "teacher"
    BY <2>1 DEF ConfirmedIsTyped, ReadIsPosted, HoldsRequest
  <2>3. appr'[y].misses \in 0 .. MATCH_TRIES
    BY OthersStay DEF Appr
  <2>4. appr'[y].misses < MATCH_TRIES
    BY <2>1, <2>3, PairingAssumption
  <2>. QED BY <1>2, <2>1, <2>2, <2>4
<1>. QED BY <1>1, <1>3, <1>4, MailStep

-----------------------------------------------------------------------------
(* The new device's side *)

\* A run with one of its fields set is a run.
LEMMA RunFields ==
    ASSUME NEW r \in Join
    PROVE  /\ \A at \in JoinScreen \cup JoinWait : [r EXCEPT !.at = at] \in Join
           /\ \A over \in BOOLEAN : [r EXCEPT !.over = over] \in Join
           /\ \A d \in Device : [r EXCEPT !.at = "posting", !.key = d] \in Join
           /\ [r EXCEPT !.at = "done", !.over = TRUE] \in Join
           /\ \A x \in Sid, label \in Label, t \in Nat :
                [r EXCEPT !.at = "passkey", !.sid = x, !.label = label, !.startedAt = t] \in Join
BY DEF Join, JoinScreen, JoinWait

LEMMA FreshRun == NoJoin \in Join
BY DEF NoJoin, Join, JoinScreen

LEMMA PairedRecord ==
    ASSUME NEW r \in Record
    PROVE  /\ Paired(r) \in Record
           /\ Paired(r).key = r.key /\ Paired(r).stage = "done" /\ Paired(r).grant = Master
BY DEF Record, Paired

\* The steps of a profile move its own run, record, lock and wipe alone.
LEMMA RunMoves ==
    ASSUME PairingTypeOK, RunsHold, NEW p \in Profile, Joining(p)
    PROVE  /\ join'[p] \in Join /\ join' = [join EXCEPT ![p] = join'[p]]
           /\ record'[p] \in Record \cup {None} /\ record' = [record EXCEPT ![p] = record'[p]]
           /\ lock'[p] \in BOOLEAN /\ lock' = [lock EXCEPT ![p] = lock'[p]]
           /\ wipes'[p] \in {"none", "discard", "status"}
           /\ wipes' = [wipes EXCEPT ![p] = wipes'[p]]
<1> DEFINE Alone ==
             /\ join'[p] \in Join /\ join' = [join EXCEPT ![p] = join'[p]]
             /\ record'[p] \in Record \cup {None} /\ record' = [record EXCEPT ![p] = record'[p]]
             /\ lock'[p] \in BOOLEAN /\ lock' = [lock EXCEPT ![p] = lock'[p]]
             /\ wipes'[p] \in {"none", "discard", "status"}
             /\ wipes' = [wipes EXCEPT ![p] = wipes'[p]]
<1>0. /\ join \in [Profile -> Join] /\ record \in [Profile -> Record \cup {None}]
      /\ lock \in [Profile -> BOOLEAN] /\ wipes \in [Profile -> {"none", "discard", "status"}]
  BY DEF PairingTypeOK, Join
<1>1. ASSUME NEW r \in Join, join' = [join EXCEPT ![p] = r]
      PROVE  join'[p] \in Join /\ join' = [join EXCEPT ![p] = join'[p]]
  BY <1>0, <1>1
<1>2. ASSUME NEW at \in JoinScreen \cup JoinWait, join' = [join EXCEPT ![p].at = at]
      PROVE  join'[p] \in Join /\ join' = [join EXCEPT ![p] = join'[p]]
  <2>1. [join[p] EXCEPT !.at = at] \in Join
    BY <1>0, RunFields
  <2>. QED BY <1>0, <1>2, <2>1
<1>3. ASSUME join' = [join EXCEPT ![p].over = TRUE]
      PROVE  join'[p] \in Join /\ join' = [join EXCEPT ![p] = join'[p]]
  <2>1. [join[p] EXCEPT !.over = TRUE] \in Join
    BY <1>0, RunFields
  <2>. QED BY <1>0, <1>3, <2>1
<1>4. ASSUME Discard(p)
      PROVE  /\ join'[p] \in Join /\ join' = [join EXCEPT ![p] = join'[p]]
             /\ lock'[p] \in BOOLEAN /\ lock' = [lock EXCEPT ![p] = lock'[p]]
             /\ wipes'[p] \in {"none", "discard", "status"}
             /\ wipes' = [wipes EXCEPT ![p] = wipes'[p]]
  BY <1>0, <1>1, <1>4, FreshRun DEF Discard
<1>5. {"passkey", "waiting"} \cup JoinWait \subseteq JoinScreen \cup JoinWait
  BY DEF JoinScreen, JoinWait
<1> HIDE DEF Alone
<1>6. ASSUME NEW x \in Sid, NEW label \in Label, Begin(p, x, label) PROVE Alone
  <2>1. [NoJoin EXCEPT !.at = "passkey", !.sid = x, !.label = label, !.startedAt = now] \in Join
    <3>1. now \in Nat
      BY DEF PairingTypeOK, StoreTypeOK
    <3>. QED BY <3>1, RunFields, FreshRun
  <2>. QED BY <1>0, <1>1, <1>6, <2>1 DEF Begin, Alone
<1>7. ASSUME NEW d \in Device, SealVault(p, d) PROVE Alone
  <2>1. [join[p] EXCEPT !.at = "posting", !.key = d] \in Join
    BY <1>0, RunFields
  <2>2. join' = [join EXCEPT ![p] = [join[p] EXCEPT !.at = "posting", !.key = d]]
    BY <1>0, <1>7 DEF SealVault
  <2>3. [key |-> d, label |-> join[p].label, stage |-> "pairing", grant |-> None] \in Record
    BY <1>7 DEF SealVault, RunsHold, Record
  <2>. QED BY <1>0, <1>1, <1>7, <2>1, <2>2, <2>3 DEF SealVault, Alone
<1>8. CASE ServePost(p)
  BY <1>0, <1>2, <1>4, <1>5, <1>8 DEF ServePost, Alone
<1>9. CASE PollGrant(p)
  BY <1>0, <1>2, <1>4, <1>5, <1>9 DEF PollGrant, Alone, JoinWait
<1>10. CASE ServeTake(p)
  BY <1>0, <1>2, <1>4, <1>5, <1>10 DEF ServeTake, Alone, JoinWait
<1>11. CASE StoreGrant(p)
  <2>1. [NoJoin EXCEPT !.at = "done", !.over = TRUE] \in Join
    BY RunFields, FreshRun
  <2>2. record[p] # None => Paired(record[p]) \in Record
    BY <1>0, PairedRecord
  <2>. QED BY <1>0, <1>1, <1>4, <1>11, <2>1, <2>2, FreshRun, ZenonT(30) DEF StoreGrant, Alone
<1>12. CASE LockJoin(p)
  BY <1>0, <1>3, <1>4, <1>12 DEF LockJoin, Alone
<1>13. CASE WipeDiscarded(p) \/ StatusRead(p) \/ StatusWipe(p)
  BY <1>0, <1>13 DEF WipeDiscarded, StatusRead, StatusWipe, Alone
<1>14. CASE CloseJoin(p)
  BY <1>0, <1>1, <1>3, <1>14, FreshRun DEF CloseJoin, Alone
<1>15. CASE LoseJoin(p)
  <2>1. [join[p] EXCEPT !.at = "waiting"] \in Join
    BY <1>0, <1>5, RunFields
  <2>. QED BY <1>0, <1>1, <1>15, <2>1, FreshRun DEF LoseJoin, Alone
<1>. QED
  BY <1>6, <1>7, <1>8, <1>9, <1>10, <1>11, <1>12, <1>13, <1>14, <1>15 DEF Joining, Alone

\* Where a run stands after a step, and what it holds there.
RunHoldsNext(p) ==
    /\ join'[p].at \in {"passkey", "waiting"} \cup JoinWait =>
          join'[p].sid \in Sid /\ join'[p].label \in Label
    /\ join'[p].at \in {"waiting"} \cup JoinWait => join'[p].key \in Device
    /\ join'[p].at = "storing" => JoinedNext(join'[p].key)
    /\ join'[p] # NoJoin /\ ~join'[p].over => lock'[p] /\ wipes'[p] = "none"

\* ... and what the device record says there.
RecordAgreesNext(p) ==
    /\ record'[p] # None =>
          /\ join'[p].key # None => record'[p].key = join'[p].key
          /\ record'[p].stage = "done" => record'[p].grant = Master /\ JoinedNext(record'[p].key)
    /\ join'[p].key # None /\ ~join'[p].over => record'[p] # None

\* A fresh run holds nothing.
LEMMA NothingYet == NoJoin.at = "scan" /\ NoJoin.key = None /\ ~NoJoin.over
BY DEF NoJoin

\* A run takes the setup lock and keeps it until it ends; only the relay's
\* answer that carries the grant brings it to storing one.
LEMMA RunStep ==
    ASSUME PairingInv, NEW p \in Profile, Joining(p),
           \A d \in Device : Joined(d) => JoinedNext(d)
    PROVE  RunHoldsNext(p)
<1> USE PairingAssumption, NothingYet
    DEF PairingInv, JoinerInv, PairingTypeOK, RunsHold, LiveHoldsTheLock, JoinWait
<1>0. /\ join \in [Profile -> Join] /\ join[p] \in Join
      /\ lock \in [Profile -> BOOLEAN] /\ wipes \in [Profile -> {"none", "discard", "status"}]
  BY DEF Join
<1>1. ASSUME join' = [join EXCEPT ![p] = NoJoin] PROVE RunHoldsNext(p)
  BY <1>0, <1>1 DEF RunHoldsNext
<1>2. ASSUME NEW at \in {"waiting", "taking"}, join[p].at \in {"waiting"} \cup JoinWait,
             join' = [join EXCEPT ![p].at = at], UNCHANGED <<lock, wipes>>
      PROVE  RunHoldsNext(p)
  <2>1. join'[p] = [join[p] EXCEPT !.at = at]
    BY <1>0, <1>2
  <2>. QED BY <1>0, <1>2, <2>1, SMTT(30) DEF RunHoldsNext, Join
<1>3. ASSUME join' = [join EXCEPT ![p].over = TRUE],
             JoinedNext(join[p].key) \/ join[p].at # "storing"
      PROVE  RunHoldsNext(p)
  <2>1. join'[p] = [join[p] EXCEPT !.over = TRUE]
    BY <1>0, <1>3
  <2>. QED BY <1>0, <1>3, <2>1 DEF RunHoldsNext, Join
<1>4. join[p].at = "storing" => JoinedNext(join[p].key)
  OBVIOUS
<1>5. ASSUME Discard(p) PROVE RunHoldsNext(p)
  BY <1>1, <1>5 DEF Discard
<1>6. ASSUME NEW x \in Sid, NEW label \in Label, Begin(p, x, label) PROVE RunHoldsNext(p)
  <2> DEFINE run == [NoJoin EXCEPT !.at = "passkey", !.sid = x, !.label = label, !.startedAt = now]
  <2>1. /\ join'[p] = run /\ lock'[p] /\ wipes'[p] = "none"
    BY <1>0, <1>6 DEF Begin
  <2>2. run.at = "passkey" /\ run.sid = x /\ run.label = label
    BY FreshRun DEF Join
  <2>. QED BY <2>1, <2>2 DEF RunHoldsNext
<1>7. ASSUME NEW d \in Device, SealVault(p, d) PROVE RunHoldsNext(p)
  <2> DEFINE run == [join[p] EXCEPT !.at = "posting", !.key = d]
  <2>1. /\ join'[p] = run /\ UNCHANGED <<lock, wipes>> /\ join[p].at = "passkey"
    BY <1>0, <1>7 DEF SealVault
  <2>2. /\ run.at = "posting" /\ run.key = d /\ run.sid = join[p].sid
        /\ run.label = join[p].label /\ run.over = join[p].over
    BY <1>0 DEF Join
  <2>. QED BY <2>1, <2>2 DEF RunHoldsNext
<1>8. CASE ServePost(p)
  BY <1>2, <1>5, <1>8 DEF ServePost
<1>9. CASE PollGrant(p)
  BY <1>2, <1>5, <1>9 DEF PollGrant
<1>10. CASE ServeTake(p)
  <2> DEFINE there == /\ IsOpen(join[p].sid) /\ pairings[join[p].sid].granted
                      /\ pairings[join[p].sid].signer = join[p].key
                      /\ status[join[p].key] = "active"
  <2>1. ASSUME there, join' = [join EXCEPT ![p].at = "storing"], UNCHANGED <<lock, wipes>>
        PROVE  RunHoldsNext(p)
    <3>1. Joined(join[p].key)
      BY <1>10, <2>1 DEF ServeTake, IsOpen, ApproverInv, GrantedIsEnded
    <3>2. join'[p] = [join[p] EXCEPT !.at = "storing"]
      BY <1>0, <2>1
    <3>. QED BY <1>0, <1>10, <2>1, <3>1, <3>2 DEF ServeTake, RunHoldsNext, Join
  <2>. QED BY <1>2, <1>5, <1>10, <2>1 DEF ServeTake
<1>11. CASE StoreGrant(p)
  <2>1. ASSUME join' = [join EXCEPT ![p] = [NoJoin EXCEPT !.at = "done", !.over = TRUE]]
        PROVE  RunHoldsNext(p)
    <3>1. join'[p].at = "done" /\ join'[p].over
      BY <1>0, <2>1, FreshRun DEF Join
    <3>. QED BY <3>1 DEF RunHoldsNext
  <2>. QED BY <1>1, <1>5, <1>11, <2>1 DEF StoreGrant
<1>12. CASE LockJoin(p)
  BY <1>3, <1>4, <1>5, <1>12 DEF LockJoin
<1>13. CASE WipeDiscarded(p) \/ StatusRead(p) \/ StatusWipe(p)
  BY <1>0, <1>4, <1>13 DEF WipeDiscarded, StatusRead, StatusWipe, Abandoned, RunHoldsNext
<1>14. CASE CloseJoin(p)
  BY <1>1, <1>3, <1>4, <1>14 DEF CloseJoin
<1>15. CASE LoseJoin(p)
  <2>1. CASE join[p].over
    BY <1>1, <1>15, <2>1 DEF LoseJoin
  <2>2. CASE ~join[p].over
    <3>1. join'[p] = [join[p] EXCEPT !.at = "waiting"] /\ UNCHANGED <<lock, wipes>>
      BY <1>0, <1>15, <2>2 DEF LoseJoin
    <3>. QED BY <1>0, <1>15, <2>2, <3>1, SMTT(30) DEF LoseJoin, RunHoldsNext, Join
  <2>. QED BY <2>1, <2>2
<1>. QED
  BY <1>6, <1>7, <1>8, <1>9, <1>10, <1>11, <1>12, <1>13, <1>14, <1>15 DEF Joining

\* Nobody but the run that made it writes or wipes the record while that run is live.
LEMMA RecordStep ==
    ASSUME PairingInv, NEW p \in Profile, Joining(p),
           \A d \in Device : Joined(d) => JoinedNext(d)
    PROVE  RecordAgreesNext(p)
<1> USE PairingAssumption, NoneAssumption, NothingYet
    DEF PairingInv, JoinerInv, PairingTypeOK, LiveHoldsTheLock, LiveJoinKeepsItsRecord, RecordsAgree
<1>0. /\ join \in [Profile -> Join] /\ join[p] \in Join
      /\ record \in [Profile -> Record \cup {None}] /\ record[p] \in Record \cup {None}
  BY DEF Join
<1>1. ASSUME record[p] # None, record[p].stage = "done" PROVE JoinedNext(record[p].key)
  BY <1>0, <1>1 DEF Record
<1>2. ASSUME join'[p] = NoJoin, UNCHANGED record PROVE RecordAgreesNext(p)
  BY <1>1, <1>2 DEF RecordAgreesNext
<1>3. ASSUME join'[p].key = join[p].key, join[p].over => join'[p].over, UNCHANGED record
      PROVE  RecordAgreesNext(p)
  BY <1>1, <1>3 DEF RecordAgreesNext
<1>4. ASSUME NEW at \in JoinScreen \cup JoinWait, join' = [join EXCEPT ![p].at = at],
             UNCHANGED record
      PROVE  RecordAgreesNext(p)
  <2>1. join'[p].key = join[p].key /\ join'[p].over = join[p].over
    BY <1>0, <1>4 DEF Join
  <2>. QED BY <1>3, <1>4, <2>1
<1>5. ASSUME join' = [join EXCEPT ![p].over = TRUE], UNCHANGED record PROVE RecordAgreesNext(p)
  <2>1. join'[p].key = join[p].key /\ join'[p].over
    BY <1>0, <1>5 DEF Join
  <2>. QED BY <1>3, <1>5, <2>1
<1>6. ASSUME Discard(p), UNCHANGED record PROVE RecordAgreesNext(p)
  BY <1>0, <1>2, <1>6 DEF Discard
<1>7. ASSUME record'[p] = None, join'[p].key = None \/ join'[p].over PROVE RecordAgreesNext(p)
  BY <1>7 DEF RecordAgreesNext
<1>8. ASSUME NEW x \in Sid, NEW label \in Label, Begin(p, x, label) PROVE RecordAgreesNext(p)
  <2>1. join'[p].key = None /\ record'[p] = None
    BY <1>0, <1>8, FreshRun DEF Begin, Join
  <2>. QED BY <1>7, <2>1
<1>9. ASSUME NEW d \in Device, SealVault(p, d) PROVE RecordAgreesNext(p)
  <2>1. join'[p] = [join[p] EXCEPT !.at = "posting", !.key = d]
    BY <1>0, <1>9 DEF SealVault
  <2>2. record'[p] = [key |-> d, label |-> join[p].label, stage |-> "pairing", grant |-> None]
    BY <1>0, <1>9 DEF SealVault
  <2>3. record'[p] \in Record
    BY <1>9, <2>2 DEF SealVault, RunsHold, Record
  <2>. QED BY <1>0, <2>1, <2>2, <2>3 DEF RecordAgreesNext, Join
<1>10. CASE ServePost(p)
  BY <1>4, <1>6, <1>10 DEF ServePost, JoinScreen
<1>11. CASE PollGrant(p)
  BY <1>4, <1>6, <1>11 DEF PollGrant, JoinWait
<1>12. CASE ServeTake(p)
  BY <1>4, <1>6, <1>12 DEF ServeTake, JoinScreen, JoinWait
<1>13. CASE StoreGrant(p)
  <2>1. CASE record[p] = None
    BY <1>6, <1>13, <2>1 DEF StoreGrant
  <2>2. CASE record[p] # None
    <3>1. record'[p] = Paired(record[p]) /\ record[p] \in Record
      BY <1>0, <1>13, <2>2 DEF StoreGrant
    <3>2. join'[p] \in {NoJoin, [NoJoin EXCEPT !.at = "done", !.over = TRUE]}
      BY <1>0, <1>13, <2>2 DEF StoreGrant
    <3>3. join'[p].key = None
      <4>1. [NoJoin EXCEPT !.at = "done", !.over = TRUE].key = NoJoin.key
        BY FreshRun DEF Join
      <4>. QED BY <3>2, <4>1
    <3>4. JoinedNext(record[p].key)
      BY <1>13, <2>2 DEF StoreGrant, RunsHold, JoinWait
    <3>. QED BY <3>1, <3>3, <3>4, PairedRecord DEF RecordAgreesNext
  <2>. QED BY <2>1, <2>2
<1>14. CASE LockJoin(p)
  BY <1>5, <1>6, <1>14 DEF LockJoin
<1>15. CASE WipeDiscarded(p) \/ StatusWipe(p)
  <2>1. record'[p] = None /\ join' = join /\ wipes[p] # "none"
    BY <1>0, <1>15 DEF WipeDiscarded, StatusWipe
  <2>2. join[p] = NoJoin \/ join[p].over
    BY <2>1
  <2>. QED BY <1>7, <2>1, <2>2
<1>16. CASE StatusRead(p)
  BY <1>3, <1>16 DEF StatusRead
<1>17. CASE CloseJoin(p)
  BY <1>0, <1>2, <1>5, <1>17 DEF CloseJoin
<1>18. CASE LoseJoin(p)
  <2>1. CASE join[p].over
    BY <1>0, <1>2, <1>18, <2>1 DEF LoseJoin
  <2>2. CASE ~join[p].over
    <3>1. join'[p] = [join[p] EXCEPT !.at = "waiting"] /\ UNCHANGED record
      BY <1>0, <1>18, <2>2 DEF LoseJoin
    <3>2. join'[p].key = join[p].key
      BY <1>0, <3>1 DEF Join
    <3>. QED BY <1>3, <2>2, <3>1, <3>2
  <2>. QED BY <2>1, <2>2
<1>. QED
  BY <1>8, <1>9, <1>10, <1>11, <1>12, <1>13, <1>14, <1>15, <1>16, <1>17, <1>18 DEF Joining

-----------------------------------------------------------------------------
(* The inductive invariant *)

\* Whoever the relay enrolls was typed and named before.
LEMMA EnrolledStep ==
    ASSUME PairingInv, [PairingNext]_vars
    PROVE  EnrolledIsNamed' /\ OnlyTypedEnter'
<1> USE DEF PairingInv, ApproverInv, PairingTypeOK, StoreTypeOK
<1>1. named \subseteq named' /\ \A x \in Sid : typed[x] \subseteq typed'[x]
  BY HistoryGrows
<1>2. ASSUME NEW d \in Device, NEW x \in Sid, appr[x].at = "granting", appr[x].arrived = d
      PROVE  d \in named /\ d \in typed[x]
  BY <1>2 DEF ConfirmedIsTyped, HoldsRequest
<1>3. ASSUME NEW d \in Device, status[d] = "none", status'[d] # "none"
      PROVE  \E x \in Sid : appr[x].at = "granting" /\ appr[x].arrived = d
  <2>1. ASSUME NEW x \in Sid, appr[x].at = "granting",
               CompletePairing(x, Approver, appr[x].arrived, "owner", Grants)
        PROVE  appr[x].arrived = d
    BY <1>3, <2>1 DEF CompletePairing
  <2>2. ASSUME NEW x \in Sid, Approving(x)
        PROVE  appr[x].at = "granting" /\ appr[x].arrived = d
    <3>1. ~ UNCHANGED status
      BY <1>3
    <3>2. CASE ServeOpen(x)
      BY <3>1, <3>2 DEF ServeOpen, OpenPairing, storeVars, deviceVars
    <3>3. CASE ServeGrant(x)
      BY <2>1, <3>1, <3>3 DEF ServeGrant, storeVars
    <3>4. CASE LoseApprover(x)
      BY <2>1, <3>1, <3>4 DEF LoseApprover, OpenPairing, storeVars, deviceVars
    <3>. QED
      BY <2>2, <3>1, <3>2, <3>3, <3>4
      DEF Approving, Open, PollRequest, ServeRead, CheckCode, Approve, Unlocked, Name, Abandon,
          storeVars
  <2>3. ASSUME NEW p \in Profile, Joining(p) PROVE UNCHANGED status
    BY <2>3
    DEF Joining, Begin, SealVault, ServePost, PollGrant, ServeTake, StoreGrant, LockJoin,
        WipeDiscarded, CloseJoin, StatusRead, StatusWipe, LoseJoin, RelayTakesPost,
        PutPairingRequest, TakePairingGrant, storeVars, deviceVars
  <2>4. ASSUME Elsewhere PROVE status'[d] = "none"
    BY <1>3, <2>4 DEF Elsewhere, Revoke, Revocable, SweepExpired, Tick, deviceVars
  <2>. QED BY <1>3, <2>2, <2>3, <2>4 DEF PairingNext, vars, storeVars
<1>4. ASSUME NEW d \in Device, status'[d] # "none" PROVE d \in named'
  BY <1>1, <1>2, <1>3, <1>4 DEF EnrolledIsNamed
<1>5. ASSUME NEW d \in Device, status'[d] # "none"
      PROVE  d = Approver \/ \E x \in Sid : d \in typed'[x]
  BY <1>1, <1>2, <1>3, <1>5 DEF OnlyTypedEnter
<1>. QED BY <1>4, <1>5 DEF EnrolledIsNamed, OnlyTypedEnter

\* What is left of the types: names, blobs, the history and the count of faults.
LEMMA PairingTypeStep ==
    ASSUME PairingInv, [PairingNext]_vars
    PROVE  /\ named' \in SUBSET Device /\ typed' \in [Sid -> SUBSET Device]
           /\ posted' \in [Sid -> Request \cup {None}] /\ faults' \in 0 .. MaxFaults
<1> USE PairingAssumption DEF PairingInv, ApproverInv, JoinerInv, PairingTypeOK
<1>1. ASSUME NEW x \in Sid, Approving(x)
      PROVE  named' \in SUBSET Device /\ typed' \in [Sid -> SUBSET Device]
  <2>1. CASE Name(x)
    <3>1. appr[x].arrived \in Device
      BY <2>1 DEF Name, ReadIsPosted, HoldsRequest, Request
    <3>. QED BY <2>1, <3>1 DEF Name, NameWritten
  <2>2. ASSUME NEW d \in Shown \cup {None}, CheckCode(x, d)
        PROVE  typed' \in [Sid -> SUBSET Device] /\ named' = named
    <3>1. {d} \ {None} \subseteq Device
      BY DEF Shown
    <3>. QED BY <2>2, <3>1 DEF CheckCode
  <2>. QED
    BY <1>1, <2>1, <2>2
    DEF Approving, Open, ServeOpen, PollRequest, ServeRead, Approve, Unlocked, ServeGrant,
        Abandon, LoseApprover
<1>2. named' \in SUBSET Device /\ typed' \in [Sid -> SUBSET Device]
  BY <1>1, ApproverCases
<1>3. ASSUME NEW p \in Profile, join[p].at = "posting", RelayTakesPost(p)
      PROVE  posted' \in [Sid -> Request \cup {None}]
  <2>1. [key |-> join[p].key, label |-> join[p].label] \in Request
    BY <1>3 DEF RunsHold, JoinWait, Request
  <2>. QED BY <1>3, <2>1 DEF RelayTakesPost
<1>4. posted' \in [Sid -> Request \cup {None}]
  <2>1. ASSUME NEW p \in Profile, Joining(p) PROVE posted' \in [Sid -> Request \cup {None}]
    BY <1>3, <2>1
    DEF Joining, Begin, SealVault, ServePost, PollGrant, ServeTake, StoreGrant, LockJoin,
        WipeDiscarded, CloseJoin, StatusRead, StatusWipe, LoseJoin
  <2>2. ASSUME NEW x \in Sid, Approving(x) PROVE posted' = posted
    BY <2>2
    DEF Approving, Open, ServeOpen, PollRequest, ServeRead, CheckCode, Approve, Unlocked, Name,
        ServeGrant, Abandon, LoseApprover
  <2>. QED BY <2>1, <2>2 DEF PairingNext, Elsewhere, vars, pairVars
<1>5. faults' \in 0 .. MaxFaults
  <2>0. faults' = faults + 1 /\ faults < MaxFaults => faults' \in 0 .. MaxFaults
    OBVIOUS
  <2>1. ASSUME NEW p \in Profile, Joining(p) PROVE faults' \in 0 .. MaxFaults
    BY <2>0, <2>1
    DEF Joining, Begin, SealVault, ServePost, PollGrant, ServeTake, StoreGrant, LockJoin,
        WipeDiscarded, CloseJoin, StatusRead, StatusWipe, LoseJoin
  <2>2. ASSUME NEW x \in Sid, Approving(x) PROVE faults' \in 0 .. MaxFaults
    BY <2>0, <2>2
    DEF Approving, Open, ServeOpen, PollRequest, ServeRead, CheckCode, Approve, Unlocked, Name,
        ServeGrant, Abandon, LoseApprover
  <2>. QED BY <2>1, <2>2 DEF PairingNext, Elsewhere, vars, pairVars
<1>. QED BY <1>2, <1>4, <1>5

\* Every profile's run and record stay in agreement.
LEMMA JoinerStep ==
    ASSUME PairingInv, [PairingNext]_vars
    PROVE  /\ JoinerInv'
           /\ join' \in [Profile -> Join] /\ record' \in [Profile -> Record \cup {None}]
           /\ lock' \in [Profile -> BOOLEAN]
           /\ wipes' \in [Profile -> {"none", "discard", "status"}]
<1> USE DEF PairingInv, JoinerInv
<1>0. /\ join \in [Profile -> Join] /\ record \in [Profile -> Record \cup {None}]
      /\ lock \in [Profile -> BOOLEAN] /\ wipes \in [Profile -> {"none", "discard", "status"}]
  BY DEF PairingTypeOK, Join
<1>1. \A d \in Device : Joined(d) => JoinedNext(d)
  BY StoreStep, JoinedStays
<1>2. ASSUME NEW p \in Profile, join'[p] = join[p], record'[p] = record[p], lock'[p] = lock[p],
             wipes'[p] = wipes[p]
      PROVE  RunHoldsNext(p) /\ RecordAgreesNext(p)
  <2>1. record[p] # None => record[p].key \in Device
    BY <1>0 DEF Record
  <2>2. join[p].at = "storing" => join[p].key \in Device
    BY DEF RunsHold, JoinWait
  <2>. QED
    BY <1>1, <1>2, <2>1, <2>2
    DEF RunsHold, LiveHoldsTheLock, RecordsAgree, LiveJoinKeepsItsRecord, RunHoldsNext,
        RecordAgreesNext
<1>3. CASE UNCHANGED <<join, record, lock, wipes>>
  <2>1. \A p \in Profile : RunHoldsNext(p) /\ RecordAgreesNext(p)
    BY <1>2, <1>3
  <2>. QED BY <1>0, <1>3, <2>1
       DEF RunsHold, LiveHoldsTheLock, RecordsAgree, LiveJoinKeepsItsRecord, RunHoldsNext,
           RecordAgreesNext, Joined, JoinedNext
<1>4. ASSUME NEW q \in Profile, Joining(q)
      PROVE  /\ JoinerInv'
             /\ join' \in [Profile -> Join] /\ record' \in [Profile -> Record \cup {None}]
             /\ lock' \in [Profile -> BOOLEAN]
             /\ wipes' \in [Profile -> {"none", "discard", "status"}]
  <2>1. /\ join'[q] \in Join /\ join' = [join EXCEPT ![q] = join'[q]]
        /\ record'[q] \in Record \cup {None} /\ record' = [record EXCEPT ![q] = record'[q]]
        /\ lock'[q] \in BOOLEAN /\ lock' = [lock EXCEPT ![q] = lock'[q]]
        /\ wipes'[q] \in {"none", "discard", "status"}
        /\ wipes' = [wipes EXCEPT ![q] = wipes'[q]]
    BY <1>4, RunMoves
  <2>2. ASSUME NEW p \in Profile PROVE RunHoldsNext(p) /\ RecordAgreesNext(p)
    <3>1. CASE p = q
      BY <1>1, <1>4, <3>1, RunStep, RecordStep
    <3>2. CASE p # q
      BY <1>0, <1>2, <2>1, <3>2
    <3>. QED BY <3>1, <3>2
  <2>. QED BY <1>0, <2>1, <2>2, SMTT(30)
       DEF RunsHold, LiveHoldsTheLock, RecordsAgree, LiveJoinKeepsItsRecord, RunHoldsNext,
           RecordAgreesNext, Joined, JoinedNext
<1>5. ASSUME NEW x \in Sid, Approving(x) PROVE UNCHANGED <<join, record, lock, wipes>>
  BY <1>5
  DEF Approving, Open, ServeOpen, PollRequest, ServeRead, CheckCode, Approve, Unlocked, Name,
      ServeGrant, Abandon, LoseApprover
<1>. QED BY <1>3, <1>4, <1>5 DEF PairingNext, Elsewhere, vars, pairVars

\* Every step of pairing keeps everything.
LEMMA PairingStep == PairingInv /\ [PairingNext]_vars => PairingInv'
<1> SUFFICES ASSUME PairingInv, [PairingNext]_vars PROVE PairingInv'
  OBVIOUS
<1>1. StoreInv'
  BY StoreStep, NextInv DEF PairingInv
<1>2. ApproverInv'
  BY PostedStep, ReadStep, ConfirmedStep, EndedStep, GrantedStep DEF ApproverInv
<1>3. PairingTypeOK'
  <2>1. appr' \in [Sid -> Appr] /\ EndedIsOver'
    BY <1>2, OthersStay DEF ApproverInv, PairingInv, PairingTypeOK
  <2>. QED
    BY <1>1, <2>1, PairingTypeStep, JoinerStep
    DEF PairingTypeOK, Appr, Join, StoreInv, EndedIsOver
<1>. QED BY <1>1, <1>2, <1>3, JoinerStep, EnrolledStep DEF PairingInv

-----------------------------------------------------------------------------
(* The theorems *)

\* The inductive invariant: what the approver read is what was posted, what was
\* granted was typed and named before, and a record is the one its run made.
THEOREM PairingInvariant == PairingSpec => []PairingInv
<1>. QED BY PairingInitInv, PairingStep, PTL DEF PairingSpec

\* Type correctness of Pairing.tla (pairing.ts, useAddDevice.ts, useJoin.ts).
THEOREM PairingTypeCorrect == PairingSpec => []PairingTypeOK
<1>1. PairingInv => PairingTypeOK
  BY DEF PairingInv
<1>. QED BY <1>1, PairingInvariant, PTL

\* Pairing calls the relay's store and does nothing else to it, so what the store
\* promises of every sequence of calls holds beside any number of pairings.
THEOREM PairingRunsOnTheStore == PairingSpec => [][StoreNext]_storeVars /\ []StoreInv
<1>1. PairingInv /\ [PairingNext]_vars => [StoreNext]_storeVars
  BY StoreStep
<1>2. PairingInv => StoreInv
  BY DEF PairingInv
<1>. QED BY <1>1, <1>2, PairingInvariant, PTL DEF PairingSpec

\* A device the relay enrolls has its name in the master map, whatever lock, lost
\* answer or refusal falls between #grant's two writes.
THEOREM EnrolledAlwaysNamed == PairingSpec => []EnrolledIsNamed
<1>1. PairingInv => EnrolledIsNamed
  BY DEF PairingInv
<1>. QED BY <1>1, PairingInvariant, PTL

\* A grant in the mailbox is for the key whose code she typed in that session, in
\* time and under a teacher's name, whoever else scanned the same square code.
THEOREM GrantOnlyWhatSheTyped == PairingSpec => []OnlyWhatSheTyped
<1>1. PairingInv => OnlyWhatSheTyped
  BY DEF PairingInv, ApproverInv
<1>. QED BY <1>1, PairingInvariant, PTL

\* ... and no device is in the deployment otherwise, also when the session that
\* let it in is long gone.
THEOREM OnlyTypedDevicesEnter == PairingSpec => []OnlyTypedEnter
<1>1. PairingInv => OnlyTypedEnter
  BY DEF PairingInv
<1>. QED BY <1>1, PairingInvariant, PTL

\* A record that says done holds the master's grant, and its key was enrolled as an
\* owner with the master in its access list (storePairedGrant is one write).
THEOREM DoneAlwaysHoldsTheGrant == PairingSpec => []DoneHoldsTheGrant
<1>1. PairingInv => DoneHoldsTheGrant
  BY DEF PairingInv, JoinerInv, RecordsAgree, Joined, DoneHoldsTheGrant
<1>. QED BY <1>1, PairingInvariant, PTL

\* While a joining run is live its record is there and its own: the setup lock keeps
\* every status read and every wipe of an earlier run away.
THEOREM LiveJoinAlwaysKeepsItsRecord == PairingSpec => []LiveJoinKeepsItsRecord
<1>1. PairingInv => LiveJoinKeepsItsRecord
  BY DEF PairingInv, JoinerInv
<1>. QED BY <1>1, PairingInvariant, PTL

\* A session that was abandoned before grant-put was sent never sends it: #live is
\* looked at after the last wait.
THEOREM NothingIsSentAfterALock == PairingSpec => NothingSentAfterALock
<1> DEFINE Unsent ==
        \A x \in Sid : appr[x].over /\ appr[x].at # "granting" => appr'[x].at # "granting"
<1>1. PairingInv /\ [PairingNext]_vars => [Unsent]_vars
  <2> SUFFICES ASSUME PairingInv, [PairingNext]_vars, NEW x \in Sid, appr[x].over,
                      appr[x].at # "granting"
               PROVE  appr'[x].at # "granting"
    OBVIOUS
  <2> USE DEF PairingInv, PairingTypeOK
  <2>1. ASSUME Stop(x) PROVE appr'[x].at = "stopped"
    BY <2>1 DEF Stop, NoAppr
  <2>2. CASE Approving(x)
    <3>1. CASE Name(x)
      BY <2>1, <3>1 DEF Name, StillLive
    <3>2. CASE ServeOpen(x) \/ ServeRead(x) \/ Unlocked(x) \/ ServeGrant(x) \/ LoseApprover(x)
      BY <2>1, <3>2 DEF ServeOpen, ServeRead, Unlocked, ServeGrant, LoseApprover
    <3>3. CASE \/ Open(x) \/ PollRequest(x) \/ Approve(x) \/ Abandon(x)
               \/ \E d \in Shown \cup {None} : CheckCode(x, d)
      BY <3>3 DEF Open, Fresh, NoAppr, PollRequest, Approve, Abandon, Current, CheckCode
    <3>. QED BY <2>2, <3>1, <3>2, <3>3 DEF Approving
  <2>. QED BY <2>2, OthersStay
<1>. QED BY <1>1, PairingInvariant, PTL DEF PairingSpec, NothingSentAfterALock
=============================================================================
