-------------------------------- MODULE Pairing --------------------------------
(***************************************************************************)
(* Adding a teacher device by pairing (apps/pwa/src/device/pairing.ts and  *)
(* the screens that drive it, useAddDevice and useJoin), composed with the *)
(* relay's store.  One approving session per pairing secret, so a session  *)
(* is named by its sid; one joining run per browser profile.  A step is    *)
(* what the code does between two awaits: on the network, on the unlock    *)
(* ceremony, or on the device record.  A request is served and its answer  *)
(* handled in one step -- what falls between the two is what falls before  *)
(* the one or after the other -- unless the request or the answer is lost. *)
(* A lock, a cancel or a closed window lands between any two steps, and    *)
(* what was awaited is answered late.  K is symbolic: a blob in a mailbox  *)
(* opens for the two devices that hold its sid.  A matching code is the    *)
(* fingerprint of the request, so it is modelled by the key it is made of. *)
(***************************************************************************)
EXTENDS RelayStore

CONSTANTS
    Approver,    \* the trusted device's key
    Master,      \* the deployment's master scope
    Profile,     \* browser profiles of devices to be added
    Watched,     \* the profile whose progress is asked for
    None,        \* no key, sid, answer, label or record
    MATCH_TRIES, \* wrong matching codes allowed per session
    MaxFaults    \* lost requests and answers (model bound)

ASSUME PairingAssumption ==
    /\ Approver \in Device /\ Master \in Scope /\ Watched \in Profile
    /\ None \notin Device \cup Sid \cup Scope
    /\ MATCH_TRIES \in Nat \ {0} /\ MaxFaults \in Nat

Label == {"teacher", "para"}     \* the role a device name stands for (labelRole)

\* Where an approving session stands: a screen, or what approve() and poll() await.
ApproveScreen == {"whose", "show", "match", "confirm", "added", "stopped"}
ApproveWait == {"opening", "reading", "unlocking", "naming", "granting"}
\* The same for a joining run.
JoinScreen == {"scan", "passkey", "waiting", "done"}
JoinWait == {"posting", "taking", "storing"}

VARIABLES
    appr,      \* per sid: the approving session
    named,     \* the keys in the master `devices' map
    join,      \* per profile: the joining run
    record,    \* per profile: the device record, or None
    lock,      \* per profile: the setup lock is held
    wipes,     \* per profile: wipes of the record under way
    posted,    \* per sid: what the request blob in the mailbox holds
    typed,     \* history, per sid: the devices whose code she typed
    faults     \* requests and answers lost so far

pairVars == <<appr, named, join, record, lock, wipes, posted, typed, faults>>
vars == <<storeVars, pairVars>>

Record == [key : Device, label : Label, stage : {"pairing", "done"}, grant : {None, Master}]
Request == [key : Device, label : Label]

ASSUME NoneAssumption == None \notin Record \cup Request

NoAppr == [at |-> "whose", over |-> FALSE, openedAt |-> 0,
           arrived |-> None, misses |-> 0]
NoJoin == [at |-> "scan", over |-> FALSE, sid |-> None, key |-> None, label |-> None,
           startedAt |-> 0]

PairingTypeOK ==
    /\ StoreTypeOK
    /\ appr \in [Sid -> [at : ApproveScreen \cup ApproveWait, over : BOOLEAN, openedAt : Nat,
                         arrived : Device \cup {None}, misses : 0 .. MATCH_TRIES]]
    /\ \A x \in Sid : appr[x].misses = MATCH_TRIES => appr[x].over
    /\ named \in SUBSET Device
    /\ join \in [Profile -> [at : JoinScreen \cup JoinWait, over : BOOLEAN, sid : Sid \cup {None},
                             key : Device \cup {None}, label : Label \cup {None},
                             startedAt : Nat]]
    /\ record \in [Profile -> Record \cup {None}]
    /\ lock \in [Profile -> BOOLEAN]
    /\ wipes \in [Profile -> {"none", "discard", "status"}]
    /\ posted \in [Sid -> Request \cup {None}]
    /\ typed \in [Sid -> SUBSET Device]
    /\ faults \in 0 .. MaxFaults

\* A deployment whose first setup is done: one owner, which holds the master.
PairingInit ==
    /\ now = 0
    /\ role = [d \in Device |-> IF d = Approver THEN "owner" ELSE "none"]
    /\ status = [d \in Device |-> IF d = Approver THEN "active" ELSE "none"]
    /\ kind = [s \in Scope |-> IF s = Master THEN "master" ELSE "none"]
    /\ retired = {}
    /\ acl = [d \in Device |-> IF d = Approver THEN {Master} ELSE {}]
    /\ codes = [c \in Code |-> NoCode]
    /\ pairings = [x \in Sid |-> NoSession]
    /\ appr = [x \in Sid |-> NoAppr]
    /\ named = {Approver}
    /\ join = [p \in Profile |-> NoJoin]
    /\ record = [p \in Profile |-> None]
    /\ lock = [p \in Profile |-> FALSE]
    /\ wipes = [p \in Profile |-> "none"]
    /\ posted = [x \in Sid |-> None]
    /\ typed = [x \in Sid |-> {}]
    /\ faults = 0

-----------------------------------------------------------------------------
(* The trusted device: A0 - A4 *)

Grants == {<<Master, "master">>}     \* pairingScopes: the master scope

Fresh(x) == appr[x] = NoAppr
Current(x) == ~Fresh(x) /\ ~appr[x].over

\* Once over, nothing but the answer it waits for is left of a session.
Stop(x) == appr' = [appr EXCEPT ![x] =
    [NoAppr EXCEPT !.at = "stopped", !.over = TRUE]]

Expired(x) == now - appr[x].openedAt >= PairingTTL

\* AddStepView, Whose, ConfirmItsYou: what she can press; not twice while something is awaited.
Offers(at) ==
    CASE at \in {"whose", "stopped"} -> {"start", "cancel"}
      [] at = "match" -> {"approve", "cancel"}
      [] at = "confirm" -> {"confirm", "cancel"}
      [] at = "added" -> {"done"}
      [] OTHER -> {"cancel"}

\* open: a fresh secret; the session of an earlier flow was abandoned (start, openApprover).
Open(x) ==
    /\ Fresh(x) /\ "start" \in Offers(appr[x].at)
    /\ \A y \in Sid : ~Current(y)
    /\ now + PairingTTL <= MaxNow
    /\ appr' = [appr EXCEPT ![x].at = "opening"]
    /\ UNCHANGED <<storeVars, named, join, record, lock, wipes, posted, typed, faults>>

\* pairing/open: refused with 404 when MaxOpenPairings sessions are waiting; else the
\* square code is shown, unless the session was abandoned meanwhile.
ServeOpen(x) ==
    /\ appr[x].at = "opening"
    /\ LET accepted == pairings[x] = NoSession /\ RoomForSession /\ Approver \in ActiveOwners
       IN /\ IF accepted THEN OpenPairing(x, Approver) ELSE UNCHANGED storeVars
          /\ IF accepted /\ ~appr[x].over
             THEN appr' = [appr EXCEPT ![x].at = "show", ![x].openedAt = now]
             ELSE Stop(x)
    /\ UNCHANGED <<named, join, record, lock, wipes, posted, typed, faults>>

\* poll, every POLL_MS while the square code is shown.
PollRequest(x) ==
    /\ appr[x].at = "show" /\ ~appr[x].over
    /\ IF Expired(x) THEN Stop(x) ELSE appr' = [appr EXCEPT ![x].at = "reading"]
    /\ UNCHANGED <<storeVars, named, join, record, lock, wipes, posted, typed, faults>>

\* Mutant: a name of the wrong role goes through.
NameAllowed_AnyRole(label) == TRUE

\* The only names an approver takes are a teacher's.
NameAllowed(label) == label = "teacher"

\* request-get: the opener may read the request until the grant is stored.  It is fetched
\* and opened once, and its name is checked before anything else.
ServeRead(x) ==
    /\ appr[x].at = "reading"
    /\ CASE appr[x].over \/ (AwaitsGrant(x, Approver) /\ ~NameAllowed(posted[x].label)) -> Stop(x)
         [] ~appr[x].over /\ ~AwaitsGrant(x, Approver) -> appr' = [appr EXCEPT ![x].at = "show"]
         [] OTHER -> appr' = [appr EXCEPT ![x].at = "match", ![x].arrived = posted[x].key]
    /\ UNCHANGED <<storeVars, named, join, record, lock, wipes, posted, typed, faults>>

\* Mutant: whatever code is typed matches.
Matches_Always(x, d) == TRUE

\* verificationCodeMatches: the code of device d is the code of the request fetched.
Matches(x, d) == appr[x].arrived = d

\* Mutant: one miss too many before the session is abandoned.
LastMiss_OffByOne(x) == appr[x].misses >= MATCH_TRIES

LastMiss(x) == appr[x].misses + 1 >= MATCH_TRIES

\* The codes on a screen: joining runs that are sealed and still wait.
Shown == {join[p].key : p \in {q \in Profile : join[q].at \in {"waiting"} \cup JoinWait}}

\* checkCode: she types a code she sees, or mistypes it; the last miss abandons.
CheckCode(x, d) ==
    /\ "approve" \in Offers(appr[x].at) /\ ~appr[x].over
    /\ typed' = [typed EXCEPT ![x] = @ \cup ({d} \ {None})]
    /\ CASE Matches(x, d) -> appr' = [appr EXCEPT ![x].at = "confirm"]
         [] ~Matches(x, d) /\ LastMiss(x) -> appr' = [appr EXCEPT ![x] =
                [NoAppr EXCEPT !.at = "stopped", !.over = TRUE, !.misses = MATCH_TRIES]]
         [] OTHER -> appr' = [appr EXCEPT ![x].misses = @ + 1]
    /\ UNCHANGED <<storeVars, named, join, record, lock, wipes, posted, faults>>

\* approve: refused once expired, else the fresh unlock ceremony starts.
Approve(x) ==
    /\ "confirm" \in Offers(appr[x].at) /\ ~appr[x].over
    /\ IF Expired(x) THEN Stop(x) ELSE appr' = [appr EXCEPT ![x].at = "unlocking"]
    /\ UNCHANGED <<storeVars, named, join, record, lock, wipes, posted, typed, faults>>

\* The ceremony and readGrant are over.  A failed unlock leaves the session as it was; a
\* lock during either stops before even the name is written.
Unlocked(x) ==
    /\ appr[x].at = "unlocking"
    /\ \/ appr[x].over /\ Stop(x)
       \/ /\ ~appr[x].over
          /\ \E at \in {"confirm", "naming"} : appr' = [appr EXCEPT ![x].at = at]
    /\ UNCHANGED <<storeVars, named, join, record, lock, wipes, posted, typed, faults>>

\* Mutant: the session's name is not captured before grant-put.
NameWritten_Not(x) == named

\* addDevice captures the name before the best-effort reconcile it then awaits.
NameWritten(x) == named \cup {appr[x].arrived}

\* Mutant: the session is not looked at again after the wait for addDevice.
StillLive_NotChecked(x) == TRUE

\* #live after the last wait: K is still there.
StillLive(x) == ~appr[x].over

\* The name is in the master map; grant-put is sent if the session is still live.
Name(x) ==
    /\ appr[x].at = "naming"
    /\ named' = NameWritten(x)
    /\ IF StillLive(x) THEN appr' = [appr EXCEPT ![x].at = "granting"] ELSE Stop(x)
    /\ UNCHANGED <<storeVars, join, record, lock, wipes, posted, typed, faults>>

\* The relay accepts grant-put.
GrantAccepted(x) ==
    LET d == appr[x].arrived
    IN /\ AwaitsGrant(x, Approver) /\ EnrollmentOK(x, d, "owner")
       /\ CheckGrant("owner", IF status[d] = "none" THEN "active" ELSE status[d], Grants)

\* grant-put enrolls the request signer and stores the grant, or is refused; whatever the
\* answer, approve ends the session, and "added" is shown only to a screen still there.
ServeGrant(x) ==
    /\ appr[x].at = "granting"
    /\ IF GrantAccepted(x) THEN CompletePairing(x, Approver, appr[x].arrived, "owner", Grants)
                           ELSE UNCHANGED storeVars
    /\ IF GrantAccepted(x) /\ ~appr[x].over
       THEN appr' = [appr EXCEPT ![x].at = "added", ![x].over = TRUE]
       ELSE Stop(x)
    /\ UNCHANGED <<named, join, record, lock, wipes, posted, typed, faults>>

\* abandon: Cancel, a lock, or the flow unmounted; an await in flight goes on without it.
Abandon(x) ==
    /\ Current(x)
    /\ IF appr[x].at \in ApproveWait THEN appr' = [appr EXCEPT ![x].over = TRUE] ELSE Stop(x)
    /\ UNCHANGED <<storeVars, named, join, record, lock, wipes, posted, typed, faults>>

-----------------------------------------------------------------------------
(* The new device: B1 - B4 *)

\* Keys no device has, no run made and no mailbox saw.
FreshKeys == {d \in Device : /\ status[d] = "none"
                             /\ \A x \in Sid : posted[x] = None \/ posted[x].key # d
                             /\ \A p \in Profile : join[p].key # d /\ (record[p] = None \/ record[p].key # d)}

\* JoinStepView: only the scanner (scan) and an ended pairing take a new code; while a
\* passkey is saved, a code shown or a grant stored there is nothing to press.
TakesCode(p) == join[p] = NoJoin

\* begin, setLabel, createPasskey: the square code on the trusted device's screen is scanned,
\* the device named, and the setup lock taken for as long as the run lives.
Begin(p, x, label) ==
    /\ TakesCode(p) /\ record[p] = None /\ wipes[p] = "none" /\ ~lock[p]
    /\ appr[x].at = "show" /\ ~appr[x].over
    /\ now + PairingTTL <= MaxNow
    /\ lock' = [lock EXCEPT ![p] = TRUE]
    /\ join' = [join EXCEPT ![p] =
          [NoJoin EXCEPT !.at = "passkey", !.sid = x, !.label = label, !.startedAt = now]]
    /\ UNCHANGED <<storeVars, appr, named, record, wipes, posted, typed, faults>>

\* sealVault: keys, vault and a record at `pairing'.  The matching code is put on screen,
\* and only then, from an effect, postRequest sends the request: at most once per run.
SealVault(p, d) ==
    /\ join[p].at = "passkey"
    /\ record[p] = None
    /\ d \in FreshKeys
    /\ record' = [record EXCEPT ![p] =
          [key |-> d, label |-> join[p].label, stage |-> "pairing", grant |-> None]]
    /\ join' = [join EXCEPT ![p].at = "posting", ![p].key = d]
    /\ UNCHANGED <<storeVars, appr, named, lock, wipes, posted, typed, faults>>

\* discard: the run is over; a record it made is wiped before the setup lock is released.
Discard(p) ==
    /\ join' = [join EXCEPT ![p] = NoJoin]
    /\ wipes' = IF ~join[p].over /\ join[p].key # None THEN [wipes EXCEPT ![p] = "discard"] ELSE wipes
    /\ lock' = IF ~join[p].over /\ join[p].key = None THEN [lock EXCEPT ![p] = FALSE] ELSE lock

\* The relay accepts request-put.
PostAccepted(x, d) == IsOpen(x) /\ RequestSlotFree(x) /\ pairings[x].opener # d /\ status[d] # "revoked"

RelayTakesPost(p) ==
    /\ PutPairingRequest(join[p].sid, join[p].key)
    /\ posted' = [posted EXCEPT ![join[p].sid] = [key |-> join[p].key, label |-> join[p].label]]

\* request-put: stored, or refused as taken, expired or unknown, which discards the device.
ServePost(p) ==
    /\ join[p].at = "posting"
    /\ LET accepted == PostAccepted(join[p].sid, join[p].key)
       IN /\ IF accepted THEN RelayTakesPost(p) ELSE UNCHANGED <<storeVars, posted>>
          /\ IF accepted /\ ~join[p].over
             THEN join' = [join EXCEPT ![p].at = "waiting"] /\ UNCHANGED <<lock, wipes>>
             ELSE Discard(p)
    /\ UNCHANGED <<appr, named, record, typed, faults>>

\* Mutant: a run that waits past the session's time is not discarded.
RunExpired_Never(p) == FALSE

RunExpired(p) == now - join[p].startedAt >= PairingTTL

\* poll, every POLL_MS: past the session's 10 minutes the device is discarded.
PollGrant(p) ==
    /\ join[p].at = "waiting" /\ ~join[p].over
    /\ IF RunExpired(p) THEN Discard(p)
       ELSE join' = [join EXCEPT ![p].at = "taking"] /\ UNCHANGED <<lock, wipes>>
    /\ UNCHANGED <<storeVars, appr, named, record, posted, typed, faults>>

\* grant-get: the answer that carries the grant deletes the session at the relay.  A run
\* discarded meanwhile throws the grant away, and so does a para's device.
ServeTake(p) ==
    /\ join[p].at = "taking"
    /\ LET x == join[p].sid
           d == join[p].key
           there == IsOpen(x) /\ pairings[x].granted /\ pairings[x].signer = d /\ status[d] = "active"
       IN /\ IF there THEN TakePairingGrant(x, d) ELSE UNCHANGED storeVars
          /\ CASE join[p].over \/ (there /\ join[p].label # "teacher") -> Discard(p)
               [] ~join[p].over /\ ~there ->
                    join' = [join EXCEPT ![p].at = "waiting"] /\ UNCHANGED <<lock, wipes>>
               [] OTHER -> join' = [join EXCEPT ![p].at = "storing"] /\ UNCHANGED <<lock, wipes>>
    /\ UNCHANGED <<appr, named, record, posted, typed, faults>>

\* Mutant: the stage is written in a first write, the grant in a later one.
Paired_StageFirst(rec) == [rec EXCEPT !.stage = "done"]

\* The record storePairedGrant writes: the grant and stage done, in one write.
Paired(rec) == [rec EXCEPT !.stage = "done", !.grant = Master]

\* storePairedGrant's transaction; without a record it throws, and the run is discarded.
StoreGrant(p) ==
    /\ join[p].at = "storing"
    /\ CASE record[p] = None -> Discard(p) /\ UNCHANGED record
         [] record[p] # None /\ join[p].over ->
              /\ record' = [record EXCEPT ![p] = Paired(@)]
              /\ join' = [join EXCEPT ![p] = NoJoin]
              /\ UNCHANGED <<lock, wipes>>
         [] OTHER ->
              /\ record' = [record EXCEPT ![p] = Paired(@)]
              /\ join' = [join EXCEPT ![p] = [NoJoin EXCEPT !.at = "done", !.over = TRUE]]
              /\ lock' = [lock EXCEPT ![p] = FALSE]
              /\ UNCHANGED wipes
    /\ UNCHANGED <<storeVars, appr, named, posted, typed, faults>>

\* The App locks the new device (or she goes back): what it made is discarded.
LockJoin(p) ==
    /\ join[p] # NoJoin /\ ~join[p].over
    /\ IF join[p].at \in JoinWait
       THEN /\ join' = [join EXCEPT ![p].over = TRUE]
            /\ wipes' = [wipes EXCEPT ![p] = "discard"]
            /\ UNCHANGED lock
       ELSE Discard(p)
    /\ UNCHANGED <<storeVars, appr, named, record, posted, typed, faults>>

\* The wipe discard awaits.  Transactions on the record run in the order they were
\* begun, so one of storePairedGrant's that is under way commits first.
WipeDiscarded(p) ==
    /\ wipes[p] = "discard" /\ join[p].at # "storing"
    /\ record' = [record EXCEPT ![p] = None]
    /\ wipes' = [wipes EXCEPT ![p] = "none"]
    /\ lock' = [lock EXCEPT ![p] = FALSE]
    /\ UNCHANGED <<storeVars, appr, named, join, posted, typed, faults>>

\* The window closes or crashes: its lock is released, its wipe is lost, a request it
\* sent may still be served.
CloseJoin(p) ==
    /\ join[p] # NoJoin \/ wipes[p] = "discard"
    /\ \/ join' = [join EXCEPT ![p] = NoJoin]
       \/ join[p].at \in JoinWait /\ join' = [join EXCEPT ![p].over = TRUE]
    /\ lock' = [lock EXCEPT ![p] = FALSE]
    /\ wipes' = [wipes EXCEPT ![p] = IF @ = "discard" THEN "none" ELSE @]
    /\ UNCHANGED <<storeVars, appr, named, record, posted, typed, faults>>

\* Mutant: the status read does not ask whether a window holds the setup lock.
Abandoned_LockIgnored(p) == record[p] # None /\ record[p].stage = "pairing"

\* A record at `pairing' that no window is running.
Abandoned(p) == record[p] # None /\ record[p].stage = "pairing" /\ ~lock[p]

\* readDeviceStatus, on opening the app and after a lock: such a record is to be wiped.
\* A pairing begun after the read takes two passkey ceremonies to write its record, so it
\* does not overtake the wipe: Begin waits for it.
StatusRead(p) ==
    /\ wipes[p] = "none" /\ Abandoned(p)
    /\ wipes' = [wipes EXCEPT ![p] = "status"]
    /\ UNCHANGED <<storeVars, appr, named, join, record, lock, posted, typed, faults>>

StatusWipe(p) ==
    /\ wipes[p] = "status"
    /\ record' = [record EXCEPT ![p] = None]
    /\ wipes' = [wipes EXCEPT ![p] = "none"]
    /\ UNCHANGED <<storeVars, appr, named, join, lock, posted, typed, faults>>

-----------------------------------------------------------------------------
(* The network and the rest of the deployment *)

\* No definite answer: the request never arrived, or it was served and its answer got
\* lost.  Both polls ask again and B keeps waiting; the approver's flow ends.
LoseApprover(x) ==
    /\ appr[x].at \in {"opening", "reading", "granting"}
    /\ faults < MaxFaults
    /\ faults' = faults + 1
    /\ \/ UNCHANGED storeVars
       \/ appr[x].at = "opening" /\ OpenPairing(x, Approver)
       \/ appr[x].at = "granting" /\ CompletePairing(x, Approver, appr[x].arrived, "owner", Grants)
    /\ IF appr[x].at = "reading" /\ ~appr[x].over
       THEN appr' = [appr EXCEPT ![x].at = "show"] ELSE Stop(x)
    /\ UNCHANGED <<named, join, record, lock, wipes, posted, typed>>

LoseJoin(p) ==
    /\ join[p].at \in {"posting", "taking"}
    /\ faults < MaxFaults
    /\ faults' = faults + 1
    /\ \/ UNCHANGED <<storeVars, posted>>
       \/ join[p].at = "posting" /\ RelayTakesPost(p)
       \/ join[p].at = "taking" /\ TakePairingGrant(join[p].sid, join[p].key) /\ UNCHANGED posted
    /\ join' = [join EXCEPT ![p] = IF @.over THEN NoJoin ELSE [@ EXCEPT !.at = "waiting"]]
    /\ UNCHANGED <<appr, named, record, lock, wipes, typed>>

\* Another owner's revocations, the sweep any control request starts with, and time.
Elsewhere ==
    /\ (\E d \in Device : Revoke(d)) \/ SweepExpired \/ Tick
    /\ UNCHANGED pairVars

Approving(x) ==
    \/ Open(x) \/ ServeOpen(x) \/ PollRequest(x) \/ ServeRead(x)
    \/ \E d \in Shown \cup {None} : CheckCode(x, d)
    \/ Approve(x) \/ Unlocked(x) \/ Name(x) \/ ServeGrant(x)
    \/ Abandon(x) \/ LoseApprover(x)

Joining(p) ==
    \/ \E x \in Sid, label \in Label : Begin(p, x, label)
    \/ \E d \in Device : SealVault(p, d)
    \/ ServePost(p) \/ PollGrant(p) \/ ServeTake(p)
    \/ StoreGrant(p) \/ LockJoin(p) \/ WipeDiscarded(p) \/ CloseJoin(p)
    \/ StatusRead(p) \/ StatusWipe(p) \/ LoseJoin(p)

PairingNext == (\E x \in Sid : Approving(x)) \/ (\E p \in Profile : Joining(p)) \/ Elsewhere

PairingSpec == PairingInit /\ [][PairingNext]_vars

\* Timers, the relay and IndexedDB are served; the app is opened again some day.  Only the
\* watched profile and the clock are fair: everyone else may stop at any point.
Progress(p) ==
    \/ ServePost(p) \/ PollGrant(p) \/ ServeTake(p)
    \/ StoreGrant(p) \/ WipeDiscarded(p) \/ StatusRead(p) \/ StatusWipe(p)

PairingFairSpec ==
    /\ PairingSpec
    /\ WF_vars(Tick /\ UNCHANGED pairVars)
    /\ WF_vars(Progress(Watched))

-----------------------------------------------------------------------------
(* Properties *)

(***************************************************************************)
(* #grant's order (the name goes in BEFORE grant-put): whatever lock,      *)
(* lost answer or refusal falls in between, a device the relay enrolls has *)
(* its name in the master `devices` map.                                   *)
(***************************************************************************)
EnrolledIsNamed == \A d \in Device : status[d] # "none" => d \in named

(***************************************************************************)
(* The matching code (spec A-4; checkCode, #grant, first write wins at the *)
(* relay): a key gets a grant only if she typed the code that key's own    *)
(* device showed her, in this session, before MATCH_TRIES misses, and its  *)
(* name is a teacher's -- whoever else scanned the same square code.       *)
(***************************************************************************)
OnlyWhatSheTyped ==
    \A x \in Sid : pairings[x] # NoSession /\ pairings[x].granted =>
        /\ pairings[x].signer \in typed[x]
        /\ appr[x].misses < MATCH_TRIES
        /\ posted[x].label = "teacher"

(***************************************************************************)
(* storePairedGrant (one record write): a device whose record says done    *)
(* holds the master's grant, and its key was enrolled as an owner.         *)
(***************************************************************************)
DoneHoldsTheGrant ==
    \A p \in Profile : record[p] # None /\ record[p].stage = "done" =>
        /\ record[p].grant = Master
        /\ role[record[p].key] = "owner"
        /\ status[record[p].key] = "active" => Master \in acl[record[p].key]

(***************************************************************************)
(* The setup lock (readDeviceStatus, discard): as long as a joining run is *)
(* live, its record is there and is its own -- no status read in another   *)
(* window, and no wipe of an earlier run, takes it away.                   *)
(***************************************************************************)
LiveJoinKeepsItsRecord ==
    \A p \in Profile : join[p].key # None /\ ~join[p].over =>
        record[p] # None /\ record[p].key = join[p].key

(***************************************************************************)
(* #live after every wait: a session that was abandoned before grant-put   *)
(* was sent never sends it.                                                *)
(***************************************************************************)
NothingSentAfterALock ==
    [][\A x \in Sid : appr[x].over /\ appr[x].at # "granting" => appr'[x].at # "granting"]_vars

(***************************************************************************)
(* The 10 minutes, discard and the status read: a half-made device never   *)
(* stays.  Whatever was lost, locked, closed or never approved -- the      *)
(* answer that carried the grant included -- its record is gone or done,   *)
(* even if no other profile ever takes another step.                       *)
(***************************************************************************)
HalfMadeGoes ==
    LET rec == record[Watched]
    IN (rec # None /\ rec.stage = "pairing") ~> (rec = None \/ rec.stage = "done")
=============================================================================
