------------------------------ MODULE FirstSetup ------------------------------
(***************************************************************************)
(* First setup on a teacher device (apps/pwa/src/device/first-setup.ts),   *)
(* composed with the relay's store.  A browser profile keeps ONE device    *)
(* record; a run of FirstSetup lives in a window and in memory only.  A    *)
(* step of a run is what it does between two awaits of the network, of the *)
(* device record or of the document.  A run the App locks goes on with     *)
(* what it awaits: it handles the answer late, or ends once it needs the   *)
(* keys.  Requests and answers may be lost (no answer, 5xx, 401, 429: the  *)
(* client calls all of them `ambiguous'), windows open and close at any    *)
(* time, several of a profile at once, and status reads wipe some records. *)
(* Of the master document the manifest is kept, as it is at rest on the    *)
(* device.  Left out: passkeys and tiers, the text of the names, and the   *)
(* caseload.                                                               *)
(***************************************************************************)
EXTENDS RelayStore

CONSTANTS
    Profile,    \* browser profiles: one device record each
    Slot,       \* runs of a profile that may exist at once (model bound)
    Recovery,   \* recovery codes
    None,       \* no record, holder, tag, code, mode or wrap
    SetupTTL,   \* SETUP_CODE_TTL_MS
    MaxFaults   \* lost requests and answers (model bound)

ASSUME SetupAssumption ==
    /\ None \notin Device \cup Scope \cup Code \cup Slot \cup Recovery
    /\ SetupTTL \in Nat /\ MaxFaults \in Nat

Run == Profile \X Slot
Stage == {"keys_created", "redeemed", "scopes_granted", "recovery_pending", "done"}
Mode == {"first", "recovery"}

\* Where a run stands: a screen, or the request or answer it waits for.
Screen == {"welcome", "wiping", "passkey", "code", "finish", "mint", "manifest", "naming",
           "backup", "shown", "stopped"}
InFinish == {"mint", "manifest", "naming"}
Waiting == {"listing", "listed", "redeeming", "redeem_answer",
            "granting", "grant_answer", "wrapping", "wrap_answer"}

VARIABLES
    record,     \* per profile: the device record, or None
    manifest,   \* per master: the para streams and device names of its document
    holder,     \* per profile: the run that holds the setup lock, or None
    runs,       \* per run: its life and where it stands
    wrap,       \* the relay's recovery wrap: its master, its code, or None
    reported,   \* history: the mode the relay gave each key when it redeemed
    paper,      \* history: per profile, the recovery code she confirmed
    crossed,    \* history: what two runs of one profile have done side by side
    faults      \* requests and answers lost so far

setupVars == <<record, manifest, holder, runs, wrap, reported, paper, crossed, faults>>
vars == <<storeVars, setupVars>>

Record == [key : Device, stage : Stage, mode : Mode \cup {None}, at : Nat,
           grant : Scope \cup {None}]
\* A wrap of a master under a recovery code; late: put for a run the App had locked.
Wrap == [tag : Scope, code : Recovery, late : BOOLEAN]
ASSUME NoneAssumption ==
    None \notin Mode \cup {"refused"} \cup Screen \cup Waiting \cup Record \cup Wrap

SetupTypeOK ==
    /\ StoreTypeOK
    /\ record \in [Profile -> Record \cup {None}]
    /\ manifest \in [Scope -> [streams : SUBSET Scope, devices : SUBSET Device]]
    /\ holder \in [Profile -> Slot \cup {None}]
    /\ runs \in [Run -> [life : {"free", "live", "locked"}, at : Screen \cup Waiting \cup {None},
                         key : Device \cup {None}, tag : Scope \cup {None},
                         code : Code \cup Recovery \cup {None},
                         mode : Mode \cup {None, "refused"}]]
    /\ wrap \in Wrap \cup {None}
    /\ reported \in [Device -> Mode \cup {None}]
    /\ paper \in [Profile -> Recovery \cup {None}]
    /\ crossed \subseteq {"open", "finish", "wipe"}
    /\ faults \in 0 .. MaxFaults

NoRun == [life |-> "free", at |-> None, key |-> None, tag |-> None, code |-> None, mode |-> None]

SetupInit ==
    /\ StoreInit
    /\ record = [p \in Profile |-> None]
    /\ manifest = [s \in Scope |-> [streams |-> {}, devices |-> {}]]
    /\ holder = [p \in Profile |-> None]
    /\ runs = [r \in Run |-> NoRun]
    /\ wrap = None
    /\ reported = [d \in Device |-> None]
    /\ paper = [p \in Profile |-> None]
    /\ crossed = {}
    /\ faults = 0

-----------------------------------------------------------------------------
(* Helpers *)

Live(r, at) == runs[r].life = "live" /\ runs[r].at = at

\* A run that has a record to work on: a live one past its passkey, or a locked one
\* that finish has not let go of.
AtWork(n) == \/ n.life = "live" /\ n.at \notin {"welcome", "passkey"}
             \/ n.life = "locked" /\ n.at \in InFinish

\* The other runs of the profile.
Beside(r) == {q \in Run : q[1] = r[1] /\ q # r}

\* History: a run did it beside another.
Cross(act, beside) == crossed' = IF beside THEN crossed \cup {act} ELSE crossed

\* The run goes on as n; a locked one is over.
GoOn(r, n) == runs' = [runs EXCEPT ![r] = IF @.life = "live" THEN n ELSE NoRun]

\* The run leaves what it was doing for a screen.
Settle(r, screen) ==
    GoOn(r, [NoRun EXCEPT !.life = "live", !.at = screen, !.key = runs[r].key])

\* The run is gone, and the setup lock with it if it held it (end, or the window closed).
Ended(r) ==
    /\ runs' = [runs EXCEPT ![r] = NoRun]
    /\ holder' = [holder EXCEPT ![r[1]] = IF @ = r[2] THEN None ELSE @]

\* DeviceStore.update on an existing record: the stage, the mode and the time.
RecordStage(p, stage, mode) ==
    record' = [record EXCEPT ![p].stage = stage, ![p].mode = mode, ![p].at = now]

\* Mutant: a locked run still writes its stage.
MayWriteStage_Locked(r) == record[r[1]] # None

\* writeStage refuses once the device is locked, and update without a record.
MayWriteStage(r) == runs[r].life = "live" /\ record[r[1]] # None

\* An active owner signed the request (authorizeControl on an owner route).
Authorized(d) == d \in ActiveOwners

\* Mutant: the other owners are not looked at.
InferRedeemMode_MasterOnly(self) ==
    IF \A d \in Device : acl[d] \cap Masters = {} THEN "first" ELSE "recovery"

\* inferRedeemMode over the device list.
InferRedeemMode(self) ==
    IF ActiveOwners \subseteq {self} /\ \A d \in Device : acl[d] \cap Masters = {}
    THEN "first" ELSE "recovery"

FreshKeys == {d \in Device : /\ status[d] = "none"
                             /\ \A p \in Profile : record[p] = None \/ record[p].key # d
                             /\ \A r \in Run : runs[r].key # d}
FreshTags == {s \in Scope : /\ kind[s] = "none"
                            /\ manifest[s].devices = {}
                            /\ \A t \in Scope : s \notin manifest[t].streams
                            /\ \A p \in Profile : record[p] = None \/ record[p].grant # s
                            /\ \A r \in Run : runs[r].tag # s}
FreshRecovery == {c \in Recovery : /\ wrap = None \/ wrap.code # c
                                  /\ \A p \in Profile : paper[p] # c
                                  /\ \A r \in Run : runs[r].code # c}

-----------------------------------------------------------------------------
(* Opening the app: the status read, its wipe, a new run or a resumed one *)

\* The records readDeviceStatus wipes: an expired setup and an interrupted recovery.
ToWipe(rec) ==
    \/ rec.stage = "keys_created" /\ now - rec.at > SetupTTL
    \/ rec.mode = "recovery" /\ rec.stage # "done"

ResumeScreen(stage) ==
    CASE stage = "keys_created" -> "code"
      [] stage = "redeemed" -> "finish"
      [] OTHER -> "backup"

(***************************************************************************)
(* readDeviceStatus: no record starts a new setup, a record to wipe is     *)
(* wiped in a later step, any other unfinished one resumes after unlock.   *)
(* It asks for the setup lock only when a pairing is unfinished.           *)
(***************************************************************************)
ReadDeviceStatus(r) ==
    /\ runs[r].life = "free"
    /\ LET rec == record[r[1]]
           Open(at, key) == runs' = [runs EXCEPT ![r] =
               [NoRun EXCEPT !.life = "live", !.at = at, !.key = key]]
       IN \/ rec = None /\ Open("welcome", None)
          \/ rec # None /\ ToWipe(rec) /\ Open("wiping", None)
          \/ /\ rec # None /\ ~ToWipe(rec) /\ rec.stage # "done"
             /\ Open(ResumeScreen(rec.stage), rec.key)
    /\ Cross("open", \E q \in Beside(r) : AtWork(runs[q]))
    /\ UNCHANGED <<storeVars, record, manifest, holder, wrap, reported, paper, faults>>

\* The wipe deletes whatever record there is by then.
Wipe(r) ==
    /\ Live(r, "wiping")
    /\ record' = [record EXCEPT ![r[1]] = None]
    /\ Settle(r, "welcome")
    /\ Cross("wipe", \E q \in Beside(r) : AtWork(runs[q]))
    /\ UNCHANGED <<storeVars, manifest, holder, wrap, reported, paper, faults>>

\* createPasskey: the setup lock is taken first, and only by one window.
CreatePasskey(r) ==
    /\ Live(r, "welcome")
    /\ holder[r[1]] = None
    /\ holder' = [holder EXCEPT ![r[1]] = r[2]]
    /\ Settle(r, "passkey")
    /\ UNCHANGED <<storeVars, record, manifest, wrap, reported, paper, crossed, faults>>

\* sealVault: fresh keys and the first record; an existing one is never replaced.
SealVault(r, d) ==
    /\ Live(r, "passkey")
    /\ record[r[1]] = None
    /\ d \in FreshKeys
    /\ record' = [record EXCEPT ![r[1]] =
          [key |-> d, stage |-> "keys_created", mode |-> None, at |-> now, grant |-> None]]
    /\ runs' = [runs EXCEPT ![r].at = "code", ![r].key = d]
    /\ UNCHANGED <<storeVars, manifest, holder, wrap, reported, paper, crossed, faults>>

-----------------------------------------------------------------------------
(* redeem *)

\* redeem: the recorded mode if there is one, else the devices/list probe.
Redeem(r) ==
    /\ Live(r, "code")
    /\ LET rec == record[r[1]]
           known == rec # None /\ rec.stage # "keys_created" /\ rec.mode # None
       IN IF known THEN Settle(r, IF rec.mode = "first" THEN "finish" ELSE "stopped")
                   ELSE runs' = [runs EXCEPT ![r].at = "listing"]
    /\ UNCHANGED <<storeVars, record, manifest, holder, wrap, reported, paper, crossed, faults>>

\* devices/list at the relay: the mode the client will infer, None for the 404.
ServeList(r) ==
    /\ runs[r].at = "listing"
    /\ LET d == runs[r].key
           answer == IF Authorized(d) THEN InferRedeemMode(d) ELSE None
       IN runs' = [runs EXCEPT ![r].at = "listed", ![r].mode = answer]
    /\ UNCHANGED <<storeVars, record, manifest, holder, wrap, reported, paper, crossed, faults>>

\* The mode is known: recordStage writes `redeemed' with NO lock check.
LearnMode(r, mode) ==
    IF record[r[1]] = None
    THEN Settle(r, "code") /\ UNCHANGED record
    ELSE /\ RecordStage(r[1], "redeemed", mode)
         /\ Settle(r, IF mode = "first" THEN "finish" ELSE "stopped")

\* The list's answer: 200 settles the mode; after the 404 the code is redeemed,
\* unless the device was locked meanwhile and cannot sign.
TakeList(r) ==
    /\ runs[r].at = "listed"
    /\ \/ runs[r].mode # None /\ LearnMode(r, runs[r].mode)
       \/ /\ runs[r].mode = None /\ runs[r].life = "live"
          /\ \E c \in Code : runs' = [runs EXCEPT ![r].at = "redeeming", ![r].code = c]
          /\ UNCHANGED record
       \/ /\ runs[r].mode = None /\ runs[r].life = "locked"
          /\ Settle(r, "code")
          /\ UNCHANGED record
    /\ UNCHANGED <<storeVars, manifest, holder, wrap, reported, paper, crossed, faults>>

\* redeem at the relay: the code is spent and the mode answered, or it is refused.
ServeRedeem(r) ==
    /\ runs[r].at = "redeeming"
    /\ LET d == runs[r].key
           Answer(mode) == runs' = [runs EXCEPT ![r].at = "redeem_answer",
                                                ![r].code = None, ![r].mode = mode]
       IN \/ /\ RedeemOwnerCode(runs[r].code, d)
             /\ reported' = [reported EXCEPT ![d] = RedeemMode]
             /\ Answer(RedeemMode)
          \/ /\ ~(CodeUsable(runs[r].code) /\ FreshKey(d))
             /\ Answer("refused")
             /\ UNCHANGED <<storeVars, reported>>
    /\ UNCHANGED <<record, manifest, holder, wrap, paper, crossed, faults>>

\* The relay's answer to the redeem; a refused code may be typed again.
TakeRedeem(r) ==
    /\ runs[r].at = "redeem_answer"
    /\ IF runs[r].mode = "refused" THEN Settle(r, "code") /\ UNCHANGED record
                                   ELSE LearnMode(r, runs[r].mode)
    /\ UNCHANGED <<storeVars, manifest, holder, wrap, reported, paper, crossed, faults>>

-----------------------------------------------------------------------------
(* finish: mint once, store the grant, write the manifest, grant to itself *)

\* Mutant: the grant an interrupted run left in the vault is not reused.
StoredGrant_Ignored(rec) == None

StoredGrant(rec) == rec.grant

\* finish reads the stage and the vault's grant.
Finish(r) ==
    /\ Live(r, "finish")
    /\ LET rec == record[r[1]]
           first == rec # None /\ rec.mode = "first"
       IN \/ ~first /\ Settle(r, "code")                   \* throws
          \/ first /\ rec.stage # "redeemed" /\ Settle(r, "backup")
          \/ /\ first /\ rec.stage = "redeemed"
             /\ LET tag == StoredGrant(rec)
                IN runs' = [runs EXCEPT ![r].tag = tag,
                                        ![r].at = IF tag = None THEN "mint" ELSE "manifest"]
    /\ Cross("finish", runs'[r].at \in InFinish
                         /\ \E q \in Beside(r) : runs[q].at \in InFinish)
    /\ UNCHANGED <<storeVars, record, manifest, holder, wrap, reported, paper, faults>>

\* mintFirstDeviceGrant and storeGrant; once locked, boxKeypair throws.
Mint(r, tag) ==
    /\ runs[r].at = "mint"
    /\ IF record[r[1]] = None THEN Settle(r, "code") /\ UNCHANGED record
       ELSE /\ tag \in FreshTags
            /\ record' = [record EXCEPT ![r[1]].grant = tag]
            /\ GoOn(r, [runs[r] EXCEPT !.at = "manifest", !.tag = tag])
    /\ UNCHANGED <<storeVars, manifest, holder, wrap, reported, paper, crossed, faults>>

\* activeStream: setup retires none.
ActiveStreams(tag) == manifest[tag].streams

\* initializeMasterDoc, its first write: a period key and the para stream under it.
\* It has its keyring by then, so a lock does not stop it.
AddStream(r, period) ==
    /\ runs[r].at = "manifest" /\ ActiveStreams(runs[r].tag) = {}
    /\ period \in FreshTags
    /\ manifest' = [manifest EXCEPT ![runs[r].tag].streams = @ \cup {period}]
    /\ runs' = [runs EXCEPT ![r].at = "naming"]
    /\ UNCHANGED <<storeVars, record, holder, wrap, reported, paper, crossed, faults>>

\* Its second write: this device's name.  Then the self-grant is sent, if she has not
\* locked the device by then.
AddDevice(r) ==
    /\ \/ runs[r].at = "naming"
       \/ runs[r].at = "manifest" /\ ActiveStreams(runs[r].tag) # {}
    /\ manifest' = [manifest EXCEPT ![runs[r].tag].devices = @ \cup {runs[r].key}]
    /\ GoOn(r, [runs[r] EXCEPT !.at = "granting"])
    /\ UNCHANGED <<storeVars, record, holder, wrap, reported, paper, crossed, faults>>

\* devices/grant at the relay: accepted, or the 404 or 409 that settles it.
ServeGrant(r) ==
    /\ runs[r].at = "granting"
    /\ LET d == runs[r].key
           grants == {<<runs[r].tag, "master">>}
                       \cup {<<s, "period">> : s \in manifest[runs[r].tag].streams}
       IN \/ /\ Authorized(d)
             /\ GrantScopes(d, grants)
             /\ runs' = [runs EXCEPT ![r].at = "grant_answer"]
          \/ /\ ~(Authorized(d) /\ CheckGrant(role[d], status[d], grants))
             /\ Settle(r, "stopped")
             /\ UNCHANGED storeVars
    /\ UNCHANGED <<record, manifest, holder, wrap, reported, paper, crossed, faults>>

TakeGrant(r) ==
    /\ runs[r].at = "grant_answer"
    /\ IF MayWriteStage(r) THEN RecordStage(r[1], "scopes_granted", "first")
                           ELSE UNCHANGED record
    /\ Settle(r, IF MayWriteStage(r) THEN "backup" ELSE "code")
    /\ UNCHANGED <<storeVars, manifest, holder, wrap, reported, paper, crossed, faults>>

-----------------------------------------------------------------------------
(* The recovery code *)

\* issueRecoveryCode: an earlier code is dropped and the stage written, then the wrap of
\* the vault's grant under a fresh code is sent.
IssueRecoveryCode(r) ==
    /\ Live(r, "backup") \/ Live(r, "shown")
    /\ MayWriteStage(r)
    /\ RecordStage(r[1], "recovery_pending", "first")
    /\ LET tag == record[r[1]].grant
       IN IF tag = None THEN Settle(r, "code")              \* throws
          ELSE \E c \in FreshRecovery :
                  runs' = [runs EXCEPT ![r].at = "wrapping", ![r].tag = tag, ![r].code = c]
    /\ UNCHANGED <<storeVars, manifest, holder, wrap, reported, paper, crossed, faults>>

\* putRecoveryWrap overwrites any earlier wrap, whoever asks and however late.
ServeWrap(r) ==
    /\ runs[r].at = "wrapping"
    /\ IF Authorized(runs[r].key)
       THEN /\ wrap' = [tag |-> runs[r].tag, code |-> runs[r].code,
                        late |-> runs[r].life = "locked"]
            /\ runs' = [runs EXCEPT ![r].at = "wrap_answer", ![r].tag = None]
       ELSE Settle(r, "code") /\ UNCHANGED wrap
    /\ UNCHANGED <<storeVars, record, manifest, holder, reported, paper, crossed, faults>>

\* The code is shown only now; a locked run drops it.
TakeWrap(r) ==
    /\ runs[r].at = "wrap_answer"
    /\ GoOn(r, [runs[r] EXCEPT !.at = "shown"])
    /\ UNCHANGED <<storeVars, record, manifest, holder, wrap, reported, paper, crossed, faults>>

\* confirmRecoveryCode: the code shown is on her paper, setup is done, and the lock is
\* released.
ConfirmRecoveryCode(r) ==
    /\ Live(r, "shown")
    /\ MayWriteStage(r)
    /\ paper' = [paper EXCEPT ![r[1]] = runs[r].code]
    /\ RecordStage(r[1], "done", "first")
    /\ Ended(r)
    /\ UNCHANGED <<storeVars, manifest, wrap, reported, crossed, faults>>

-----------------------------------------------------------------------------
(* The device locks, the window closes, the network loses a message *)

\* Mutant: no answer to the wrap upload counts as the acknowledgement.
ScreenAfterLoss_WrapAcked(at) ==
    IF at \in {"wrapping", "wrap_answer"} THEN "shown" ELSE "code"

\* The connect screen: what failed is tried again from redeem, which sends nothing
\* for a step already recorded.
ScreenAfterLoss(at) == "code"

\* No definite answer: the request never arrived, or its answer got lost.
Ambiguous(r) ==
    /\ runs[r].at \in Waiting
    /\ faults < MaxFaults
    /\ faults' = faults + 1
    /\ Settle(r, ScreenAfterLoss(runs[r].at))
    /\ UNCHANGED <<storeVars, record, manifest, holder, wrap, reported, paper, crossed>>

\* The App locks the device while the run waits for an answer or is inside finish.  A
\* request of a window that closed, or that its client gave up, and that the relay serves
\* later is one of a locked run whose answer nobody takes.
Lock(r) ==
    /\ runs[r].life = "live" /\ runs[r].at \in Waiting \cup InFinish
    /\ runs' = [runs EXCEPT ![r].life = "locked"]
    /\ holder' = [holder EXCEPT ![r[1]] = IF @ = r[2] THEN None ELSE @]
    /\ UNCHANGED <<storeVars, record, manifest, wrap, reported, paper, crossed, faults>>

\* The window closes or crashes, or the App locks with nothing in flight.
Close(r) ==
    /\ runs[r].life # "free"
    /\ Ended(r)
    /\ UNCHANGED <<storeVars, record, manifest, wrap, reported, paper, crossed, faults>>

\* The rest of the deployment: the operator's codes, the sweep any control request
\* starts with, and time (one clock for the relay and the device).
Elsewhere ==
    /\ (\E c \in Code : IssueOwnerCode(c)) \/ SweepExpired \/ Tick
    /\ UNCHANGED setupVars

SetupNext ==
    \/ \E r \in Run :
          \/ ReadDeviceStatus(r) \/ Wipe(r) \/ CreatePasskey(r)
          \/ \E d \in Device : SealVault(r, d)
          \/ Redeem(r) \/ ServeList(r) \/ TakeList(r) \/ ServeRedeem(r) \/ TakeRedeem(r)
          \/ Finish(r) \/ ServeGrant(r) \/ TakeGrant(r)
          \/ \E tag \in Scope : Mint(r, tag) \/ AddStream(r, tag)
          \/ AddDevice(r)
          \/ IssueRecoveryCode(r) \/ ServeWrap(r) \/ TakeWrap(r) \/ ConfirmRecoveryCode(r)
          \/ Ambiguous(r) \/ Lock(r) \/ Close(r)
    \/ Elsewhere

SetupSpec == SetupInit /\ [][SetupNext]_vars

-----------------------------------------------------------------------------
(* Properties *)

\* The master the relay has for a device is the one its vault holds, and the period it has
\* is one that this master's manifest keeps the key of: data under any other key would have
\* a scope that the relay refuses.
VaultIsGranted(p) ==
    record[p] # None =>
        LET granted == acl[record[p].key]
        IN /\ granted \cap Masters \subseteq {record[p].grant}
           /\ \A s \in granted \ Masters :
                 record[p].grant # None /\ s \in manifest[record[p].grant].streams

\* Side by side two windows may resume a setup, but no two runs were inside finish at once,
\* and none wiped the record another was working on.
Apart == crossed \subseteq {"open"}

\* No window resumed or wiped a setup beside one at work on it.
Alone == crossed = {}

(***************************************************************************)
(* Minted once (finish, initializeMasterDoc): whatever was interrupted,    *)
(* locked, retried, resumed in several windows or answered late, what the  *)
(* relay has granted a device is what its vault holds, as long as the runs *)
(* keep apart.                                                             *)
(***************************************************************************)
MasterMatchesVault == Apart => \A p \in Profile : VaultIsGranted(p)

(***************************************************************************)
(* setup-lock.ts: "One setup at a time per browser profile", so however    *)
(* many windows are opened, the vault and the relay agree.  The lock is    *)
(* taken for a new passkey only: two windows that resume a setup mint both.*)
(***************************************************************************)
OneSetupAtATime == \A p \in Profile : VaultIsGranted(p)

(***************************************************************************)
(* A-1 (redeem, inferRedeemMode): when the answer to a redeem is lost and  *)
(* the device list is asked instead, "first" -- the mode that mints a      *)
(* master -- is inferred only by a device the relay itself took as the     *)
(* first owner, whoever else has redeemed a code or minted by then.        *)
(***************************************************************************)
InferredFirstIsFirst ==
    \A r \in Run : runs[r].at = "listed" /\ runs[r].mode = "first"
                      => reported[runs[r].key] = "first"

(***************************************************************************)
(* A-2 (issueRecoveryCode, confirmRecoveryCode): a device whose setup is   *)
(* done holds a master the relay has granted it and holds a wrap of, which *)
(* opens with the code on her paper; its manifest names the device and has *)
(* one stream, which the relay granted too -- no crash between two writes, *)
(* lost answer or late step ends setup with data nobody can recover.  Two  *)
(* things part the paper from the wrap: a second window, and a wrap that   *)
(* was put for a locked run.                                               *)
(***************************************************************************)
DoneIsBackedUp ==
    Apart => \A p \in Profile : record[p] # None /\ record[p].stage = "done" =>
        LET granted == acl[record[p].key]
            master == record[p].grant
        IN /\ master \in granted \cap Masters
           /\ wrap # None /\ wrap.tag = master
           /\ Alone /\ ~wrap.late => wrap.code = paper[p]
           /\ record[p].key \in manifest[master].devices
           /\ Cardinality(manifest[master].streams) = 1
           /\ manifest[master].streams \subseteq granted

(***************************************************************************)
(* first-setup.ts:340: a wrap overwrites "any earlier, unconfirmed one".   *)
(* So with one window the code on her paper opens the relay's wrap.  The   *)
(* put of a run she locked may be served after she has confirmed the code  *)
(* of the next one: what is overwritten is the confirmed wrap.             *)
(***************************************************************************)
ConfirmedCodeOpens ==
    Alone => \A p \in Profile : record[p] # None /\ record[p].stage = "done" =>
                wrap # None /\ wrap.code = paper[p]

StageRank(stage) ==
    CASE stage = "keys_created" -> 0 [] stage = "redeemed" -> 1
      [] stage = "scopes_granted" -> 2 [] stage = "recovery_pending" -> 3 [] OTHER -> 4

(***************************************************************************)
(* writeStage: a late step never moves the stage.  With one window at work *)
(* at a time a record's stage only advances, except to `redeemed', which   *)
(* recordStage writes at any time.                                         *)
(***************************************************************************)
LateStepsMoveNothing ==
    [][\A p \in Profile :
          crossed' = {} /\ record[p] # None /\ record'[p] # None
          /\ record'[p].stage # "redeemed" /\ record'[p].key = record[p].key
          => StageRank(record'[p].stage) >= StageRank(record[p].stage)]_vars
=============================================================================
