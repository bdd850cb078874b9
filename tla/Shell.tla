--------------------------------- MODULE Shell ---------------------------------
(***************************************************************************)
(* The app in one window, from opening it to the lock and back             *)
(* (apps/pwa/src/App.tsx): the device status, the unlock ceremony and its  *)
(* backoff (device/vault.ts), the opening of the session, the auto-lock    *)
(* that guards it, and the lock that may land between any two awaits.      *)
(* First setup and pairing appear only where they hand the device over.    *)
(* Assumed: while an unlock runs its user starts nothing else (Quiet), and *)
(* a passkey prompt takes longer than a read or a wipe of the record.      *)
(***************************************************************************)
EXTENDS AutoLock, FiniteSets

CONSTANTS
    FreeTries, BaseWait, CapWait,  \* BACKOFF_FREE_TRIES, _BASE_MS, _CAP_MS
    Handles,                       \* unlocked devices in memory, ids reused
    MaxTries, MaxClock, MaxJobs    \* model bounds

NoHandle == 0

ASSUME ShellAssumption ==
    /\ FreeTries \in Nat /\ BaseWait \in Nat \ {0} /\ CapWait \in Nat \ {0}
    /\ NoHandle \notin Handles
    /\ MaxTries \in Nat /\ MaxClock \in Nat /\ MaxJobs \in Nat

VARIABLES
    screen,      \* App's phase
    record,      \* the stored DeviceRecord
    elsewhere,   \* another window holds the setup lock: it pairs this device
    join,        \* joinRef is set: this window pairs this device
    wiping,      \* pendingWipeRef: "no", or what began it, "lock" or "leave"
    reading,     \* the status effect has not answered yet
    ceremony,    \* the unlock that runs
    device,      \* deviceRef
    live,        \* handles whose keys are not zeroized
    deviceOpen,
    session,     \* sessionsRef is set
    jobs,        \* afterUnlock and openSession, between their awaits
    clock,       \* Date.now(), in backoff units
    answered,    \* history: wrong passphrases answered since the last unlock
    waited       \* history: time since the last of them was begun

keys == <<device, live, deviceOpen, session>>
disk == <<record, elsewhere>>
pace == <<clock, answered, waited>>
app == <<screen, disk, join, wiping, reading, ceremony, keys, jobs, pace>>
shellVars == <<vars, app>>

None == [none |-> TRUE]
Stages == {"pairing", "keys", "redeemed", "done"}
Tiers == {"prf", "passphrase"}
Screens == {"loading", "locked", "unlocking", "busy", "setup", "pairing", "ready"}
Records == [tier : Tiers, stage : Stages, count : Nat, lastAt : Nat]
Ceremonies ==
    [step : {"load", "gesture", "open"}, tier : Tiers, now : Nat, took : 0 .. CapWait]
Jobs == [h : Handles \cup {NoHandle}, step : {"status", "vault", "opened"}, stale : BOOLEAN]

ShellTypeOK ==
    /\ screen \in Screens /\ record \in Records \cup {None}
    /\ wiping \in {"no", "lock", "leave"} /\ ceremony \in Ceremonies \cup {None}
    /\ elsewhere \in BOOLEAN /\ join \in BOOLEAN /\ reading \in BOOLEAN
    /\ deviceOpen \in BOOLEAN /\ session \in BOOLEAN
    /\ device \in Handles \cup {NoHandle} /\ live \subseteq Handles
    /\ jobs \subseteq Jobs
    /\ clock \in Nat /\ answered \in Nat /\ waited \in 0 .. CapWait

NewRecord(tier, stage) == [tier |-> tier, stage |-> stage, count |-> 0, lastAt |-> 0]

\* A freshly built AutoLock; the page counts as visible until a device is open.
FreshAutoLock ==
    /\ now' = 0 /\ lastInput' = 0 /\ hiddenAt' = Off /\ leftAt' = 0
    /\ surface' = "visible"
    /\ idleTimer' = Off /\ warnTimer' = Off /\ hiddenTimer' = Off
    /\ warning' = "clear" /\ phase' = "stopped" /\ events' = 0

ShellInit ==
    /\ LockInit /\ surface = "visible"
    /\ screen = "loading" /\ reading = TRUE
    /\ record \in {None} \cup {NewRecord(t, "done") : t \in Tiers}
    /\ elsewhere = FALSE /\ join = FALSE /\ wiping = "no" /\ ceremony = None
    /\ device = NoHandle /\ live = {} /\ deviceOpen = FALSE /\ session = FALSE
    /\ jobs = {}
    /\ clock = 0 /\ answered = 0 /\ waited = CapWait

\* A vault that is gone takes its wrong tries with it.
Stored(rec) ==
    /\ record' = rec
    /\ answered' = IF rec = None THEN 0 ELSE answered
    /\ UNCHANGED waited

-----------------------------------------------------------------------------
(* The device status.                                                      *)

Stage(s) == record # None /\ record.stage = s

\* readDeviceStatus: what it answers and the record it leaves.
StatusRead(kind, rec) ==
    \/ record = None /\ kind = "none" /\ rec = None
    \/ Stage("pairing") /\ (elsewhere \/ join) /\ kind = "busy" /\ rec = record
    \/ Stage("pairing") /\ ~(elsewhere \/ join) /\ kind = "none" /\ rec = None
    \/ Stage("keys") /\ kind = "none" /\ rec = None  \* the setup code's day is over
    \/ record # None /\ ~Stage("pairing") /\ kind = "enrolled" /\ rec = record
    \/ kind = "unreadable" /\ rec = record

Status(kind) == \E rec \in {None, record} : StatusRead(kind, rec) /\ Stored(rec)

StatusKinds == {"none", "busy", "enrolled", "unreadable"}

\* The effect at open and after every lock; a running unlock keeps its phase.
ReadStatus ==
    /\ reading /\ reading' = FALSE
    /\ wiping = "no"
    /\ \E kind \in StatusKinds :
         /\ Status(kind)
         /\ screen' = CASE kind = "none" -> "setup"
                        [] kind = "busy" -> "busy"
                        [] OTHER -> IF screen = "loading" THEN "locked" ELSE screen
    /\ UNCHANGED <<vars, elsewhere, join, wiping, ceremony, keys, jobs, clock>>

\* BusyScreen's "Try again".
BusyRetry ==
    /\ screen = "busy" /\ screen' = "loading" /\ reading' = TRUE
    /\ UNCHANGED <<vars, disk, join, wiping, ceremony, keys, jobs, pace>>

-----------------------------------------------------------------------------
(* The unlock ceremony.                                                    *)

\* unlockBackoffMs
Backoff(count) ==
    IF count <= FreeTries THEN 0
    ELSE LET wait == BaseWait * 2 ^ (count - FreeTries - 1)
         IN  IF wait < CapWait THEN wait ELSE CapWait

LockScreenShown ==
    \/ screen \in {"loading", "locked"}
    \/ screen = "pairing" /\ wiping = "leave" /\ ~join

\* No unlock is running, none has handed its device to a step that still runs.
Quiet == ceremony = None /\ \A j \in jobs : j.stale

\* unlock(), up to unlockOnce's read of the record.
Unlock ==
    /\ LockScreenShown /\ Quiet /\ phase = "stopped"
    /\ Cardinality(jobs) < MaxJobs
    /\ screen' = "unlocking"
    /\ ceremony' = [step |-> "load", tier |-> "prf", now |-> 0, took |-> 0]
    /\ UNCHANGED <<vars, disk, join, wiping, reading, keys, jobs, pace>>

\* A rejected unlock() shows the lock screen and why.
Rejected == ceremony' = None /\ screen' = "locked"

TurnedBack == record.count > 0 /\ clock < record.lastAt
Remaining == Backoff(record.count) - (IF TurnedBack THEN 0 ELSE clock - record.lastAt)

\* Mutant: a clock that was turned back ends the wait.
EnforceBackoff_Forgives ==
    /\ \/ record.tier = "prf" \/ record.count = 0
       \/ TurnedBack \/ Remaining <= 0
    /\ UNCHANGED record

\* enforceBackoff lets the try through; a clock turned back restarts the wait.
EnforceBackoff ==
    /\ record.tier = "prf" \/ record.count = 0 \/ Remaining <= 0
    /\ record' = IF record.tier = "passphrase" /\ TurnedBack
                 THEN [record EXCEPT !.lastAt = clock] ELSE record

\* enforceBackoff throws UnlockBackoffError.
BackoffRefuses ==
    /\ record.tier = "passphrase" /\ record.count > 0 /\ Remaining > 0
    /\ record' = IF TurnedBack THEN [record EXCEPT !.lastAt = clock] ELSE record

\* unlockOnce: the record, the backoff, then the passkey is asked for.
LoadRecord ==
    /\ ceremony # None /\ ceremony.step = "load"
    /\ \/ Rejected /\ UNCHANGED record  \* no record, or unreadable
       \/ record # None /\ BackoffRefuses /\ Rejected
       \/ /\ record # None /\ EnforceBackoff
          /\ ceremony' = [step |-> "gesture", tier |-> record.tier, now |-> clock, took |-> 0]
          /\ UNCHANGED screen
    /\ UNCHANGED <<vars, elsewhere, join, wiping, reading, keys, jobs, pace>>

\* A person acts on a prompt or a screen after the reads behind it have answered.
Settled == ~reading /\ wiping = "no"

\* passkey.assert
Gesture ==
    /\ ceremony # None /\ ceremony.step = "gesture" /\ Settled
    /\ \/ Rejected
       \/ ceremony' = [ceremony EXCEPT !.step = "open"] /\ UNCHANGED screen
    /\ UNCHANGED <<vars, disk, join, wiping, reading, keys, jobs, pace>>

\* A new unlocked device h reaches the App, and with it the auto-lock.  No wrong
\* try is counted any more: the wall clock may as well start from 0.
Held(h) ==
    /\ clock' = 0
    /\ h \notin live \cup {device} \cup {j.h : j \in jobs}
    /\ live' = live \cup {h} /\ device' = h /\ deviceOpen' = TRUE

Opening == ceremony # None /\ ceremony.step = "open"

\* Mutant: the failure stamps the record but is not added to the ones before.
WrongPassphrase_One ==
    /\ Opening /\ ceremony.tier = "passphrase" /\ record # None
    /\ record.count < MaxTries
    /\ record' = [record EXCEPT !.count = 1, !.lastAt = ceremony.now]
    /\ answered' = answered + 1 /\ waited' = ceremony.took
    /\ Rejected
    /\ UNCHANGED <<vars, elsewhere, join, wiping, reading, keys, jobs, clock>>

\* openTierW with a wrong or unacceptable passphrase: recordFailure, then the answer.
WrongPassphrase ==
    /\ Opening /\ ceremony.tier = "passphrase" /\ record # None
    /\ record.count < MaxTries
    /\ record' = [record EXCEPT !.count = @ + 1, !.lastAt = ceremony.now]
    /\ answered' = answered + 1 /\ waited' = ceremony.took
    /\ Rejected
    /\ UNCHANGED <<vars, elsewhere, join, wiping, reading, keys, jobs, clock>>

\* No PRF output, no passphrase, a vault that does not open, a failed write.
CannotUnlock ==
    /\ Opening
    /\ Rejected
    /\ UNCHANGED <<vars, disk, join, wiping, reading, keys, jobs, pace>>

\* The vault opens; clearFailures; the App takes the device and calls afterUnlock.
Unlocked ==
    /\ Opening /\ ceremony' = None
    /\ \E h \in Handles :
         /\ Held(h)
         /\ jobs' = jobs \cup {[h |-> h, step |-> "status", stale |-> FALSE]}
    /\ IF ceremony.tier = "passphrase" /\ record # None
       THEN record' = [record EXCEPT !.count = 0, !.lastAt = 0]
            /\ answered' = 0 /\ waited' = CapWait
       ELSE UNCHANGED <<record, answered, waited>>
    /\ UNCHANGED <<vars, screen, elsewhere, join, wiping, reading, session>>

-----------------------------------------------------------------------------
(* Opening the session.                                                    *)

\* The App gives up the device: handle.lock(), deviceRef, deviceOpen.
Drop(h) == live' = live \ {h} /\ device' = NoHandle /\ deviceOpen' = FALSE

\* afterUnlock, once the status answers.
AfterUnlock(j) ==
    /\ j.step = "status"
    /\ \E kind \in StatusKinds :
         /\ Status(kind)
         /\ IF j.stale
            THEN jobs' = jobs \ {j} /\ UNCHANGED <<screen, keys>>
            ELSE /\ UNCHANGED session
                 /\ IF kind = "enrolled"
                    THEN /\ UNCHANGED <<device, live, deviceOpen>>
                         /\ IF record.stage = "done"
                            THEN jobs' = (jobs \ {j}) \cup {[j EXCEPT !.step = "vault"]}
                                 /\ UNCHANGED screen
                            ELSE jobs' = jobs \ {j} /\ screen' = "setup"
                    ELSE /\ jobs' = jobs \ {j} /\ Drop(j.h)
                         /\ screen' = CASE kind = "none" -> "setup"
                                        [] kind = "busy" -> "busy"
                                        [] OTHER -> "locked"
    /\ UNCHANGED <<vars, elsewhere, join, wiping, reading, ceremony, clock>>

\* teacherVault and bootstrap: from here the job holds an open session.
OpenVault(j) ==
    /\ j.step = "vault"
    /\ jobs' = (jobs \ {j}) \cup {[j EXCEPT !.step = "opened"]}
    /\ UNCHANGED <<vars, screen, disk, join, wiping, reading, ceremony, keys, pace>>

\* openSession's catch: what was opened is locked, and the App only when no lock came first.
OpenFails(j) ==
    /\ j.step \in {"vault", "opened"}
    /\ jobs' = jobs \ {j}
    /\ IF j.stale THEN live' = live \ {j.h} /\ UNCHANGED <<screen, device, deviceOpen>>
                  ELSE Drop(j.h) /\ screen' = "locked"
    /\ UNCHANGED <<vars, disk, join, wiping, reading, ceremony, session, pace>>

\* Mutant: the session is shown whether or not a lock came in between.
SessionOpens_Late(j) ==
    /\ j.step = "opened"
    /\ jobs' = jobs \ {j}
    /\ session' = TRUE /\ screen' = "ready"
    /\ UNCHANGED <<vars, disk, join, wiping, reading, ceremony, device, live, deviceOpen, pace>>

\* The last await of openSession is over.
SessionOpens(j) ==
    /\ j.step = "opened"
    /\ jobs' = jobs \ {j}
    /\ IF j.stale THEN UNCHANGED <<session, screen>>
                  ELSE session' = TRUE /\ screen' = "ready"
    /\ UNCHANGED <<vars, disk, join, wiping, reading, ceremony, device, live, deviceOpen, pace>>

OpenSession(h) ==
    /\ Cardinality(jobs) < MaxJobs
    /\ jobs' = jobs \cup {[h |-> h, step |-> "vault", stale |-> FALSE]}

-----------------------------------------------------------------------------
(* First setup and pairing, where they hand the device over.               *)

MaySeal == device = NoHandle /\ Quiet /\ Settled /\ phase = "stopped"

SealSetup ==
    /\ screen = "setup" /\ record = None /\ MaySeal
    /\ \E t \in Tiers : record' = NewRecord(t, "keys")
    /\ \E h \in Handles : Held(h)
    /\ UNCHANGED <<vars, screen, elsewhere, join, wiping, reading, ceremony, session, jobs,
                   answered, waited>>

\* The stages from the redeemed code to the confirmed recovery code.
MoveSetup ==
    /\ screen = "setup" /\ device \in live
    /\ Stage("keys") \/ Stage("redeemed")
    /\ record' = [record EXCEPT !.stage = IF @ = "keys" THEN "redeemed" ELSE "done"]
    /\ UNCHANGED <<vars, screen, elsewhere, join, wiping, reading, ceremony, keys, jobs, pace>>

\* SetupFlow's onDone
SetupDone ==
    /\ screen = "setup" /\ device \in live /\ Stage("done") /\ Quiet
    /\ screen' = "unlocking"
    /\ OpenSession(device)
    /\ UNCHANGED <<vars, disk, join, wiping, reading, ceremony, keys, pace>>

StartPairing ==
    /\ screen = "setup" /\ device = NoHandle /\ Quiet /\ Settled
    /\ screen' = "pairing" /\ join' = TRUE
    /\ UNCHANGED <<vars, disk, wiping, reading, ceremony, keys, jobs, pace>>

SealPairing ==
    /\ screen = "pairing" /\ join /\ record = None /\ MaySeal
    /\ \E t \in Tiers : record' = NewRecord(t, "pairing")
    /\ \E h \in Handles : Held(h)
    /\ UNCHANGED <<vars, screen, elsewhere, join, wiping, reading, ceremony, session, jobs,
                   answered, waited>>

\* JoinFlow's onDone: the last pairing screen stays until the session is open.
PairingDone ==
    /\ screen = "pairing" /\ join /\ device \in live /\ Stage("pairing") /\ Quiet
    /\ record' = [record EXCEPT !.stage = "done"]
    /\ join' = FALSE
    /\ OpenSession(device)
    /\ UNCHANGED <<vars, screen, elsewhere, wiping, reading, ceremony, keys, pace>>

LeavePairing ==
    /\ screen = "pairing" /\ join /\ Quiet
    /\ join' = FALSE
    /\ Drop(device)
    /\ wiping' = "leave"
    /\ UNCHANGED <<vars, screen, disk, reading, ceremony, session, jobs, pace>>

\* PairingJoin.discard has wiped what it made, or failed to; leavePairing then starts over.
Wiped ==
    /\ wiping # "no" /\ wiping' = "no"
    /\ \/ Stored(record)
       \/ Stage("pairing") /\ ~elsewhere /\ Stored(None)
    /\ screen' = IF wiping = "leave" THEN "setup" ELSE screen
    /\ UNCHANGED <<vars, elsewhere, join, reading, ceremony, keys, jobs, clock>>

\* Another window pairs this device, and finishes, discards it or is closed.
ElsewherePairs ==
    /\ record = None /\ ~join /\ wiping = "no" /\ elsewhere' = TRUE
    /\ \E t \in Tiers : record' = NewRecord(t, "pairing")
    /\ UNCHANGED <<vars, screen, join, wiping, reading, ceremony, keys, jobs, pace>>

ElsewhereEnds ==
    /\ elsewhere /\ elsewhere' = FALSE
    /\ Stage("pairing")
    /\ \/ Stored(record) \/ Stored(None)
       \/ Stored([record EXCEPT !.stage = "done"])
    /\ UNCHANGED <<vars, screen, join, wiping, reading, ceremony, keys, jobs, clock>>

-----------------------------------------------------------------------------
(* The lock.                                                               *)

\* lock(): every async step that began before it is stale from here on, and the
\* device it was given is locked with deviceRef.
AppLock ==
    /\ jobs' = {[j EXCEPT !.stale = TRUE, !.h = NoHandle] : j \in jobs}
    /\ Drop(device) /\ session' = FALSE
    /\ join' = FALSE /\ wiping' = IF join THEN "lock" ELSE wiping
    /\ screen' = "locked" /\ reading' = TRUE
    /\ UNCHANGED <<disk, ceremony, pace>>

\* onLock is called in the step that locks the AutoLock.
Told == IF phase' # phase THEN AppLock ELSE UNCHANGED app

\* The effect on deviceOpen starts an AutoLock, its cleanup stops it.
GuardStarts == deviceOpen /\ Start /\ UNCHANGED app

GuardStops ==
    /\ ~deviceOpen /\ phase # "stopped"
    /\ FreshAutoLock /\ UNCHANGED app

\* The Lock button: through the AutoLock once it is there.
LockButton ==
    /\ screen = "ready"
    /\ IF Listening THEN LockNow ELSE UNCHANGED vars
    /\ AppLock

UserInput == OnInput /\ Told
\* Before the AutoLock starts, the page may be hidden once (the event Start needs is kept).
PageHidden == deviceOpen /\ (Listening \/ events = 0) /\ Hide /\ Told
PageShown == Listening /\ Show /\ Told
IdleDue == OnIdleDue /\ Told
WarnDue == OnWarnDue /\ Told
HiddenDue == OnHiddenDue /\ Told
TimePasses == Tick /\ Told

\* The wall clock, while a try runs or wrong ones are counted.
ClockRuns ==
    /\ ~deviceOpen
    /\ ceremony # None \/ answered > 0
    /\ clock < MaxClock /\ clock' = clock + 1
    /\ waited' = IF waited < CapWait THEN waited + 1 ELSE waited
    /\ ceremony' = IF ceremony = None \/ ceremony.took = CapWait THEN ceremony
                   ELSE [ceremony EXCEPT !.took = @ + 1]
    /\ UNCHANGED <<vars, screen, disk, join, wiping, reading, keys, jobs, answered>>

ClockTurnedBack ==
    /\ ~deviceOpen /\ clock' \in 0 .. (clock - 1)
    /\ UNCHANGED <<vars, screen, disk, join, wiping, reading, ceremony, keys, jobs,
                   answered, waited>>

\* The page is reloaded, or the app killed and opened again.
Reload ==
    /\ FreshAutoLock
    /\ screen' = "loading" /\ reading' = TRUE
    /\ join' = FALSE /\ wiping' = "no" /\ ceremony' = None
    /\ device' = NoHandle /\ live' = {} /\ deviceOpen' = FALSE /\ session' = FALSE
    /\ jobs' = {}
    /\ UNCHANGED <<disk, pace>>

\* lock() flushes its render: the cleanup runs before anything else does.
Flushed == deviceOpen \/ ~Locked

ShellNext ==
    \/ GuardStops
    \/ /\ Flushed
       /\ \/ ReadStatus \/ BusyRetry
          \/ Unlock \/ LoadRecord \/ Gesture \/ WrongPassphrase \/ CannotUnlock \/ Unlocked
          \/ \E j \in jobs : AfterUnlock(j) \/ OpenVault(j) \/ OpenFails(j) \/ SessionOpens(j)
          \/ SealSetup \/ MoveSetup \/ SetupDone
          \/ StartPairing \/ SealPairing \/ PairingDone \/ LeavePairing \/ Wiped
          \/ ElsewherePairs \/ ElsewhereEnds
          \/ GuardStarts \/ LockButton
          \/ UserInput \/ PageHidden \/ PageShown
          \/ IdleDue \/ WarnDue \/ HiddenDue \/ TimePasses
          \/ ClockRuns \/ ClockTurnedBack \/ Reload

\* The effect that starts the AutoLock runs, time passes and the idle timer is served,
\* however late; nothing else is fair.
ShellSpec ==
    /\ ShellInit /\ [][ShellNext]_shellVars
    /\ WF_shellVars(GuardStarts \/ TimePasses \/ IdleDue)

-----------------------------------------------------------------------------
(***************************************************************************)
(* Whatever opens in whatever order - an unlock, a setup, a pairing, a     *)
(* session whose lock came while it was opening -, keys in memory are the  *)
(* App's one device with its auto-lock on, data on screen has both behind  *)
(* it, and only a step that knows it is too late holds anything else.      *)
(***************************************************************************)
KeysAreGuarded ==
    /\ screen = "ready" => session
    /\ session => live # {}
    /\ live # {} => live = {device} /\ deviceOpen /\ ~Locked
    /\ \A j \in jobs : j.stale \/ j.h = device

(***************************************************************************)
(* The waits after wrong passphrases are real: through reloads, a clock    *)
(* that is turned back and tries that take their time, no passphrase is    *)
(* looked at sooner after the last wrong one than their number demands.    *)
(***************************************************************************)
GuessesArePaced ==
    ceremony # None /\ ceremony.step \in {"gesture", "open"} /\ ceremony.tier = "passphrase"
        => waited >= Backoff(answered)

\* A device left open is locked at last, in every phase that has one open:
\* an unlock, a setup, a pairing or the app itself.
LeftOpenIsLocked == deviceOpen ~> ~deviceOpen
===============================================================================
