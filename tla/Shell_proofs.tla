------------------------------ MODULE Shell_proofs ------------------------------
(***************************************************************************)
(* Proofs about the auto-lock, by itself and in the app that uses it, for  *)
(* every choice of the times, waits and handles and every bound of the     *)
(* model.                                                                  *)
(*                                                                         *)
(* In the app every step is one of the auto-lock's or leaves it alone, or  *)
(* builds a new one, so what is true of the class is true of the guard of  *)
(* the session.  That keys in memory are the App's one device rests on who *)
(* may open another while one is open: nobody, because a device without a  *)
(* step of its own under way stands behind a screen that cannot unlock,    *)
(* seal or pair, and no late status read leads away from that screen.      *)
(***************************************************************************)
EXTENDS Shell, TLAPS

-----------------------------------------------------------------------------
(* The class AutoLock *)

\* While it listens to a hidden page, #hiddenAt is the time the page was left;
\* a stopped or locked object has no timer left to fire.
HiddenAgrees ==
    /\ Listening /\ surface = "hidden" => hiddenAt = leftAt
    /\ ~Listening => idleTimer = Off /\ warnTimer = Off /\ hiddenTimer = Off

LockInv == LockTypeOK /\ DeadlinesArmed /\ HiddenAgrees

\* A new AutoLock has nothing armed.
LEMMA LockInitInv == LockInit => LockInv
  BY LockAssumption DEF LockInit, LockInv, LockTypeOK, DeadlinesArmed, HiddenAgrees, Due, Off,
                        Listening

\* Every handler and timer of the class keeps the deadlines armed.
LEMMA LockStepInv == LockInv /\ [LockNext]_vars => LockInv'
  <1> SUFFICES ASSUME LockInv, [LockNext]_vars PROVE LockInv'
    OBVIOUS
  <1> USE LockAssumption DEF LockInv, LockTypeOK, DeadlinesArmed, HiddenAgrees, Due, Off, Listening
  <1>1. CASE Start
    BY <1>1 DEF Start, Event, OnHidden, ScheduleIdle
  <1>2. CASE Stop
    BY <1>2 DEF Stop, Event, ClearTimers
  <1>3. CASE LockNow
    BY <1>3 DEF LockNow, Lock, ClearTimers
  <1>4. CASE OnInput
    <2>1. CASE Idle
      BY <1>4, <2>1 DEF OnInput, Event, Lock, ClearTimers
    <2>2. CASE ~Idle
      BY <1>4, <2>2 DEF OnInput, Event, ScheduleIdle
    <2> QED
      BY <2>1, <2>2
  <1>5. CASE Hide
    BY <1>5 DEF Hide, Event, OnHidden
  <1>6. CASE Show
    <2>1. CASE ~Listening
      BY <1>6, <2>1 DEF Show, Event, timers
    <2>2. CASE Listening /\ HiddenTooLong
      BY <1>6, <2>2 DEF Show, Event, Lock, ClearTimers, HiddenTooLong
    <2>3. CASE Listening /\ ~HiddenTooLong /\ Idle
      BY <1>6, <2>3 DEF Show, Event, Lock, ClearTimers
    <2>4. CASE Listening /\ ~HiddenTooLong /\ ~Idle
      BY <1>6, <2>4 DEF Show, Event, ScheduleIdle, Idle
    <2> QED
      BY <2>1, <2>2, <2>3, <2>4
  <1>7. CASE OnIdleDue
    <2>1. CASE Idle
      BY <1>7, <2>1 DEF OnIdleDue, Lock, ClearTimers
    <2>2. CASE ~Idle
      BY <1>7, <2>2 DEF OnIdleDue, ScheduleIdle, Idle, Fires
    <2> QED
      BY <2>1, <2>2
  <1>8. CASE OnWarnDue
    BY <1>8 DEF OnWarnDue, Fires
  <1>9. CASE OnHiddenDue
    BY <1>9 DEF OnHiddenDue, Lock, ClearTimers
  <1>10. CASE Tick
    BY <1>10 DEF Tick, timers
  <1>11. CASE UNCHANGED vars
    BY <1>11 DEF vars, timers
  <1> QED
    BY <1>1, <1>2, <1>3, <1>4, <1>5, <1>6, <1>7, <1>8, <1>9, <1>10, <1>11 DEF LockNext

\* The class by itself, in any use.
LEMMA LockInvariant == LockSpec => []LockInv
  BY LockInitInv, LockStepInv, PTL DEF LockSpec

\* The type invariant of auto-lock.ts's fields, for all times and bounds.
THEOREM LockTypeCorrect == LockSpec => []LockTypeOK
  BY LockInvariant, PTL DEF LockInv

\* Between start() and the lock or stop() both deadlines stay armed, through any
\* sequence of inputs, visibility changes and late timers.
THEOREM DeadlinesAlwaysArmed == LockSpec => []DeadlinesArmed
  BY LockInvariant, PTL DEF LockInv

\* An input or a return to the page that is taken finds the session in time.
Fresh ==
    Listening /\ Listening' /\ surface' = "visible"
      /\ (surface' # surface \/ lastInput' # lastInput) =>
         /\ now - lastInput < IdleMs
         /\ surface' # surface => now - leftAt < HiddenMs

\* No handler takes an input or shows the page late.
LEMMA StepIsFresh == LockInv /\ [LockNext]_vars => [Fresh]_vars
  <1> SUFFICES ASSUME LockInv, LockNext, Listening, Listening', surface' = "visible",
                      surface' # surface \/ lastInput' # lastInput
               PROVE  /\ now - lastInput < IdleMs
                      /\ surface' # surface => now - leftAt < HiddenMs
    BY DEF Fresh
  <1> USE LockAssumption DEF LockInv, LockTypeOK, HiddenAgrees, Due, Off, Listening, Idle
  <1>1. CASE OnInput
    BY <1>1 DEF OnInput, Lock, ClearTimers
  <1>2. CASE Show
    BY <1>2 DEF Show, HiddenTooLong, Lock, ClearTimers
  <1>3. CASE Start \/ Stop \/ LockNow \/ Hide
    BY <1>3 DEF Start, Stop, LockNow, Lock, ClearTimers, Hide
  <1>4. CASE OnIdleDue \/ OnWarnDue \/ OnHiddenDue \/ Tick
    BY <1>4 DEF OnIdleDue, OnWarnDue, OnHiddenDue, Tick
  <1> QED
    BY <1>1, <1>2, <1>3, <1>4 DEF LockNext

\* No input and no return to the page finds a stale session open.
THEOREM StaleSessionNeverSeen == LockSpec => NeverSeenStale
  BY StepIsFresh, LockInvariant, PTL DEF LockSpec, NeverSeenStale, Fresh

-----------------------------------------------------------------------------
(* The app around it *)

\* The App has one device and no other keys, and its auto-lock has not locked yet.
KeysFit ==
    /\ IF deviceOpen THEN device \in Handles /\ live = {device}
                     ELSE device = NoHandle /\ live = {}
    /\ deviceOpen => ~Locked

\* Of the steps under way one at most is not too late, and it holds the App's device.
JobsFit ==
    /\ \A j \in jobs :
          IF j.stale THEN j.h = NoHandle
          ELSE deviceOpen /\ j.h = device /\ (j.step # "status" => Stage("done"))
    /\ \A j, k \in jobs : ~j.stale /\ ~k.stale => j = k

\* An unlock runs while nothing is open and nothing else may open it.
UnlocksAlone ==
    ceremony # None => ~deviceOpen /\ phase = "stopped" /\ \A j \in jobs : j.stale

MidSetup == Stage("keys") \/ Stage("redeemed")

\* The record of a session is done and so cannot become another; the status that is
\* still being read of an open device is no setup's.
ReadsFit ==
    /\ session => deviceOpen /\ Stage("done")
    /\ screen = "busy" => ~MidSetup
    /\ deviceOpen \/ Opening => wiping = "no" /\ (reading => ~MidSetup)

\* Where a device is open and no step of it is under way, the screen is one that keeps it.
ScreensFit ==
    /\ screen = "ready" <=> session
    /\ session => \A j \in jobs : j.stale
    /\ deviceOpen /\ (\A j \in jobs : j.stale) =>
          \/ screen = "ready"
          \/ screen \in {"setup", "pairing"} /\ ~reading

KeysInv == KeysFit /\ JobsFit /\ UnlocksAlone /\ ReadsFit /\ ScreensFit

Asked == ceremony # None /\ ceremony.step \in {"gesture", "open"}

\* The record counts what was answered, and no wait is shorter than the clock says.
PaceInv ==
    /\ answered = IF record = None THEN 0 ELSE record.count
    /\ record # None /\ record.count > 0 =>
          waited = CapWait \/ waited >= clock - record.lastAt
    /\ Asked => ceremony.took >= CapWait \/ ceremony.took >= clock - ceremony.now
    /\ GuessesArePaced

ShellInv == LockInv /\ ShellTypeOK /\ KeysInv /\ PaceInv

\* An app that is opened holds nothing yet.
LEMMA ShellInitInv == ShellInit => ShellInv
  <1> SUFFICES ASSUME ShellInit PROVE ShellInv
    OBVIOUS
  <1>1. LockInv
    BY LockInitInv DEF ShellInit
  <1>2. ShellTypeOK
    <2>1. record \in Records \cup {None}
      BY DEF ShellInit, Records, NewRecord, Stages, Tiers
    <2>2. clock \in Nat /\ answered \in Nat /\ waited \in 0 .. CapWait
      BY ShellAssumption DEF ShellInit
    <2>3. reading \in BOOLEAN /\ elsewhere \in BOOLEAN /\ join \in BOOLEAN
            /\ deviceOpen \in BOOLEAN /\ session \in BOOLEAN
      BY DEF ShellInit
    <2>4. /\ screen \in Screens /\ wiping \in {"no", "lock", "leave"}
          /\ ceremony \in Ceremonies \cup {None}
          /\ device \in Handles \cup {NoHandle} /\ live \subseteq Handles /\ jobs \subseteq Jobs
      BY DEF ShellInit, Screens
    <2> QED
      BY <2>1, <2>2, <2>3, <2>4 DEF ShellTypeOK
  <1>3. KeysInv
    BY DEF ShellInit, LockInit, KeysInv, KeysFit, JobsFit, UnlocksAlone, ReadsFit, ScreensFit,
           MidSetup, Stage, Opening, Locked, NewRecord
  <1>4. PaceInv
    BY ShellAssumption DEF ShellInit, PaceInv, GuessesArePaced, Asked, NewRecord
  <1> QED
    BY <1>1, <1>2, <1>3, <1>4 DEF ShellInv

\* The actions of the app that are the auto-lock's.
GuardActs ==
    UserInput \/ PageHidden \/ PageShown \/ IdleDue \/ WarnDue \/ HiddenDue \/ TimePasses

\* An auto-lock that locks has the App lock; otherwise the App does not notice.
LEMMA GuardTells ==
  ASSUME LockInv, GuardActs
  PROVE  \/ UNCHANGED <<phase, app>>
         \/ AppLock /\ Listening
  <1> USE DEF Told
  <1>1. CASE UserInput
    BY <1>1 DEF UserInput, OnInput
  <1>2. CASE PageHidden
    BY <1>2 DEF PageHidden, Hide
  <1>3. CASE PageShown
    BY <1>3 DEF PageShown
  <1>4. CASE IdleDue \/ HiddenDue
    BY <1>4 DEF IdleDue, HiddenDue, OnIdleDue, OnHiddenDue, Fires, LockInv, HiddenAgrees
  <1>5. CASE WarnDue
    BY <1>5 DEF WarnDue, OnWarnDue
  <1>6. CASE TimePasses
    BY <1>6 DEF TimePasses, Tick
  <1> QED
    BY <1>1, <1>2, <1>3, <1>4, <1>5, <1>6 DEF GuardActs

\* Every step of the app is one of the auto-lock's, leaves it alone or builds a new one.
LEMMA GuardSteps ==
  ASSUME [ShellNext]_shellVars
  PROVE  [LockNext]_vars \/ FreshAutoLock
  <1>1. CASE UNCHANGED shellVars
    BY <1>1 DEF shellVars
  <1>2. CASE GuardStops \/ Reload
    BY <1>2 DEF GuardStops, Reload
  <1>3. CASE GuardActs
    BY <1>3 DEF GuardActs, UserInput, PageHidden, PageShown, IdleDue, WarnDue, HiddenDue,
                TimePasses, LockNext
  <1>4. CASE GuardStarts \/ LockButton
    BY <1>4 DEF GuardStarts, LockButton, LockNext
  <1>5. CASE ReadStatus \/ BusyRetry \/ Unlock \/ LoadRecord \/ Gesture \/ WrongPassphrase
             \/ CannotUnlock \/ Unlocked
    BY <1>5 DEF ReadStatus, BusyRetry, Unlock, LoadRecord, Gesture, WrongPassphrase,
                CannotUnlock, Unlocked
  <1>6. CASE \E j \in jobs : AfterUnlock(j) \/ OpenVault(j) \/ OpenFails(j) \/ SessionOpens(j)
    BY <1>6 DEF AfterUnlock, OpenVault, OpenFails, SessionOpens
  <1>7. CASE SealSetup \/ MoveSetup \/ SetupDone \/ StartPairing \/ SealPairing \/ PairingDone
             \/ LeavePairing \/ Wiped \/ ElsewherePairs \/ ElsewhereEnds
    BY <1>7 DEF SealSetup, MoveSetup, SetupDone, StartPairing, SealPairing, PairingDone,
                LeavePairing, Wiped, ElsewherePairs, ElsewhereEnds
  <1>8. CASE ClockRuns \/ ClockTurnedBack
    BY <1>8 DEF ClockRuns, ClockTurnedBack
  <1> QED
    BY <1>1, <1>2, <1>3, <1>4, <1>5, <1>6, <1>7, <1>8 DEF ShellNext, GuardActs

\* A new AutoLock is as at the start.
LEMMA FreshInv == FreshAutoLock => LockInv' /\ phase' = "stopped"
  BY LockAssumption DEF FreshAutoLock, LockInv, LockTypeOK, DeadlinesArmed, HiddenAgrees, Due,
                        Off, Listening

-----------------------------------------------------------------------------
(* Types *)

\* A record that is changed is a record.
LEMMA RecordChange ==
  ASSUME NEW r \in Records
  PROVE  /\ \A s \in Stages : [r EXCEPT !.stage = s] \in Records
         /\ \A n \in Nat : [r EXCEPT !.lastAt = n] \in Records
         /\ \A n, m \in Nat : [r EXCEPT !.count = n, !.lastAt = m] \in Records
         /\ r # None
  <1>1. DOMAIN r = {"tier", "stage", "count", "lastAt"} /\ DOMAIN None = {"none"}
    BY DEF Records, None
  <1> QED
    BY <1>1 DEF Records

\* What runs is no mark for nothing, and goes on in the same record.
LEMMA CeremonyChange ==
  ASSUME NEW c \in Ceremonies
  PROVE  /\ c # None
         /\ [c EXCEPT !.step = "open"] \in Ceremonies
         /\ \A n \in 0 .. CapWait : [c EXCEPT !.took = n] \in Ceremonies
  <1>1. DOMAIN c = {"step", "tier", "now", "took"} /\ DOMAIN None = {"none"}
    BY DEF Ceremonies, None
  <1> QED
    BY <1>1 DEF Ceremonies

\* The step that opens the session of a device.
LEMMA OpenedTypes ==
  ASSUME NEW h \in Handles, OpenSession(h), jobs \subseteq Jobs
  PROVE  jobs' \subseteq Jobs
  <1>1. [h |-> h, step |-> "vault", stale |-> FALSE] \in Jobs
    BY DEF Jobs
  <1> QED
    BY <1>1 DEF OpenSession

\* What a status, a refusal or a wipe makes of the record.
LEMMA StoredTypes ==
  ASSUME ShellTypeOK
  PROVE  /\ \A rec \in Records \cup {None} :
               Stored(rec) => record' \in Records \cup {None} /\ answered' \in Nat
                              /\ waited' \in 0 .. CapWait
         /\ \A kind : Status(kind) => record' \in {record, None} /\ Stored(record')
         /\ \A kind : Status(kind) => record' \in Records \cup {None} /\ answered' \in Nat
                                      /\ waited' \in 0 .. CapWait
  BY DEF ShellTypeOK, Stored, Status, StatusRead

\* Every step of the app keeps the types.
LEMMA ShellTypeStep == ShellTypeOK /\ [ShellNext]_shellVars => ShellTypeOK'
  <1> SUFFICES ASSUME ShellTypeOK, [ShellNext]_shellVars PROVE ShellTypeOK'
    OBVIOUS
  <1> USE DEF Screens
  <1> DEFINE KeyTypes == /\ device' \in Handles \cup {NoHandle} /\ live' \subseteq Handles
                         /\ deviceOpen' \in BOOLEAN
  <1>1. ASSUME NEW h \in Handles, Held(h) PROVE KeyTypes /\ clock' \in Nat
    BY <1>1 DEF Held, ShellTypeOK
  <1>2. ASSUME NEW h, Drop(h) PROVE KeyTypes
    BY <1>2 DEF Drop, ShellTypeOK
  <1>3. CASE UNCHANGED app
    BY <1>3 DEF app, disk, keys, pace, ShellTypeOK
  <1>4. CASE AppLock
    <2>a. jobs' = {[j EXCEPT !.stale = TRUE, !.h = NoHandle] : j \in jobs}
      BY <1>4 DEF AppLock
    <2>b. \A j \in jobs : [j EXCEPT !.stale = TRUE, !.h = NoHandle] \in Jobs
      BY DEF ShellTypeOK, Jobs
    <2>1. jobs' \subseteq Jobs
      BY <2>a, <2>b
    <2> QED
      BY <1>2, <1>4, <2>1 DEF AppLock, ShellTypeOK, disk, pace
  <1>5. CASE ReadStatus
    BY <1>5, StoredTypes DEF ReadStatus, ShellTypeOK, keys
  <1>6. CASE BusyRetry \/ Gesture \/ CannotUnlock
    <2>1. ceremony' \in Ceremonies \cup {None} /\ screen' \in Screens
      BY <1>6, CeremonyChange DEF BusyRetry, Gesture, CannotUnlock, Rejected, ShellTypeOK
    <2>2. UNCHANGED <<disk, join, wiping, keys, jobs, pace>> /\ reading' \in BOOLEAN
      BY <1>6 DEF BusyRetry, Gesture, CannotUnlock, ShellTypeOK
    <2> QED
      BY <2>1, <2>2 DEF ShellTypeOK, keys, disk, pace
  <1>7. CASE Unlock
    <2>1. ceremony' \in Ceremonies
      BY <1>7, ShellAssumption DEF Unlock, Ceremonies, Tiers
    <2> QED
      BY <1>7, <2>1 DEF Unlock, ShellTypeOK, keys, disk, pace
  <1>8. CASE LoadRecord
    <2>1. record' \in Records \cup {None}
      <3>1. record \in Records \cup {None} /\ clock \in Nat
        BY DEF ShellTypeOK
      <3> QED
        BY <1>8, <3>1, RecordChange DEF LoadRecord, BackoffRefuses, EnforceBackoff
    <2>2. ceremony' \in Ceremonies \cup {None} /\ screen' \in Screens
      <3>1. ASSUME record # None
            PROVE  [step |-> "gesture", tier |-> record.tier, now |-> clock, took |-> 0]
                      \in Ceremonies
        BY <3>1, ShellAssumption DEF ShellTypeOK, Ceremonies, Records
      <3> QED
        BY <1>8, <3>1 DEF LoadRecord, Rejected, ShellTypeOK
    <2> QED
      BY <1>8, <2>1, <2>2 DEF LoadRecord, ShellTypeOK, keys, pace
  <1>9. CASE WrongPassphrase
    <2>0. ceremony \in Ceremonies /\ record \in Records /\ answered \in Nat
      BY <1>9 DEF WrongPassphrase, Opening, ShellTypeOK
    <2>1. record.count + 1 \in Nat /\ ceremony.now \in Nat
      BY <2>0 DEF Records, Ceremonies
    <2>2. record' \in Records
      BY <1>9, <2>0, <2>1, RecordChange DEF WrongPassphrase
    <2>3. waited' \in 0 .. CapWait /\ answered' \in Nat
      BY <1>9, <2>0 DEF WrongPassphrase, Ceremonies
    <2> QED
      BY <1>9, <2>2, <2>3 DEF WrongPassphrase, Rejected, ShellTypeOK, keys
  <1>10. CASE Unlocked
    <2>1. record' \in Records \cup {None}
      <3>1. record # None => [record EXCEPT !.count = 0, !.lastAt = 0] \in Records
        BY RecordChange DEF ShellTypeOK
      <3> QED
        BY <1>10, <3>1 DEF Unlocked, ShellTypeOK
    <2>2. answered' \in Nat /\ waited' \in 0 .. CapWait
      BY <1>10, ShellAssumption DEF Unlocked, ShellTypeOK
    <2>3. PICK h \in Handles :
            Held(h) /\ jobs' = jobs \cup {[h |-> h, step |-> "status", stale |-> FALSE]}
      BY <1>10 DEF Unlocked
    <2>4. [h |-> h, step |-> "status", stale |-> FALSE] \in Jobs
      BY DEF Jobs
    <2>5. jobs' \subseteq Jobs
      BY <2>3, <2>4 DEF ShellTypeOK
    <2> QED
      BY <1>1, <1>10, <2>1, <2>2, <2>3, <2>5 DEF Unlocked, ShellTypeOK
  <1>11. ASSUME NEW j \in jobs, AfterUnlock(j) PROVE ShellTypeOK'
    <2>1. jobs' \subseteq Jobs
      BY <1>11 DEF AfterUnlock, ShellTypeOK, Jobs
    <2>2. KeyTypes /\ session' \in BOOLEAN /\ screen' \in Screens
      BY <1>2, <1>11 DEF AfterUnlock, ShellTypeOK, keys
    <2> QED
      BY <1>11, <2>1, <2>2, StoredTypes DEF AfterUnlock, ShellTypeOK
  <1>12. ASSUME NEW j \in jobs, OpenVault(j) PROVE ShellTypeOK'
    <2>1. jobs' \subseteq Jobs
      BY <1>12 DEF OpenVault, ShellTypeOK, Jobs
    <2> QED
      BY <1>12, <2>1 DEF OpenVault, ShellTypeOK, keys, disk, pace
  <1>13. ASSUME NEW j \in jobs, OpenFails(j) PROVE ShellTypeOK'
    BY <1>2, <1>13 DEF OpenFails, ShellTypeOK, disk, pace
  <1>14. ASSUME NEW j \in jobs, SessionOpens(j) PROVE ShellTypeOK'
    <2>1. session' \in BOOLEAN /\ screen' \in Screens /\ jobs' \subseteq Jobs
      BY <1>14 DEF SessionOpens, ShellTypeOK
    <2> QED
      BY <1>14, <2>1 DEF SessionOpens, ShellTypeOK, disk, pace
  <1>15. CASE SealSetup \/ SealPairing
    <2>1. record' \in Records
      BY <1>15 DEF SealSetup, SealPairing, NewRecord, Records, Stages
    <2> QED
      BY <1>1, <1>15, <2>1 DEF SealSetup, SealPairing, ShellTypeOK
  <1>16. CASE MoveSetup
    BY <1>16, RecordChange DEF MoveSetup, Stage, Stages, ShellTypeOK, keys, pace
  <1>17. CASE SetupDone
    <2>1. jobs' \subseteq Jobs
      BY <1>17, OpenedTypes DEF SetupDone, ShellTypeOK
    <2> QED
      BY <1>17, <2>1 DEF SetupDone, ShellTypeOK, disk, keys, pace
  <1>18. CASE StartPairing
    BY <1>18 DEF StartPairing, ShellTypeOK, disk, keys, pace
  <1>19. CASE PairingDone
    <2>1. jobs' \subseteq Jobs
      BY <1>19, OpenedTypes DEF PairingDone, ShellTypeOK
    <2>2. record' \in Records
      BY <1>19, RecordChange DEF PairingDone, Stage, Stages, ShellTypeOK
    <2> QED
      BY <1>19, <2>1, <2>2 DEF PairingDone, ShellTypeOK, keys, pace
  <1>20. CASE LeavePairing
    BY <1>2, <1>20 DEF LeavePairing, ShellTypeOK, disk, pace
  <1>21. CASE Wiped
    BY <1>21, StoredTypes DEF Wiped, ShellTypeOK, keys
  <1>22. CASE ElsewherePairs
    <2>1. record' \in Records
      BY <1>22 DEF ElsewherePairs, NewRecord, Records, Stages
    <2> QED
      BY <1>22, <2>1 DEF ElsewherePairs, ShellTypeOK, keys, pace
  <1>23. CASE ElsewhereEnds
    <2>1. record # None => [record EXCEPT !.stage = "done"] \in Records
      BY RecordChange DEF ShellTypeOK, Stages
    <2>2. record' \in Records \cup {None} /\ answered' \in Nat /\ waited' \in 0 .. CapWait
      BY <1>23, <2>1, StoredTypes DEF ElsewhereEnds, Stage, ShellTypeOK
    <2> QED
      BY <1>23, <2>2 DEF ElsewhereEnds, ShellTypeOK, keys
  <1>24. CASE ClockRuns
    BY <1>24, ShellAssumption DEF ClockRuns, ShellTypeOK, keys, disk, Ceremonies
  <1>25. CASE ClockTurnedBack
    BY <1>25 DEF ClockTurnedBack, ShellTypeOK, keys, disk
  <1>26. CASE Reload
    BY <1>26 DEF Reload, ShellTypeOK, disk, pace
  <1>27. CASE UNCHANGED shellVars \/ GuardStops \/ GuardStarts \/ GuardActs \/ LockButton
    BY <1>3, <1>4, <1>27 DEF shellVars, GuardStops, GuardStarts, LockButton, GuardActs, Told,
          UserInput, PageHidden, PageShown, IdleDue, WarnDue, HiddenDue, TimePasses
  <1> QED
    BY <1>5, <1>6, <1>7, <1>8, <1>9, <1>10, <1>11, <1>12, <1>13, <1>14, <1>15, <1>16, <1>17,
       <1>18, <1>19, <1>20, <1>21, <1>22, <1>23, <1>24, <1>25, <1>26, <1>27
       DEF ShellNext, GuardActs

-----------------------------------------------------------------------------
(* The App's keys *)

\* A lock drops the device and all that was under way.
LEMMA LockDrops ==
  ASSUME ShellTypeOK, KeysInv, Listening \/ deviceOpen, AppLock
  PROVE  KeysInv'
  <1>1. ceremony = None /\ ceremony' = None
    BY DEF KeysInv, UnlocksAlone, AppLock, Listening
  <1>2. live' = {} /\ device' = NoHandle /\ ~deviceOpen' /\ ~session' /\ screen' = "locked"
    BY ShellAssumption DEF KeysInv, KeysFit, AppLock, Drop
  <1>3. \A j \in jobs' : j.stale /\ j.h = NoHandle
    BY DEF AppLock, ShellTypeOK, Jobs
  <1>4. ~Opening'
    BY <1>1 DEF Opening
  <1> QED
    BY <1>1, <1>2, <1>3, <1>4 DEF KeysInv, KeysFit, JobsFit, UnlocksAlone, ReadsFit, ScreensFit

\* A status leaves the record what it was or wipes it, but not one that is done; it is
\* "busy" only for a device that is being paired.
LEMMA StatusIs ==
  ASSUME ShellTypeOK, NEW kind, Status(kind)
  PROVE  /\ record' = record \/ record' = None
         /\ Stage("done") => record' = record /\ kind \in {"enrolled", "unreadable"}
         /\ kind = "busy" => Stage("pairing") /\ record' = record
         /\ kind = "enrolled" => record' = record /\ record # None
         /\ MidSetup' => MidSetup
         /\ Stage("done")' <=> Stage("done")
  <1>1. record' = record \/ record' = None
    BY DEF Status, Stored
  <1>2. PICK rec \in {None, record} : StatusRead(kind, rec) /\ record' = rec
    BY DEF Status, Stored
  <1>3. /\ Stage("done") => record' = record /\ kind \in {"enrolled", "unreadable"}
        /\ kind = "busy" => Stage("pairing") /\ record' = record
        /\ kind = "enrolled" => record' = record /\ record # None
    BY <1>2 DEF StatusRead, Stage
  <1> QED
    BY <1>1, <1>3 DEF Stage, MidSetup

\* A device that is new to the App is its only one.
LEMMA HeldKeys ==
  ASSUME ShellTypeOK, KeysInv, ~deviceOpen, NEW h \in Handles, Held(h), ~Locked
  PROVE  deviceOpen' /\ device' = h /\ live' = {h}
  BY DEF Held, KeysInv, KeysFit

\* What is given up leaves nothing open.
LEMMA DropKeys ==
  ASSUME KeysInv, Drop(device)
  PROVE  ~deviceOpen' /\ device' = NoHandle /\ live' = {}
  BY DEF Drop, KeysInv, KeysFit

\* Every step keeps the App's keys its own, one device at a time.
LEMMA KeysStep ==
  ShellTypeOK /\ LockInv /\ KeysInv /\ [ShellNext]_shellVars => KeysInv'
  <1> SUFFICES ASSUME ShellTypeOK, LockInv, KeysInv, [ShellNext]_shellVars PROVE KeysInv'
    OBVIOUS
  <1> DEFINE Parts == KeysFit' /\ JobsFit' /\ UnlocksAlone' /\ ReadsFit' /\ ScreensFit'
  <1>0. Parts => KeysInv'
    BY DEF KeysInv
  <1> USE DEF keys
  <1>1. CASE UNCHANGED <<phase, app>>
    BY <1>1 DEF app, disk, KeysInv, KeysFit, JobsFit, UnlocksAlone, ReadsFit, ScreensFit,
                MidSetup, Stage, Opening, Locked
  <1>2. CASE GuardActs
    BY <1>1, <1>2, GuardTells, LockDrops
  <1>3. CASE GuardStops
    <2>1. phase' = "stopped" /\ UNCHANGED app
      BY <1>3 DEF GuardStops, FreshAutoLock
    <2> QED
      BY <2>1 DEF app, disk, KeysInv, KeysFit, JobsFit, UnlocksAlone, ReadsFit, ScreensFit,
                  MidSetup, Stage, Opening, Locked
  <1>4. CASE GuardStarts
    <2>1. phase' = "listening" /\ deviceOpen /\ UNCHANGED app
      BY <1>4 DEF GuardStarts, Start
    <2> QED
      BY <2>1 DEF app, disk, KeysInv, KeysFit, JobsFit, UnlocksAlone, ReadsFit, ScreensFit,
                  MidSetup, Stage, Opening, Locked
  <1>5. CASE LockButton
    <2>1. deviceOpen
      BY <1>5 DEF LockButton, KeysInv, ScreensFit, ReadsFit
    <2> QED
      BY <1>5, <2>1, LockDrops DEF LockButton
  <1>6. CASE Reload
    <2>1. Parts
      BY <1>6 DEF Reload, FreshAutoLock, KeysFit, JobsFit, UnlocksAlone, ReadsFit, ScreensFit,
                  Opening, Locked
    <2> QED
      BY <1>0, <2>1
  <1>7. CASE ReadStatus
    <2>1. PICK kind \in StatusKinds :
            /\ Status(kind)
            /\ screen' = CASE kind = "none" -> "setup"
                           [] kind = "busy" -> "busy"
                           [] OTHER -> IF screen = "loading" THEN "locked" ELSE screen
      BY <1>7 DEF ReadStatus
    <2>2. UNCHANGED <<vars, wiping, ceremony, keys, jobs>> /\ reading' = FALSE /\ reading
      BY <1>7 DEF ReadStatus
    <2>3. KeysFit' /\ UnlocksAlone'
      BY <2>2 DEF KeysInv, KeysFit, UnlocksAlone, vars, Locked
    <2>4. JobsFit' /\ ReadsFit'
      BY <2>1, <2>2, StatusIs DEF KeysInv, JobsFit, ReadsFit, Opening, MidSetup, Stage
    <2>5. ScreensFit'
      BY <2>1, <2>2, StatusIs DEF KeysInv, ScreensFit, ReadsFit
    <2> QED
      BY <1>0, <2>3, <2>4, <2>5
  <1>8. CASE BusyRetry
    <2>1. Parts
      BY <1>8 DEF BusyRetry, vars, disk, KeysInv, KeysFit, JobsFit, UnlocksAlone, ReadsFit,
                  ScreensFit, MidSetup, Stage, Opening, Locked
    <2> QED
      BY <1>0, <2>1
  <1>9. CASE Unlock
    <2>1. ~deviceOpen
      BY <1>9 DEF Unlock, LockScreenShown, Quiet, KeysInv, ScreensFit, ReadsFit
    <2>2. ~Opening' /\ UNCHANGED <<record, live, device, deviceOpen, session, jobs, phase>>
            /\ screen' = "unlocking" /\ phase = "stopped" /\ \A j \in jobs : j.stale
      BY <1>9 DEF Unlock, Opening, disk, vars, Quiet
    <2>3. Parts
      BY <2>1, <2>2 DEF KeysInv, KeysFit, JobsFit, UnlocksAlone, ReadsFit, ScreensFit, Locked,
                        Stage
    <2> QED
      BY <1>0, <2>3
  <1>10. CASE LoadRecord \/ Gesture \/ CannotUnlock \/ WrongPassphrase
    <2>1. /\ UNCHANGED <<phase, live, device, deviceOpen, session, jobs, wiping, reading>>
          /\ ceremony # None
          /\ screen' \in {screen, "locked"}
          /\ (Opening' => Opening \/ (Gesture /\ Settled))
      BY <1>10 DEF LoadRecord, Gesture, CannotUnlock, WrongPassphrase, Opening, Rejected, vars
    <2>2. ~session /\ ~deviceOpen /\ phase = "stopped" /\ \A j \in jobs : j.stale
      BY <2>1 DEF KeysInv, UnlocksAlone, ReadsFit
    <2>3. record = None \/ record.stage \in Stages
      BY DEF ShellTypeOK, Records
    <2>4. (MidSetup' => MidSetup) /\ (Stage("done") => Stage("done")')
      <3>1. ASSUME record # None, NEW c, NEW l,
                   \/ record' = [record EXCEPT !.lastAt = l]
                   \/ record' = [record EXCEPT !.count = c, !.lastAt = l]
            PROVE  record' # None /\ record'.stage = record.stage
        BY <3>1, RecordChange DEF ShellTypeOK, Records, None
      <3>2. \/ UNCHANGED record
            \/ record # None /\ record' # None /\ record'.stage = record.stage
        BY <1>10, <3>1 DEF LoadRecord, Gesture, CannotUnlock, WrongPassphrase, BackoffRefuses,
                           EnforceBackoff, disk
      <3> QED
        BY <3>2 DEF MidSetup, Stage
    <2>5. Parts
      BY <2>1, <2>2, <2>4 DEF KeysInv, KeysFit, JobsFit, UnlocksAlone, ReadsFit, ScreensFit,
                              Locked, Settled
    <2> QED
      BY <1>0, <2>5

  <1>11. CASE Unlocked
    <2>1. /\ ~deviceOpen /\ ~session /\ screen # "ready" /\ phase = "stopped" /\ wiping = "no"
          /\ \A j \in jobs : j.stale /\ j.h = NoHandle
          /\ (reading => ~MidSetup) /\ (screen = "busy" => ~MidSetup)
      BY <1>11 DEF Unlocked, Opening, KeysInv, UnlocksAlone, ReadsFit, ScreensFit, JobsFit
    <2>2. PICK h \in Handles :
            Held(h) /\ jobs' = jobs \cup {[h |-> h, step |-> "status", stale |-> FALSE]}
      BY <1>11 DEF Unlocked
    <2>3. deviceOpen' /\ device' = h /\ live' = {h}
      BY <2>1, <2>2, HeldKeys DEF Locked
    <2>4. MidSetup' => MidSetup
      <3>1. record # None => LET r == [record EXCEPT !.count = 0, !.lastAt = 0]
                             IN  r # None /\ r.stage = record.stage
        BY RecordChange DEF ShellTypeOK, Records
      <3>2. \/ UNCHANGED record
            \/ record # None /\ record' = [record EXCEPT !.count = 0, !.lastAt = 0]
        BY <1>11 DEF Unlocked
      <3>3. \/ record' = None /\ record = None
            \/ record # None /\ record' # None /\ record'.stage = record.stage
        BY <3>1, <3>2
      <3> QED
        BY <3>3 DEF MidSetup, Stage
    <2>5. UNCHANGED <<phase, screen, wiping, reading, session>> /\ ceremony' = None
      BY <1>11 DEF Unlocked, vars
    <2> DEFINE k == [h |-> h, step |-> "status", stale |-> FALSE]
    <2>6. k.h = device' /\ k.step = "status" /\ ~k.stale /\ jobs' = jobs \cup {k}
      BY <2>2, <2>3
    <2> HIDE DEF k
    <2>7. KeysFit' /\ UnlocksAlone'
      BY <2>1, <2>3, <2>5 DEF KeysFit, UnlocksAlone, Locked
    <2>8. JobsFit'
      BY <2>1, <2>3, <2>6 DEF JobsFit
    <2>9. ReadsFit'
      BY <2>1, <2>3, <2>4, <2>5 DEF ReadsFit
    <2>10. ScreensFit'
      BY <2>1, <2>5, <2>6 DEF ScreensFit
    <2> QED
      BY <1>0, <2>7, <2>8, <2>9, <2>10
  <1>12. ASSUME NEW j \in jobs, AfterUnlock(j) PROVE KeysInv'
    <2>1. PICK kind \in StatusKinds :
            /\ Status(kind)
            /\ IF j.stale
               THEN jobs' = jobs \ {j} /\ UNCHANGED <<screen, keys>>
               ELSE /\ UNCHANGED session
                    /\ IF kind = "enrolled"
                       THEN /\ UNCHANGED <<device, live, deviceOpen>>
                            /\ IF record.stage = "done"
                               THEN jobs' = (jobs \ {j}) \cup {[j EXCEPT !.step = "vault"]}
                                    /\ UNCHANGED screen
                               ELSE jobs' = jobs \ {j} /\ screen' = "setup"
                       ELSE /\ jobs' = jobs \ {j} /\ Drop(j.h)
                            /\ screen' = CASE kind = "none" -> "setup"
                                           [] kind = "busy" -> "busy"
                                           [] OTHER -> "locked"
      BY <1>12 DEF AfterUnlock
    <2>2. UNCHANGED <<phase, wiping, reading, ceremony>> /\ (Opening' <=> Opening)
      BY <1>12 DEF AfterUnlock, vars, Opening
    <2>3. CASE j.stale
      <3>1. jobs' = jobs \ {j} /\ UNCHANGED <<screen, device, live, deviceOpen, session>>
        BY <2>1, <2>3
      <3>2. KeysFit' /\ JobsFit' /\ UnlocksAlone'
        BY <2>1, <2>2, <3>1, StatusIs DEF KeysInv, KeysFit, JobsFit, UnlocksAlone, Locked
      <3>3. ReadsFit' /\ ScreensFit'
        BY <2>1, <2>2, <2>3, <3>1, StatusIs DEF KeysInv, ReadsFit, ScreensFit
      <3> QED
        BY <1>0, <3>2, <3>3
    <2>4. CASE ~j.stale
      <3>1. /\ deviceOpen /\ j.h = device /\ ceremony = None /\ ~Opening /\ wiping = "no"
            /\ ~session /\ screen # "ready" /\ (reading => ~MidSetup)
            /\ \A k \in jobs \ {j} : k.stale /\ k.h = NoHandle
        BY <2>4 DEF KeysInv, JobsFit, UnlocksAlone, ReadsFit, ScreensFit, Opening
      <3>2. CASE kind = "enrolled" /\ Stage("done")
        <4> DEFINE k == [j EXCEPT !.step = "vault"]
        <4>1. k.h = device /\ ~k.stale /\ k.step = "vault"
          BY <2>4, <3>1 DEF ShellTypeOK, Jobs
        <4>2. jobs' = (jobs \ {j}) \cup {k} /\ UNCHANGED <<screen, device, live, deviceOpen,
                                                           session, record>>
          BY <2>1, <2>4, <3>2, StatusIs DEF Stage
        <4> HIDE DEF k
        <4>3. KeysFit' /\ JobsFit' /\ UnlocksAlone'
          BY <2>2, <3>1, <3>2, <4>1, <4>2
             DEF KeysInv, KeysFit, JobsFit, UnlocksAlone, Locked, Stage
        <4>4. ReadsFit' /\ ScreensFit'
          BY <2>2, <3>1, <4>1, <4>2 DEF KeysInv, ReadsFit, ScreensFit, MidSetup, Stage
        <4> QED
          BY <1>0, <4>3, <4>4
      <3>3. CASE kind = "enrolled" /\ ~Stage("done")
        <4>1. MidSetup
          <5>1. record # None /\ ~Stage("pairing") /\ record.stage \in Stages
            BY <2>1, <3>3 DEF Status, StatusRead, Stored, ShellTypeOK, Records
          <5> QED
            BY <3>3, <5>1 DEF MidSetup, Stage, Stages
        <4>2. jobs' = jobs \ {j} /\ screen' = "setup"
              /\ UNCHANGED <<device, live, deviceOpen, session, record>>
          BY <2>1, <2>4, <3>3, StatusIs DEF Stage
        <4>3. KeysFit' /\ JobsFit' /\ UnlocksAlone'
          BY <2>2, <3>1, <4>2 DEF KeysInv, KeysFit, JobsFit, UnlocksAlone, Locked
        <4>4. ReadsFit' /\ ScreensFit'
          BY <2>2, <3>1, <4>1, <4>2 DEF ReadsFit, ScreensFit
        <4> QED
          BY <1>0, <4>3, <4>4
      <3>4. CASE kind # "enrolled"
        <4>1. /\ jobs' = jobs \ {j} /\ UNCHANGED session
              /\ ~deviceOpen' /\ device' = NoHandle /\ live' = {}
              /\ screen' \in {"setup", "busy", "locked"}
              /\ (screen' = "busy" => kind = "busy")
          BY <2>1, <2>4, <3>1, <3>4, DropKeys
        <4>2. screen' = "busy" => ~MidSetup'
          BY <2>1, <4>1, StatusIs DEF MidSetup, Stage
        <4>3. KeysFit' /\ JobsFit' /\ UnlocksAlone'
          BY <2>2, <3>1, <4>1 DEF KeysFit, JobsFit, UnlocksAlone
        <4>4. ReadsFit' /\ ScreensFit'
          BY <2>2, <3>1, <4>1, <4>2 DEF ReadsFit, ScreensFit
        <4> QED
          BY <1>0, <4>3, <4>4
      <3> QED
        BY <3>2, <3>3, <3>4
    <2> QED
      BY <2>3, <2>4
  <1>13. ASSUME NEW j \in jobs, OpenVault(j) PROVE KeysInv'
    <2> DEFINE k == [j EXCEPT !.step = "opened"]
    <2>1. k.h = j.h /\ k.stale = j.stale /\ k.step = "opened"
      BY DEF ShellTypeOK, Jobs
    <2>2. j.step = "vault" /\ jobs' = (jobs \ {j}) \cup {k}
      BY <1>13 DEF OpenVault
    <2> HIDE DEF k
    <2>3. UNCHANGED <<phase, screen, record, wiping, reading, ceremony, device, live, deviceOpen,
                      session>> /\ (Opening' <=> Opening)
      BY <1>13 DEF OpenVault, vars, disk, Opening
    <2>4. JobsFit'
      BY <2>1, <2>2, <2>3 DEF KeysInv, JobsFit, Stage
    <2>5. KeysFit' /\ UnlocksAlone' /\ ReadsFit' /\ ScreensFit'
      BY <2>1, <2>2, <2>3
         DEF KeysInv, KeysFit, UnlocksAlone, ReadsFit, ScreensFit, MidSetup, Stage, Locked
    <2> QED
      BY <1>0, <2>4, <2>5
  <1>14. ASSUME NEW j \in jobs, OpenFails(j) PROVE KeysInv'
    <2>1. /\ jobs' = jobs \ {j} /\ j.step \in {"vault", "opened"}
          /\ UNCHANGED <<phase, record, wiping, reading, ceremony, session>>
          /\ (Opening' <=> Opening) /\ (MidSetup' <=> MidSetup)
          /\ (Stage("done")' <=> Stage("done"))
      BY <1>14 DEF OpenFails, vars, disk, Opening, MidSetup, Stage
    <2>2. CASE j.stale
      <3>1. live' = live /\ UNCHANGED <<screen, device, deviceOpen>>
        BY <1>14, <2>2, ShellAssumption DEF OpenFails, KeysInv, JobsFit, ShellTypeOK
      <3>2. Parts
        BY <2>1, <2>2, <3>1
           DEF KeysInv, KeysFit, JobsFit, UnlocksAlone, ReadsFit, ScreensFit, Locked
      <3> QED
        BY <1>0, <3>2
    <2>3. CASE ~j.stale
      <3>1. /\ j.h = device /\ ceremony = None /\ ~session /\ ~Opening
            /\ \A k \in jobs \ {j} : k.stale /\ k.h = NoHandle
        BY <2>3 DEF KeysInv, JobsFit, UnlocksAlone, ScreensFit, Opening
      <3>2. ~deviceOpen' /\ device' = NoHandle /\ live' = {} /\ screen' = "locked"
        BY <1>14, <2>3, <3>1, DropKeys DEF OpenFails
      <3>3. Parts
        BY <2>1, <3>1, <3>2 DEF KeysFit, JobsFit, UnlocksAlone, ReadsFit, ScreensFit
      <3> QED
        BY <1>0, <3>3
    <2> QED
      BY <2>2, <2>3
  <1>15. ASSUME NEW j \in jobs, SessionOpens(j) PROVE KeysInv'
    <2>1. /\ jobs' = jobs \ {j} /\ j.step = "opened"
          /\ UNCHANGED <<phase, record, wiping, reading, ceremony, device, live, deviceOpen>>
          /\ (Opening' <=> Opening) /\ (MidSetup' <=> MidSetup)
          /\ (Stage("done")' <=> Stage("done"))
      BY <1>15 DEF SessionOpens, vars, disk, Opening, MidSetup, Stage
    <2>2. CASE j.stale
      <3>1. UNCHANGED <<session, screen>>
        BY <1>15, <2>2 DEF SessionOpens
      <3>2. Parts
        BY <2>1, <2>2, <3>1
           DEF KeysInv, KeysFit, JobsFit, UnlocksAlone, ReadsFit, ScreensFit, Locked
      <3> QED
        BY <1>0, <3>2
    <2>3. CASE ~j.stale
      <3>1. /\ deviceOpen /\ Stage("done") /\ \A k \in jobs \ {j} : k.stale
            /\ session' /\ screen' = "ready"
        BY <1>15, <2>1, <2>3 DEF KeysInv, JobsFit, SessionOpens
      <3>2. Parts
        BY <2>1, <3>1 DEF KeysInv, KeysFit, JobsFit, UnlocksAlone, ReadsFit, ScreensFit, Locked
      <3> QED
        BY <1>0, <3>2
    <2> QED
      BY <2>2, <2>3
  <1>16. CASE SealSetup \/ SealPairing
    <2>1. /\ ~deviceOpen /\ ~session /\ phase = "stopped" /\ ceremony = None /\ wiping = "no"
          /\ ~reading /\ \A j \in jobs : j.stale /\ j.h = NoHandle
          /\ screen \in {"setup", "pairing"}
      BY <1>16, ShellAssumption DEF SealSetup, SealPairing, MaySeal, Quiet, Settled, KeysInv,
         KeysFit, JobsFit, ReadsFit
    <2>2. PICK h \in Handles : Held(h)
      BY <1>16 DEF SealSetup, SealPairing
    <2>3. deviceOpen' /\ device' = h /\ live' = {h}
      BY <2>1, <2>2, HeldKeys DEF Locked
    <2>4. UNCHANGED <<phase, screen, wiping, reading, ceremony, session, jobs>>
      BY <1>16 DEF SealSetup, SealPairing, vars
    <2>5. Parts
      BY <2>1, <2>3, <2>4
         DEF KeysFit, JobsFit, UnlocksAlone, ReadsFit, ScreensFit, Locked
    <2> QED
      BY <1>0, <2>5
  <1>17. CASE MoveSetup
    <2>1. deviceOpen /\ MidSetup
      BY <1>17 DEF MoveSetup, KeysInv, KeysFit, MidSetup
    <2>2. ~session /\ screen = "setup" /\ ~reading /\ wiping = "no" /\ ceremony = None
      BY <1>17, <2>1 DEF MoveSetup, MidSetup, Stage, KeysInv, ReadsFit, UnlocksAlone
    <2>3. \A j \in jobs : j.stale \/ j.step = "status"
      BY <2>1 DEF KeysInv, JobsFit, MidSetup, Stage
    <2>4. UNCHANGED <<phase, screen, wiping, reading, ceremony, session, jobs, device, live,
                      deviceOpen>>
      BY <1>17 DEF MoveSetup, vars
    <2>5. Parts
      BY <2>2, <2>3, <2>4
         DEF KeysInv, KeysFit, JobsFit, UnlocksAlone, ReadsFit, ScreensFit, Locked
    <2> QED
      BY <1>0, <2>5
  <1>18. CASE SetupDone \/ PairingDone
    <2>1. /\ deviceOpen /\ device \in live /\ ~session /\ ceremony = None /\ ~Opening
          /\ wiping = "no" /\ Stage("done")' /\ \A j \in jobs : j.stale /\ j.h = NoHandle
          /\ UNCHANGED <<phase, wiping, ceremony, device, live, deviceOpen, session>>
          /\ screen' \in {"unlocking", "pairing"}
      <3>1. /\ device \in live /\ Quiet /\ screen # "ready"
            /\ UNCHANGED <<phase, wiping, ceremony, device, live, deviceOpen, session>>
            /\ screen' \in {"unlocking", "pairing"}
        BY <1>18 DEF SetupDone, PairingDone, vars
      <3>2. Stage("done")'
        <4>1. CASE SetupDone
          BY <4>1 DEF SetupDone, Stage, disk
        <4>2. CASE PairingDone
          <5>1. ASSUME record \in Records
                PROVE  LET r == [record EXCEPT !.stage = "done"]
                       IN  r # None /\ r.stage = "done"
            <6>1. [record EXCEPT !.stage = "done"] \in Records
              BY <5>1, RecordChange DEF Stages
            <6> QED
              BY <5>1, <6>1, RecordChange DEF Records
          <5> QED
            BY <4>2, <5>1 DEF PairingDone, Stage, ShellTypeOK
        <4> QED
          BY <1>18, <4>1, <4>2
      <3> QED
        BY <3>1, <3>2 DEF Quiet, Opening, KeysInv, KeysFit, JobsFit, ReadsFit, ScreensFit
    <2> DEFINE k == [h |-> device, step |-> "vault", stale |-> FALSE]
    <2>2. k.h = device /\ ~k.stale /\ jobs' = jobs \cup {k}
      BY <1>18 DEF SetupDone, PairingDone, OpenSession
    <2> HIDE DEF k
    <2>3. ~MidSetup' /\ ~Opening'
      BY <2>1 DEF MidSetup, Stage, Opening
    <2>4. KeysFit' /\ JobsFit' /\ UnlocksAlone'
      BY <2>1, <2>2 DEF KeysInv, KeysFit, JobsFit, UnlocksAlone, Locked
    <2>5. ReadsFit' /\ ScreensFit'
      BY <2>1, <2>2, <2>3 DEF ReadsFit, ScreensFit
    <2> QED
      BY <1>0, <2>4, <2>5
  <1>19. CASE StartPairing
    <2>1. /\ device = NoHandle /\ ~reading /\ screen' = "pairing" /\ screen = "setup"
          /\ UNCHANGED <<phase, record, wiping, reading, ceremony, device, live, deviceOpen,
                         session, jobs>>
      BY <1>19 DEF StartPairing, Settled, vars, disk
    <2>2. Parts
      BY <2>1, ShellAssumption DEF KeysInv, KeysFit, JobsFit, UnlocksAlone, ReadsFit, ScreensFit,
         Locked, MidSetup, Stage, Opening
    <2> QED
      BY <1>0, <2>2
  <1>20. CASE LeavePairing
    <2>1. /\ ceremony = None /\ screen = "pairing" /\ \A j \in jobs : j.stale
          /\ UNCHANGED <<screen, record, ceremony, session, jobs>>
      BY <1>20 DEF LeavePairing, Quiet, disk
    <2>2. ~deviceOpen' /\ device' = NoHandle /\ live' = {}
      BY <1>20, DropKeys DEF LeavePairing
    <2>3. ~session /\ ~Opening'
      BY <2>1 DEF KeysInv, ScreensFit, Opening
    <2>4. Parts
      BY <2>1, <2>2, <2>3 DEF KeysInv, KeysFit, JobsFit, UnlocksAlone, ReadsFit, ScreensFit
    <2> QED
      BY <1>0, <2>4
  <1>21. CASE Wiped
    <2>1. /\ wiping # "no" /\ wiping' = "no" /\ screen' \in {screen, "setup"}
          /\ UNCHANGED <<phase, ceremony, device, live, deviceOpen, session, jobs, reading>>
      BY <1>21 DEF Wiped, vars
    <2>2. ~deviceOpen /\ ~Opening /\ ~Opening' /\ ~session /\ screen # "ready"
      BY <2>1 DEF KeysInv, ReadsFit, ScreensFit, Opening
    <2>3. MidSetup' => MidSetup
      BY <1>21 DEF Wiped, Stored, MidSetup, Stage
    <2>4. Parts
      BY <2>1, <2>2, <2>3 DEF KeysInv, KeysFit, JobsFit, UnlocksAlone, ReadsFit, ScreensFit, Locked
    <2> QED
      BY <1>0, <2>4
  <1>22. CASE ElsewherePairs \/ ElsewhereEnds
    <2>1. UNCHANGED <<phase, screen, wiping, reading, ceremony, device, live, deviceOpen, session,
                      jobs>> /\ (Opening' <=> Opening)
      BY <1>22 DEF ElsewherePairs, ElsewhereEnds, vars, Opening
    <2>2. ~Stage("done") /\ ~MidSetup /\ ~MidSetup'
      <3>1. CASE ElsewherePairs
        BY <3>1 DEF ElsewherePairs, NewRecord, MidSetup, Stage
      <3>2. CASE ElsewhereEnds
        <4>1. record # None /\ [record EXCEPT !.stage = "done"].stage = "done"
          BY <3>2 DEF ElsewhereEnds, Stage, ShellTypeOK, Records
        <4> QED
          BY <3>2, <4>1 DEF ElsewhereEnds, Stored, MidSetup, Stage
      <3> QED
        BY <1>22, <3>1, <3>2
    <2>3. Parts
      BY <2>1, <2>2 DEF KeysInv, KeysFit, JobsFit, UnlocksAlone, ReadsFit, ScreensFit, Locked
    <2> QED
      BY <1>0, <2>3
  <1>23. CASE ClockRuns \/ ClockTurnedBack
    <2>1. /\ UNCHANGED <<phase, screen, record, wiping, reading, device, live, deviceOpen,
                         session, jobs>>
          /\ (ceremony' = None <=> ceremony = None) /\ (Opening' <=> Opening)
      <3>1. UNCHANGED <<phase, screen, record, wiping, reading, device, live, deviceOpen,
                        session, jobs>>
        BY <1>23 DEF ClockRuns, ClockTurnedBack, vars, disk
      <3>2. \/ UNCHANGED ceremony
            \/ ceremony \in Ceremonies /\ ceremony.took \in 0 .. CapWait
               /\ ceremony.took # CapWait /\ ceremony' = [ceremony EXCEPT !.took = @ + 1]
        BY <1>23 DEF ClockRuns, ClockTurnedBack, ShellTypeOK, Ceremonies
      <3>3. ASSUME NEW n, ceremony \in Ceremonies, n \in 0 .. CapWait
            PROVE  LET c == [ceremony EXCEPT !.took = n]
                   IN  c # None /\ ceremony # None /\ c.step = ceremony.step
        BY <3>3, CeremonyChange DEF Ceremonies
      <3>4. \/ UNCHANGED ceremony
            \/ ceremony # None /\ ceremony' # None /\ ceremony'.step = ceremony.step
        <4>1. ceremony.took \in 0 .. CapWait /\ ceremony.took # CapWait
                => ceremony.took + 1 \in 0 .. CapWait
          BY ShellAssumption
        <4> QED
          BY <3>2, <3>3, <4>1
      <3> QED
        BY <3>1, <3>4 DEF Opening
    <2>2. Parts
      BY <2>1 DEF KeysInv, KeysFit, JobsFit, UnlocksAlone, ReadsFit, ScreensFit, Locked, MidSetup,
                  Stage
    <2> QED
      BY <1>0, <2>2
  <1> QED
    BY <1>1, <1>2, <1>3, <1>4, <1>5, <1>6, <1>7, <1>8, <1>9, <1>10, <1>11, <1>12, <1>13, <1>14,
       <1>15, <1>16, <1>17, <1>18, <1>19, <1>20, <1>21, <1>22, <1>23
       DEF ShellNext, GuardActs, shellVars, vars

-----------------------------------------------------------------------------
(* The waits *)

\* unlockBackoffMs never asks for more than its cap, and for nothing at first.
LEMMA BackoffBounds ==
  /\ \A n \in Nat : Backoff(n) \in Int /\ Backoff(n) <= CapWait
  /\ Backoff(0) = 0
  <1>1. ASSUME NEW n \in Nat PROVE Backoff(n) \in Int /\ Backoff(n) <= CapWait
    <2>1. CASE n <= FreeTries
      BY <2>1, ShellAssumption DEF Backoff
    <2>2. CASE ~(n <= FreeTries)
      <3>1. n - FreeTries - 1 \in Nat
        BY <2>2, ShellAssumption
      <3>2. \A k \in Nat : 2 ^ k \in Int
        OBVIOUS
      <3>3. \A k \in Int : BaseWait * k \in Int
        BY ShellAssumption
      <3> DEFINE wait == BaseWait * 2 ^ (n - FreeTries - 1)
      <3>4. wait \in Int
        BY <3>1, <3>2, <3>3
      <3>5. Backoff(n) = IF wait < CapWait THEN wait ELSE CapWait
        BY <2>2 DEF Backoff
      <3> HIDE DEF wait
      <3> QED
        BY <3>4, <3>5, ShellAssumption
    <2> QED
      BY <2>1, <2>2
  <1>2. Backoff(0) = 0
    BY ShellAssumption DEF Backoff
  <1> QED
    BY <1>1, <1>2

\* The count, the wait and the try that runs, as the steps that touch none of them, or
\* only wipe the record, leave them.
LEMMA PaceKept ==
  ASSUME ShellTypeOK, PaceInv, UNCHANGED <<ceremony, clock>>,
         \/ UNCHANGED <<record, answered, waited>>
         \/ Stored(record) \/ Stored(None)
  PROVE  PaceInv'
  <1>1. \/ UNCHANGED <<record, answered, waited>>
        \/ record' = None /\ answered' = 0 /\ waited' = waited
    BY DEF Stored, PaceInv
  <1> QED
    BY <1>1, BackoffBounds DEF PaceInv, GuessesArePaced, Asked, ShellTypeOK

\* A record that moves on to another stage keeps its count.
LEMMA StageKeeps ==
  ASSUME NEW r \in Records, NEW s \in Stages
  PROVE  LET m == [r EXCEPT !.stage = s]
         IN  m # None /\ m.count = r.count /\ m.lastAt = r.lastAt
  <1>1. [r EXCEPT !.stage = s] \in Records
    BY RecordChange
  <1> QED
    BY <1>1, RecordChange DEF Records

\* Every step keeps the count and the wait behind it.
LEMMA PaceStep ==
  ShellTypeOK /\ LockInv /\ KeysInv /\ PaceInv /\ [ShellNext]_shellVars => PaceInv'
  <1> SUFFICES ASSUME ShellTypeOK, LockInv, KeysInv, PaceInv, [ShellNext]_shellVars
               PROVE  PaceInv'
    OBVIOUS
  <1>1. CASE UNCHANGED app \/ AppLock
    BY <1>1, PaceKept DEF app, AppLock, disk, pace
  <1>2. CASE UNCHANGED shellVars \/ GuardStops \/ GuardStarts \/ GuardActs \/ LockButton
    BY <1>1, <1>2 DEF shellVars, GuardStops, GuardStarts, LockButton, GuardActs, Told,
          UserInput, PageHidden, PageShown, IdleDue, WarnDue, HiddenDue, TimePasses
  <1>3. CASE ReadStatus
    BY <1>3, PaceKept DEF ReadStatus, Status, Stored
  <1>4. CASE BusyRetry \/ StartPairing \/ LeavePairing \/ SetupDone
    BY <1>4, PaceKept DEF BusyRetry, StartPairing, LeavePairing, SetupDone, disk, pace
  <1>5. CASE Wiped
    BY <1>5, PaceKept DEF Wiped
  <1>6. ASSUME NEW j \in jobs, AfterUnlock(j) \/ OpenVault(j) \/ OpenFails(j) \/ SessionOpens(j)
        PROVE  PaceInv'
    BY <1>6, PaceKept DEF AfterUnlock, OpenVault, OpenFails, SessionOpens, Status, Stored, disk,
       pace
  <1>7. ASSUME ceremony' = None \/ ~Asked', UNCHANGED <<clock, record, answered, waited>>
        PROVE  PaceInv'
    BY <1>7 DEF PaceInv, GuessesArePaced, Asked
  <1>8. CASE Unlock
    BY <1>7, <1>8 DEF Unlock, Asked, disk, pace
  <1>9. CASE CannotUnlock
    BY <1>7, <1>9 DEF CannotUnlock, Rejected, disk, pace
  <1>10. CASE Reload
    BY <1>7, <1>10 DEF Reload, disk, pace
  <1>11. CASE Gesture
    <2>1. CASE Rejected
      BY <1>7, <1>11, <2>1 DEF Gesture, Rejected, disk, pace
    <2>2. CASE ceremony' = [ceremony EXCEPT !.step = "open"]
      <3>1. /\ ceremony' # None /\ ceremony'.took = ceremony.took
            /\ ceremony'.now = ceremony.now /\ ceremony'.tier = ceremony.tier
        BY <1>11, <2>2, CeremonyChange DEF Gesture, ShellTypeOK, Ceremonies
      <3>2. Asked /\ UNCHANGED <<clock, record, answered, waited>>
        BY <1>11 DEF Gesture, Asked, disk, pace
      <3> QED
        BY <3>1, <3>2 DEF PaceInv, GuessesArePaced, Asked
    <2> QED
      BY <1>11, <2>1, <2>2 DEF Gesture
  <1>12. CASE LoadRecord
    <2>1. UNCHANGED <<clock, answered, waited>>
      BY <1>12 DEF LoadRecord, pace
    <2>2. CASE Rejected /\ UNCHANGED record
      BY <1>7, <2>1, <2>2 DEF Rejected
    <2>3. ASSUME record # None, BackoffRefuses \/ EnforceBackoff
          PROVE  /\ record' # None /\ record'.count = record.count
                 /\ record'.lastAt \in {record.lastAt, clock}
                 /\ record.count \in Nat /\ record.lastAt \in Nat /\ record.tier \in Tiers
      <3>1. record \in Records /\ clock \in Nat
        BY <2>3 DEF ShellTypeOK
      <3>2. [record EXCEPT !.lastAt = clock] \in Records
        BY <3>1, RecordChange
      <3>3. record' \in {record, [record EXCEPT !.lastAt = clock]}
        BY <2>3 DEF BackoffRefuses, EnforceBackoff
      <3> QED
        BY <3>1, <3>2, <3>3, RecordChange DEF Records
    <2>4. CASE record # None /\ BackoffRefuses /\ Rejected
      BY <2>1, <2>3, <2>4 DEF Rejected, PaceInv, GuessesArePaced, Asked, ShellTypeOK
    <2>5. CASE record # None /\ EnforceBackoff
               /\ ceremony' = [step |-> "gesture", tier |-> record.tier, now |-> clock,
                               took |-> 0]
      <3>1. answered = record.count /\ clock \in Nat /\ waited \in 0 .. CapWait
        BY <2>5 DEF PaceInv, ShellTypeOK
      <3>2. record.tier = "passphrase" => waited >= Backoff(record.count)
        <4>1. CASE record.count = 0
          BY <3>1, <4>1, BackoffBounds, ShellAssumption
        <4>2. CASE record.count > 0 /\ record.tier = "passphrase"
          <5>1. Remaining <= 0
            BY <2>5, <4>2 DEF EnforceBackoff
          <5>2. Backoff(record.count) \in Int /\ Backoff(record.count) <= CapWait
            BY <2>3, <2>5, BackoffBounds
          <5>3. Backoff(record.count) <= 0 \/ Backoff(record.count) <= clock - record.lastAt
            BY <2>3, <2>5, <3>1, <5>1, <5>2 DEF Remaining
          <5>4. waited = CapWait \/ waited >= clock - record.lastAt
            BY <2>5, <4>2 DEF PaceInv
          <5> QED
            BY <2>3, <2>5, <3>1, <5>2, <5>3, <5>4, ShellAssumption
        <4> QED
          BY <2>3, <2>5, <4>1, <4>2
      <3>3. ceremony' # None /\ ceremony'.tier = record.tier /\ ceremony'.now = clock
              /\ ceremony'.took = 0
        BY <2>5 DEF None
      <3>4. GuessesArePaced'
        BY <2>1, <3>1, <3>2, <3>3 DEF GuessesArePaced, Backoff
      <3> QED
        BY <2>1, <2>3, <2>5, <3>1, <3>3, <3>4 DEF PaceInv, Asked
    <2> QED
      BY <1>12, <2>2, <2>4, <2>5 DEF LoadRecord
  <1>13. CASE WrongPassphrase
    <2>1. /\ record \in Records /\ ceremony \in Ceremonies /\ answered = record.count
          /\ ceremony.took >= CapWait \/ ceremony.took >= clock - ceremony.now
          /\ record' = [record EXCEPT !.count = @ + 1, !.lastAt = ceremony.now]
          /\ answered' = answered + 1 /\ waited' = ceremony.took /\ ceremony' = None
          /\ UNCHANGED clock
      BY <1>13 DEF WrongPassphrase, Opening, Asked, Rejected, ShellTypeOK, PaceInv
    <2>2. record.count + 1 \in Nat /\ ceremony.now \in Nat /\ ceremony.took \in 0 .. CapWait
      BY <2>1 DEF Records, Ceremonies
    <2>3. record' \in Records /\ record'.count = record.count + 1
            /\ record'.lastAt = ceremony.now
      BY <2>1, <2>2, RecordChange DEF Records
    <2>4. record' # None
      BY <2>3, RecordChange
    <2>5. waited' >= CapWait \/ waited' >= clock' - record'.lastAt
      BY <2>1, <2>3
    <2>6. waited' = CapWait \/ waited' >= clock' - record'.lastAt
      BY <2>1, <2>2, <2>5, ShellAssumption
    <2>7. answered' = record'.count
      BY <2>1, <2>3
    <2>8. ~Asked' /\ GuessesArePaced'
      BY <2>1 DEF Asked, GuessesArePaced
    <2> QED
      BY Zenon, <2>4, <2>6, <2>7, <2>8 DEF PaceInv
  <1>14. CASE Unlocked
    <2>1. clock' = 0 /\ ceremony' = None
      BY <1>14 DEF Unlocked, Held
    <2>2. CASE ceremony.tier = "passphrase" /\ record # None
      <3>a. record' = [record EXCEPT !.count = 0, !.lastAt = 0] /\ answered' = 0
        BY <1>14, <2>2 DEF Unlocked
      <3>b. record \in Records /\ record' \in Records
        BY <2>2, <3>a, RecordChange DEF ShellTypeOK
      <3>1. record' \in Records /\ record'.count = 0 /\ answered' = 0
        BY <3>a, <3>b DEF Records
      <3>2. record' # None
        BY <3>1, RecordChange
      <3> QED
        BY <2>1, <3>1, <3>2 DEF PaceInv, GuessesArePaced, Asked
    <2>3. CASE UNCHANGED <<record, answered, waited>>
      <3>1. record # None => record.lastAt \in Nat
        BY DEF ShellTypeOK, Records
      <3> QED
        BY <2>1, <2>3, <3>1, ShellAssumption
           DEF PaceInv, GuessesArePaced, Asked, ShellTypeOK
    <2> QED
      BY <1>14, <2>2, <2>3 DEF Unlocked
  <1>15. CASE SealSetup \/ SealPairing
    <2>1. /\ record = None /\ ceremony' = None /\ UNCHANGED <<answered, waited>>
          /\ record' # None /\ record'.count = 0
      BY <1>15 DEF SealSetup, SealPairing, MaySeal, Quiet, NewRecord, None
    <2> QED
      BY <2>1 DEF PaceInv, GuessesArePaced, Asked
  <1>16. ASSUME record # None, UNCHANGED <<ceremony, clock, answered, waited>>,
                NEW s \in Stages, record' = [record EXCEPT !.stage = s]
         PROVE  PaceInv'
    <2>1. record' # None /\ record'.count = record.count /\ record'.lastAt = record.lastAt
      BY <1>16, StageKeeps DEF ShellTypeOK
    <2> QED
      BY <1>16, <2>1 DEF PaceInv, GuessesArePaced, Asked, Backoff
  <1>17. CASE MoveSetup \/ PairingDone
    BY <1>16, <1>17 DEF MoveSetup, PairingDone, Stage, Stages, pace
  <1>18. CASE ElsewherePairs
    <2>1. record = None /\ record' # None /\ record'.count = 0
            /\ UNCHANGED <<ceremony, clock, answered, waited>>
      BY <1>18 DEF ElsewherePairs, NewRecord, None, pace
    <2> QED
      BY <2>1 DEF PaceInv, GuessesArePaced, Asked, Backoff
  <1>19. CASE ElsewhereEnds
    <2>1. CASE Stored(record) \/ Stored(None)
      BY <1>19, <2>1, PaceKept DEF ElsewhereEnds
    <2>2. CASE Stored([record EXCEPT !.stage = "done"])
      <3>1. record # None /\ UNCHANGED <<ceremony, clock>>
        BY <1>19 DEF ElsewhereEnds, Stage
      <3>2. [record EXCEPT !.stage = "done"] # None
        BY <3>1, StageKeeps DEF ShellTypeOK, Stages
      <3> QED
        BY <1>16, <2>2, <3>1, <3>2 DEF Stored, Stages
    <2> QED
      BY <1>19, <2>1, <2>2 DEF ElsewhereEnds
  <1>20. CASE ClockRuns
    <2>1. clock' = clock + 1 /\ UNCHANGED <<record, answered>>
      BY <1>20 DEF ClockRuns, disk
    <2>2. /\ waited' \in Int /\ waited' >= waited /\ (waited' = CapWait \/ waited' = waited + 1)
          /\ waited = CapWait => waited' = CapWait
      BY <1>20, ShellAssumption DEF ClockRuns, ShellTypeOK
    <2>3. \/ UNCHANGED ceremony /\ (ceremony = None \/ ceremony.took = CapWait)
          \/ ceremony # None /\ ceremony' = [ceremony EXCEPT !.took = @ + 1]
             /\ ceremony.took # CapWait
      BY <1>20 DEF ClockRuns
    <2>4. ASSUME ceremony # None, ceremony.took # CapWait,
                 ceremony' = [ceremony EXCEPT !.took = @ + 1]
          PROVE  /\ ceremony' # None /\ ceremony'.step = ceremony.step
                 /\ ceremony'.tier = ceremony.tier /\ ceremony'.now = ceremony.now
                 /\ ceremony'.took = ceremony.took + 1
      <3>1. ceremony \in Ceremonies /\ ceremony.took \in 0 .. CapWait
        BY <2>4 DEF ShellTypeOK, Ceremonies
      <3>2. ceremony.took + 1 \in 0 .. CapWait
        BY <2>4, <3>1, ShellAssumption
      <3>3. ceremony' \in Ceremonies
        BY <2>4, <3>1, <3>2, CeremonyChange
      <3> QED
        BY <2>4, <3>1, <3>3, CeremonyChange DEF Ceremonies
    <2>5. ceremony # None => ceremony.now \in Nat /\ ceremony.took \in 0 .. CapWait
      BY DEF ShellTypeOK, Ceremonies
    <2>6. record # None => record.lastAt \in Nat
      BY DEF ShellTypeOK, Records
    <2>7. answered \in Nat /\ clock \in Nat /\ waited \in 0 .. CapWait
      BY DEF ShellTypeOK
    <2>8. GuessesArePaced'
      BY <2>1, <2>2, <2>3, <2>4, <2>7, BackoffBounds, ShellAssumption
         DEF PaceInv, GuessesArePaced
    <2>9. (Asked => ceremony.took >= CapWait \/ ceremony.took >= clock - ceremony.now)'
      BY <2>1, <2>3, <2>4, <2>5, <2>7, ShellAssumption DEF PaceInv, Asked
    <2>10. (record # None /\ record.count > 0 =>
              waited = CapWait \/ waited >= clock - record.lastAt)'
      BY <2>1, <2>2, <2>6, <2>7, ShellAssumption DEF PaceInv
    <2> QED
      BY <2>1, <2>8, <2>9, <2>10 DEF PaceInv
  <1>21. CASE ClockTurnedBack
    <2>1. /\ clock' \in 0 .. clock - 1 /\ UNCHANGED <<record, answered, waited, ceremony>>
          /\ clock \in Nat /\ waited \in 0 .. CapWait
          /\ (record # None => record.lastAt \in Nat)
          /\ (ceremony # None => ceremony.now \in Nat /\ ceremony.took \in 0 .. CapWait)
      BY <1>21 DEF ClockTurnedBack, disk, ShellTypeOK, Records, Ceremonies
    <2> QED
      BY <2>1, ShellAssumption DEF PaceInv, GuessesArePaced, Asked, Backoff
  <1> QED
    BY <1>2, <1>3, <1>4, <1>5, <1>6, <1>8, <1>9, <1>10, <1>11, <1>12, <1>13, <1>14, <1>15, <1>17,
       <1>18, <1>19, <1>20, <1>21 DEF ShellNext, GuardActs

-----------------------------------------------------------------------------
(* The app *)

\* Every step of the app keeps what the auto-lock, the keys and the waits rest on.
LEMMA ShellStepInv == ShellInv /\ [ShellNext]_shellVars => ShellInv'
  <1> SUFFICES ASSUME ShellInv, [ShellNext]_shellVars PROVE ShellInv'
    OBVIOUS
  <1>1. LockInv'
    BY GuardSteps, LockStepInv, FreshInv DEF ShellInv
  <1> QED
    BY <1>1, ShellTypeStep, KeysStep, PaceStep DEF ShellInv

\* The app, from its opening on.
LEMMA ShellInvariant == ShellSpec => []ShellInv
  <1>1. ShellInit /\ [][ShellNext]_shellVars => []ShellInv
    BY ShellInitInv, ShellStepInv, PTL
  <1> QED
    BY <1>1, PTL DEF ShellSpec

\* The types of the App's state, for any number of tries, jobs and handles.
THEOREM ShellTypeCorrect == ShellSpec => []ShellTypeOK
  BY ShellInvariant, PTL DEF ShellInv

\* Keys in memory are the App's one device behind its auto-lock, whatever opens, is
\* locked, is answered late or goes away in whatever order.
THEOREM KeysAlwaysGuarded == ShellSpec => []KeysAreGuarded
  <1>1. ShellInv => KeysAreGuarded
    <2> SUFFICES ASSUME ShellInv PROVE KeysAreGuarded
      OBVIOUS
    <2>1. screen = "ready" => session
      BY DEF ShellInv, KeysInv, ScreensFit
    <2>2. session => live # {}
      BY DEF ShellInv, KeysInv, ReadsFit, KeysFit
    <2>3. live # {} => live = {device} /\ deviceOpen /\ ~Locked
      BY DEF ShellInv, KeysInv, KeysFit
    <2>4. \A j \in jobs : j.stale \/ j.h = device
      BY DEF ShellInv, KeysInv, JobsFit
    <2> QED
      BY <2>1, <2>2, <2>3, <2>4 DEF KeysAreGuarded
  <1> QED
    BY <1>1, ShellInvariant, PTL

\* No passphrase is looked at before the wait its number of wrong ones demands is over,
\* for every cap, base and number of free tries, and however the clock is turned.
THEOREM GuessesAlwaysPaced == ShellSpec => []GuessesArePaced
  <1>1. ShellInv => GuessesArePaced
    BY DEF ShellInv, PaceInv
  <1> QED
    BY <1>1, ShellInvariant, PTL

\* In the app too a timer stands between the open session and each deadline.
THEOREM AppDeadlinesArmed == ShellSpec => []DeadlinesArmed
  BY ShellInvariant, PTL DEF ShellInv, LockInv

\* In the app too no input and no return to the page finds a stale session open.
THEOREM AppNeverSeenStale == ShellSpec => NeverSeenStale
  <1>1. ShellInv /\ [ShellNext]_shellVars => [Fresh]_vars
    <2> SUFFICES ASSUME ShellInv, [ShellNext]_shellVars PROVE [Fresh]_vars
      OBVIOUS
    <2>1. CASE [LockNext]_vars
      BY <2>1, StepIsFresh DEF ShellInv
    <2>2. CASE FreshAutoLock
      BY <2>2, FreshInv DEF Fresh, Listening
    <2> QED
      BY <2>1, <2>2, GuardSteps
  <1>2. ShellInit /\ [][ShellNext]_shellVars => [][Fresh]_vars
    BY <1>1, ShellInvariant, ShellInitInv, ShellStepInv, PTL
  <1> QED
    BY <1>2, PTL DEF ShellSpec, NeverSeenStale, Fresh
=============================================================================
