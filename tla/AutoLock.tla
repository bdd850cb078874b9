-------------------------------- MODULE AutoLock --------------------------------
(***************************************************************************)
(* When an unlocked session is locked (apps/pwa/src/device/auto-lock.ts):  *)
(* idle too long, hidden too long, or on demand.  Timers may run late by   *)
(* any amount (iOS suspends them) and a little early; the page's events    *)
(* come in any order.  One AutoLock object, from its construction on.      *)
(***************************************************************************)
EXTENDS Integers

CONSTANTS
    IdleMs, HiddenMs, WarnBefore,  \* idleMs, hiddenMs, WARN_BEFORE_MS
    MaxLate,   \* model bound: how long past the idle deadline the clock runs
    MaxEvents  \* model bound: inputs, visibility changes, stops and starts

ASSUME LockAssumption ==
    /\ WarnBefore \in Nat \ {0}
    /\ IdleMs \in Nat /\ IdleMs > WarnBefore
    /\ HiddenMs \in Nat \ {0}
    /\ MaxLate \in Nat /\ MaxEvents \in Nat

VARIABLES
    now,
    surface,      \* the surface's visibilityState
    lastInput,    \* #lastInput
    hiddenAt,     \* #hiddenAt, Off when null
    idleTimer, warnTimer, hiddenTimer,  \* when each is due, Off when cleared
    warning,      \* #warning
    phase,        \* "listening" between start() and stop(), then, once #locked,
                  \* the reason given to onLock
    events,       \* events so far (model bound)
    leftAt        \* history: when the page was last hidden while listening

timers == <<idleTimer, warnTimer, hiddenTimer>>
vars == <<now, surface, lastInput, hiddenAt, timers, warning, phase, events, leftAt>>

Off == -1
Due == Nat \cup {Off}
Listening == phase = "listening"
Locked == phase \in {"idle", "hidden", "manual"}

LockTypeOK ==
    /\ now \in Nat /\ lastInput \in 0 .. now
    /\ surface \in {"visible", "hidden"} /\ warning \in {"clear", "shown"}
    /\ phase \in {"stopped", "listening", "idle", "hidden", "manual"}
    /\ hiddenAt \in (0 .. now) \cup {Off} /\ leftAt \in 0 .. now
    /\ idleTimer \in Due /\ warnTimer \in Due /\ hiddenTimer \in Due
    /\ events \in 0 .. MaxEvents

LockInit ==
    /\ now = 0 /\ lastInput = 0 /\ hiddenAt = Off /\ leftAt = 0
    /\ surface \in {"visible", "hidden"}
    /\ idleTimer = Off /\ warnTimer = Off /\ hiddenTimer = Off
    /\ warning = "clear" /\ phase = "stopped"
    /\ events = 0

Event == events < MaxEvents /\ events' = events + 1

-----------------------------------------------------------------------------
\* #scheduleIdle, with the last input at time t.
ScheduleIdle(t) ==
    /\ idleTimer' = IF t + IdleMs > now THEN t + IdleMs ELSE now
    /\ warnTimer' = IF t + IdleMs - WarnBefore > now THEN t + IdleMs - WarnBefore ELSE Off

\* Mutant: the deadline is kept where the time of hiding is expected.
OnHidden_Deadline ==
    hiddenAt' = now + HiddenMs /\ hiddenTimer' = now + HiddenMs /\ leftAt' = now

\* #onHidden
OnHidden == hiddenAt' = now /\ hiddenTimer' = now + HiddenMs /\ leftAt' = now

\* stop() clears every timer.
ClearTimers == idleTimer' = Off /\ warnTimer' = Off /\ hiddenTimer' = Off

\* #lock
Lock(why) == phase' = why /\ ClearTimers

\* Mutant: the page is taken to be visible.
Start_Visible ==
    /\ phase = "stopped"
    /\ Event
    /\ phase' = "listening" /\ lastInput' = now
    /\ ScheduleIdle(now)
    /\ UNCHANGED <<now, surface, warning, hiddenAt, hiddenTimer, leftAt>>

\* start()
Start ==
    /\ phase = "stopped"
    /\ Event
    /\ phase' = "listening" /\ lastInput' = now
    /\ IF surface = "visible" THEN UNCHANGED <<hiddenAt, hiddenTimer, leftAt>> ELSE OnHidden
    /\ ScheduleIdle(now)
    /\ UNCHANGED <<now, surface, warning>>

\* stop()
Stop ==
    /\ Listening
    /\ Event
    /\ phase' = "stopped" /\ ClearTimers
    /\ UNCHANGED <<now, surface, lastInput, hiddenAt, warning, leftAt>>

\* lockNow()
LockNow ==
    /\ ~Locked
    /\ Lock("manual")
    /\ UNCHANGED <<now, surface, lastInput, hiddenAt, warning, events, leftAt>>

Idle == now - lastInput >= IdleMs

\* Mutant: an input resets the clock however late it comes.
OnInput_NoCheck ==
    /\ Listening /\ surface = "visible"
    /\ Event
    /\ lastInput' = now /\ warning' = "clear" /\ ScheduleIdle(now)
    /\ UNCHANGED <<now, surface, hiddenAt, hiddenTimer, phase, leftAt>>

\* #onInput: the first input after a long idle locks instead of counting.
OnInput ==
    /\ Listening /\ surface = "visible"
    /\ Event
    /\ IF Idle
       THEN Lock("idle") /\ UNCHANGED <<lastInput, warning>>
       ELSE /\ lastInput' = now /\ warning' = "clear" /\ ScheduleIdle(now)
            /\ UNCHANGED <<hiddenTimer, phase>>
    /\ UNCHANGED <<now, surface, hiddenAt, leftAt>>

\* The page is hidden; #onVisibility runs while listening.
Hide ==
    /\ surface = "visible" /\ surface' = "hidden"
    /\ Event
    /\ IF Listening THEN OnHidden ELSE UNCHANGED <<hiddenAt, hiddenTimer, leftAt>>
    /\ UNCHANGED <<now, lastInput, idleTimer, warnTimer, warning, phase>>

HiddenTooLong == hiddenAt # Off /\ now - hiddenAt >= HiddenMs

\* The page is shown: both clocks are read before anything renders.
Show ==
    /\ surface = "hidden" /\ surface' = "visible"
    /\ Event
    /\ hiddenAt' = IF Listening THEN Off ELSE hiddenAt
    /\ \/ ~Listening /\ UNCHANGED <<timers, phase>>
       \/ Listening /\ HiddenTooLong /\ Lock("hidden")
       \/ Listening /\ ~HiddenTooLong /\ Idle /\ Lock("idle")
       \/ Listening /\ ~HiddenTooLong /\ ~Idle
          /\ hiddenTimer' = Off /\ ScheduleIdle(lastInput) /\ UNCHANGED phase
    /\ UNCHANGED <<now, lastInput, warning, leftAt>>

-----------------------------------------------------------------------------
\* A timer runs once it is due, at most one unit early, however late.
Fires(due) == due # Off /\ now + 1 >= due

\* Mutant: a timer that ran early is not armed again.
OnIdleDue_Once ==
    /\ Fires(idleTimer)
    /\ IF Idle THEN Lock("idle")
               ELSE idleTimer' = Off /\ UNCHANGED <<warnTimer, hiddenTimer, phase>>
    /\ UNCHANGED <<now, surface, lastInput, hiddenAt, warning, events, leftAt>>

\* #onIdleDue
OnIdleDue ==
    /\ Fires(idleTimer)
    /\ IF Idle THEN Lock("idle")
               ELSE ScheduleIdle(lastInput) /\ UNCHANGED <<hiddenTimer, phase>>
    /\ UNCHANGED <<now, surface, lastInput, hiddenAt, warning, events, leftAt>>

\* #onWarnDue
OnWarnDue ==
    /\ Fires(warnTimer)
    /\ warning' = "shown" /\ warnTimer' = Off
    /\ UNCHANGED <<now, surface, lastInput, hiddenAt, idleTimer, hiddenTimer,
                   phase, events, leftAt>>

\* The hidden timer locks without looking at the clock.
OnHiddenDue ==
    /\ Fires(hiddenTimer)
    /\ Lock("hidden")
    /\ UNCHANGED <<now, surface, lastInput, hiddenAt, warning, events, leftAt>>

Tick ==
    /\ Listening /\ now < lastInput + IdleMs + MaxLate
    /\ now' = now + 1
    /\ UNCHANGED <<surface, lastInput, hiddenAt, timers, warning, phase, events, leftAt>>

LockNext ==
    \/ Start \/ Stop \/ LockNow \/ OnInput \/ Hide \/ Show
    \/ OnIdleDue \/ OnWarnDue \/ OnHiddenDue \/ Tick

LockSpec == LockInit /\ [][LockNext]_vars

-----------------------------------------------------------------------------
(***************************************************************************)
(* While an AutoLock listens, a timer stands between the session and each  *)
(* deadline, through every order of inputs, hiding, showing and restarts:  *)
(* the idle one always, the hidden one exactly while the page is hidden.   *)
(***************************************************************************)
DeadlinesArmed ==
    Listening => /\ idleTimer = lastInput + IdleMs
                 /\ hiddenTimer = IF surface = "visible" THEN Off ELSE leftAt + HiddenMs

(***************************************************************************)
(* However late the timers run, a session that has been idle or hidden too *)
(* long is never seen or used again: an input or a return to the page      *)
(* finds it locked.                                                        *)
(***************************************************************************)
NeverSeenStale ==
    [][Listening /\ Listening' /\ surface' = "visible"
          /\ (surface' # surface \/ lastInput' # lastInput) =>
             /\ now - lastInput < IdleMs
             /\ surface' # surface => now - leftAt < HiddenMs]_vars

===============================================================================
