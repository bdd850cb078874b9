\* Auto-lock in minutes: idle 2, hidden 1, warning 1 before, the clock up to 1 late.
\* Backoff in units of 30 s, after 1 free try: 1, 2, 2, ...
CONSTANTS
    IdleMs = 2
    HiddenMs = 1
    WarnBefore = 1
    MaxLate = 1
    MaxEvents = 3
    FreeTries = 1
    BaseWait = 1
    CapWait = 2
    Handles = {1, 2}
    MaxTries = 3
    MaxClock = 2
    MaxJobs = 2
SPECIFICATION ShellSpec
INVARIANTS DeadlinesArmed KeysAreGuarded GuessesArePaced
PROPERTIES NeverSeenStale LeftOpenIsLocked
