------------------------------ MODULE RedeemGuard ------------------------------
(***************************************************************************)
(* The lockout of the owner-code redeem route                              *)
(* (services/sync-relay/src/redeem-guard.ts) and the part of the route     *)
(* (app.ts) that drives it.  The route awaits the store between begin()    *)
(* and the outcome, and again while the codes are invalidated, so several  *)
(* attempts are under way at once; each method is one step.  One relay     *)
(* process: its state starts empty when the relay restarts.                *)
(***************************************************************************)
EXTENDS Integers, FiniteSets, Sequences

CONSTANTS
    Ip,           \* client addresses
    Global,       \* GLOBAL_KEY
    Attempt,      \* model bound: requests being served at once
    NoEntry,      \* no entry under a key
    MaxFailures, WindowMs, LockoutMs,  \* REDEEM_LOCKOUT
    BurnAfter,    \* BURN_AFTER_FAILURES
    BurnWindow,   \* BURN_WINDOW_MS
    SweepAt,      \* SWEEP_AT
    MaxClock      \* model bound on the clock

ASSUME GuardAssumption ==
    /\ Global \notin Ip /\ IsFiniteSet(Attempt)
    /\ MaxFailures \in Nat \ {0}
    /\ WindowMs \in Nat /\ LockoutMs \in Nat \ {0}
    /\ BurnAfter \in Nat /\ BurnWindow \in Nat \ {0}
    /\ SweepAt \in Nat /\ MaxClock \in Nat

Key == Ip \cup {Global}
Entry == [failures : Nat, windowStart : Nat, lockedUntil : Nat, inFlight : Nat]
ASSUME NoEntryAssumption == NoEntry \notin Entry

VARIABLES
    clock,
    entries,       \* #entries
    burnFailures,  \* #burnFailures
    attempts,      \* the requests: their address and where they await
    lockEnd,       \* history: the latest end of a lockout each key was given
    missed,        \* history: the failures since the codes were last invalidated
    forgot,        \* history: how many of them burned() has cleared
    thrown         \* history: an invalidation threw, and no failure came since

guardVars == <<entries, burnFailures>>
history == <<lockEnd, missed, forgot, thrown>>
redeemVars == <<clock, guardVars, attempts, history>>

NoAttempt == [at |-> "none", ip |-> Global]

GuardTypeOK ==
    /\ clock \in Nat
    /\ entries \in [Key -> Entry \cup {NoEntry}]
    /\ burnFailures \in Seq(Nat)
    /\ attempts \in [Attempt -> [at : {"none", "open", "burn", "burned"}, ip : Key]]
    /\ lockEnd \in [Key -> Nat]
    /\ missed \in Seq(Nat) /\ forgot \in Nat
    /\ thrown \in BOOLEAN

GuardInit ==
    /\ clock = 0
    /\ entries = [k \in Key |-> NoEntry]
    /\ burnFailures = <<>>
    /\ attempts = [a \in Attempt |-> NoAttempt]
    /\ lockEnd = [k \in Key |-> 0]
    /\ missed = <<>> /\ forgot = 0 /\ thrown = FALSE

-----------------------------------------------------------------------------
(* One key of the map; E is the map, t the time *)

\* #windowOver
WindowOver(e, t) ==
    IF e.lockedUntil = 0 THEN t - e.windowStart > WindowMs ELSE e.lockedUntil <= t

\* Mutant: attempts under way are not counted.
Blocked_SettledOnly(E, k, t) ==
    /\ E[k] # NoEntry
    /\ \/ E[k].lockedUntil > t
       \/ (IF WindowOver(E[k], t) THEN 0 ELSE E[k].failures) >= MaxFailures

\* #blocked: an attempt under way counts as if it had failed.
Blocked(E, k, t) ==
    /\ E[k] # NoEntry
    /\ \/ E[k].lockedUntil > t
       \/ (IF WindowOver(E[k], t) THEN 0 ELSE E[k].failures) + E[k].inFlight >= MaxFailures

\* Mutant: the sweep forgets attempts under way and lockouts.
Swept_Forgetful(E, t) ==
    [k \in Key |-> IF E[k] # NoEntry /\ E[k].windowStart < t THEN NoEntry ELSE E[k]]

\* #sweep
Swept(E, t) ==
    [k \in Key |->
        IF /\ E[k] # NoEntry
           /\ E[k].inFlight = 0 /\ E[k].lockedUntil <= t
           /\ t - E[k].windowStart > WindowMs
        THEN NoEntry ELSE E[k]]

Tracked(E) == Cardinality({k \in Key : E[k] # NoEntry})

\* #current: the entry, created (sweeping a full map first) or restarted.
Current(E, k, t) ==
    CASE E[k] = NoEntry ->
            [(IF Tracked(E) >= SweepAt THEN Swept(E, t) ELSE E) EXCEPT ![k] =
                [failures |-> 0, windowStart |-> t, lockedUntil |-> 0, inFlight |-> 0]]
      [] E[k] # NoEntry /\ WindowOver(E[k], t) ->
            [E EXCEPT ![k].failures = 0, ![k].windowStart = t, ![k].lockedUntil = 0]
      [] OTHER -> E

Reserve(E, k, t) == [Current(E, k, t) EXCEPT ![k].inFlight = @ + 1]

\* #count on #current.
Count(E, k, t) ==
    LET C == Current(E, k, t)
        n == C[k].failures + 1
    IN  [C EXCEPT ![k].windowStart = IF n = 1 THEN t ELSE @,
                  ![k].failures = n,
                  ![k].lockedUntil = IF n >= MaxFailures THEN t + LockoutMs ELSE @]

\* #endAttempt: an entry left without a live failure or an attempt is dropped.
EndAttempt(E, k, t) ==
    IF E[k] = NoEntry THEN E
    ELSE LET n == E[k].inFlight - 1
         IN  [E EXCEPT ![k] =
                IF n = 0 /\ (E[k].failures = 0 \/ WindowOver(E[k], t))
                THEN NoEntry ELSE [@ EXCEPT !.inFlight = n]]

\* Mutant: release is not idempotent, the route's finally ends the attempt again.
Release_Twice(E, ip, t) ==
    EndAttempt(EndAttempt(EndAttempt(EndAttempt(E, Global, t), ip, t), Global, t), ip, t)

\* release(): both keys; a second call does nothing.
Release(E, ip, t) == EndAttempt(EndAttempt(E, Global, t), ip, t)

-----------------------------------------------------------------------------
(* The redeem route *)

\* begin(ip): both keys are looked at, then both are reserved.
Begin(a, ip) ==
    /\ attempts[a].at = "none"
    /\ ~Blocked(entries, Global, clock) /\ ~Blocked(entries, ip, clock)
    /\ entries' = Reserve(Reserve(entries, Global, clock), ip, clock)
    /\ attempts' = [attempts EXCEPT ![a] = [at |-> "open", ip |-> ip]]
    /\ UNCHANGED <<clock, burnFailures, history>>

\* The filter in fail(): the failures still in the burn window at t.
Recent(s, t) ==
    LET recent[n \in 0 .. Len(s)] ==
            IF n = 0 THEN <<>>
            ELSE IF t - s[n] < BurnWindow THEN Append(recent[n - 1], s[n])
            ELSE recent[n - 1]
    IN  recent[Len(s)]

\* Mutant: the limit is taken for a number of lockouts, not of failures.
BurnDue_Lockouts(s) == Len(s) > BurnAfter * MaxFailures

BurnDue(s) == Len(s) > BurnAfter

\* A refused redeem: fail(), which releases first; past the limit the route goes
\* on to invalidate the codes.
FailAttempt(a) ==
    /\ attempts[a].at = "open"
    /\ LET ip == attempts[a].ip
           R == Release(entries, ip, clock)
           C == Count(Count(R, Global, clock), ip, clock)
       IN  /\ entries' = C
           /\ lockEnd' = [k \in Key |-> IF C[k] # NoEntry /\ C[k].lockedUntil > lockEnd[k]
                                        THEN C[k].lockedUntil ELSE lockEnd[k]]
    /\ burnFailures' = Append(Recent(burnFailures, clock), clock)
    /\ missed' = Append(Recent(missed, clock), clock) /\ thrown' = FALSE
    /\ attempts' = [attempts EXCEPT ![a] =
                      IF BurnDue(burnFailures') THEN [@ EXCEPT !.at = "burn"] ELSE NoAttempt]
    /\ UNCHANGED <<clock, forgot>>

\* succeed(): this address starts afresh, the global count stays.
Succeed(a) ==
    /\ attempts[a].at = "open"
    /\ LET ip == attempts[a].ip
           R == Release(entries, ip, clock)
       IN  entries' = IF R[ip] = NoEntry THEN R
                      ELSE IF R[ip].inFlight = 0 THEN [R EXCEPT ![ip] = NoEntry]
                      ELSE [R EXCEPT ![ip].failures = 0]
    /\ attempts' = [attempts EXCEPT ![a] = NoAttempt]
    /\ UNCHANGED <<clock, burnFailures, history>>

\* A malformed body or a store failure: neither counted nor cleared.
Abandon(a) ==
    /\ attempts[a].at = "open"
    /\ entries' = Release(entries, attempts[a].ip, clock)
    /\ attempts' = [attempts EXCEPT ![a] = NoAttempt]
    /\ UNCHANGED <<clock, burnFailures, history>>

\* invalidateOwnerCodes runs in the store ...
Invalidate(a) ==
    /\ attempts[a].at = "burn"
    /\ attempts' = [attempts EXCEPT ![a].at = "burned"]
    /\ missed' = <<>> /\ forgot' = 0
    /\ UNCHANGED <<clock, guardVars, lockEnd, thrown>>

\* Mutant: burned() is called before the codes are invalidated.
InvalidateFails_Burned(a) ==
    /\ attempts[a].at = "burn"
    /\ attempts' = [attempts EXCEPT ![a] = NoAttempt]
    /\ burnFailures' = <<>> /\ thrown' = TRUE
    /\ UNCHANGED <<clock, entries, lockEnd, missed, forgot>>

\* ... or throws: burned() is not called, so the next failure asks again.
InvalidateFails(a) ==
    /\ attempts[a].at = "burn"
    /\ attempts' = [attempts EXCEPT ![a] = NoAttempt]
    /\ thrown' = TRUE
    /\ UNCHANGED <<clock, guardVars, lockEnd, missed, forgot>>

\* Its answer reaches the route, which calls burned(): every failure is forgotten, those
\* counted meanwhile too.
Burned(a) ==
    /\ attempts[a].at = "burned"
    /\ burnFailures' = <<>> /\ forgot' = Len(missed)
    /\ attempts' = [attempts EXCEPT ![a] = NoAttempt]
    /\ UNCHANGED <<clock, entries, lockEnd, missed, thrown>>

GuardTick == clock < MaxClock /\ clock' = clock + 1 /\ UNCHANGED <<guardVars, attempts, history>>

GuardNext ==
    \/ \E a \in Attempt :
          \/ \E ip \in Ip : Begin(a, ip)
          \/ FailAttempt(a) \/ Succeed(a) \/ Abandon(a)
          \/ Invalidate(a) \/ InvalidateFails(a) \/ Burned(a)
    \/ GuardTick

GuardSpec == GuardInit /\ [][GuardNext]_redeemVars

-----------------------------------------------------------------------------
(* Properties *)

OpenOn(k) == {a \in Attempt : attempts[a].at = "open" /\ k \in {Global, attempts[a].ip}}

(***************************************************************************)
(* A key's reservation count is exactly its attempts under way: release is *)
(* idempotent and no entry is dropped or swept from under one.             *)
(***************************************************************************)
ReservationsExact ==
    \A k \in Key : Cardinality(OpenOn(k)) = IF entries[k] = NoEntry THEN 0
                                            ELSE entries[k].inFlight

(***************************************************************************)
(* Parallel requests cannot all pass the check while earlier ones await    *)
(* the store: failures and attempts under way never exceed the limit, so   *)
(* a locked key has no attempt under way that could still succeed.         *)
(***************************************************************************)
NoOverrun ==
    \A k \in Key : entries[k] # NoEntry =>
        /\ entries[k].failures + entries[k].inFlight <= MaxFailures
        /\ entries[k].lockedUntil > clock => entries[k].inFlight = 0

(***************************************************************************)
(* A lockout lasts: until it ends no attempt begins on the key, whatever   *)
(* else finishes, succeeds or is swept meanwhile.                          *)
(***************************************************************************)
LockoutHolds ==
    [][\A a \in Attempt : attempts[a].at = "none" /\ attempts'[a].at = "open" =>
          lockEnd[Global] <= clock /\ lockEnd[attempts'[a].ip] <= clock]_redeemVars

\* An invalidation is asked for, or one threw and there was no failure that could retry it.
Burning == (\E a \in Attempt : attempts[a].at = "burn") \/ thrown

(***************************************************************************)
(* Past the limit the unused codes are invalidated: unless one is asked    *)
(* for or just threw, no more failures of a burn window are without an     *)
(* invalidation after them than the limit and those that a burned() came   *)
(* upon, which were counted after the invalidation that it answers for.    *)
(***************************************************************************)
CodesBurnedInTime == Len(Recent(missed, clock)) <= BurnAfter + forgot \/ Burning
===============================================================================
