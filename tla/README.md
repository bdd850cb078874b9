# TLA+ verification of teacher-assistant

Teacher-assistant is an offline-first web app (a PWA) in which a special-education
teacher, and a paraprofessional beside her, record progress points. Devices hold the
records as encrypted Yjs documents and reconcile them through a relay that sees only
ciphertext, opaque ids and device public keys. This directory models the parts of the
system whose correctness depends on the order of events, and the rules its figures are
computed by; it checks the models on small instances with TLC and proves what matters
most for every instance with TLAPS.

## The system

| Part | Code | State it keeps | Operations | What is hard | What makes it correct |
|---|---|---|---|---|---|
| Relay store, control plane | `services/sync-relay/src/store.ts` | devices, scopes, access lists, owner codes, pairing sessions | issue / redeem / invalidate a code, grant, retire, revoke, open / request / complete / take a pairing, sweep | calls of several devices in any order, expiry between two of them | one master scope, never a member's; revocation is final; an owner remains; every device entered by a code or an approval |
| Relay store, documents | `store.ts`, `migrations.ts` | per document: scope, epoch, numbered updates | append, fetch, rotate epochs | other writers between a pull and a push; a restored backup | a cursor never skips an update |
| Relay service | `app.ts`, `postgres-store.ts`, `control-bodies.ts`, `admin.ts` | the same tables in Postgres, requests under way | the routes; the store's methods as transactions or single statements | awaits between authorization and operation, statements outside the control lock, rollbacks, restarts | a revoked key's late request does bounded harm; a document has one scope |
| Redeem guard | `redeem-guard.ts` | failures, windows, lockouts, reservations per address and globally | begin, fail, succeed, release, burned | the attempts await the store between begin and outcome | parallel attempts do not overrun the limit; a lockout lasts; codes are burned in time |
| Sync engine | `packages/sync`, `data/indexeddb-persistence.ts` | the document, `#pending`, `#cursor`; one record at rest | load, capture, sync | everything is asynchronous; crashes, lost answers, several devices | nothing captured is lost before the relay has it; replicas converge |
| First setup | `device/first-setup.ts`, `data/first-device.ts` | the setup stage in the device record, the master's manifest | redeem, finish, issueRecoveryCode, confirm, readDeviceStatus | stops and resumes anywhere; ambiguous redeem | one master key; the recovery wrap matches; done means backed up |
| Pairing | `device/pairing.ts`, `app/pairing` | approver's and joiner's secrets, request, grant | open, poll, checkCode, approve; begin, sealVault, post, poll, discard | a lock or lost answer at every await; two devices scan one code | only the device whose code was typed enters, named; no half-made device stays |
| Shell, vault, auto-lock | `App.tsx`, `device/vault.ts`, `device/auto-lock.ts` | the phase on the screen, the open device and session, the failure count, three timers | status read, unlock, open, lock, reload | a lock lands inside every await; timers are late or early; the clock is turned back | no key is in memory without a guard; wrong passphrases are paced; an open device locks |
| Records and sessions | `data/session.ts`, `repository.ts`, `writes.ts`, the screens, `domain-core` | the master and the para document, the records on the screens, the queue to validate | every write a screen offers, validation, sync | stale screens, concurrent edits, a crash between two documents | a score stays, a removal sticks, a value follows from its Revisions, a goal is whole |
| Reports | `domain-core`, `store/projections.ts`, Goal Detail, dashboard | none: computed from the points | dashboard, mastery, statement, export, chart | entry order against date order, windows, clamps, gaps | figures that show the same thing agree; mastery is real |
| Materials | `store/material-store.ts`, `material-support-store.ts`, `domain-core` | materials, links, audit trails | create, edit, retire, attach, detach, views | field-by-field edits after a link was validated | the trail explains the record; views agree |

How they interact. A page opens a session (`session.ts`), which opens one stream per
document: an encrypted Yjs document, a `SyncEngine`, and the page's IndexedDB record for
it. `capture()` changes the document and saves the record; `sync()` pulls from and pushes
to the relay over signed requests (`relay-client.ts`). The relay (`app.ts`) verifies a
request, asks the store whether the key may touch the scope, and calls one store method.
Keys enter a deployment with an operator's owner code (guarded by the redeem guard) or
through a pairing session that an active owner opened. The screens read the records when
a write of their own has been saved, and not after a sync. The auto-lock tells `App.tsx`
to lock, which drops all state in memory.

## The modules

| Module | Models | Uses |
|---|---|---|
| `RelayStore` | the store's control plane, one action per method | |
| `Enrollment` | abstract: who belongs, which scopes exist, who reads what | |
| `RelayStoreEnrollment` | the refinement mapping between the two | `RelayStore`, `Enrollment` |
| `RelayStore_proofs` | their theorems | TLAPS |
| `RelayService` | routes and Postgres statements; requests interleave between any two | `RelayStore` |
| `RelayService_proofs` | its theorems | the store's proofs |
| `RedeemGuard`, `RedeemGuard_proofs` | the guard and the route that drives it; theorems | TLAPS |
| `DocLog` | append, fetch, cursors and restores for one document (operators and step formulas) | |
| `SyncEngine` | engines, their documents, persistence and requests, composed with the log | `DocLog` |
| `Outbox` | abstract: an update is unknown, held, delivered (what is held is not lost, what is delivered stays) | |
| `SyncProperties` | properties of the engine, mapping to `Outbox` | `SyncEngine`, `Outbox` |
| `SyncEngine_proofs` | their theorems | TLAPS |
| `FirstSetup` | first setup of a device: its record, its manifest, its windows, against the relay | `RelayStore` |
| `FirstSetup_proofs` | `InferredFirstIsFirst`, `MasterMatchesVault`, `DoneIsBackedUp`, `LateStepsMoveNothing`, for any number of windows | a run at work and its record say the same while runs keep apart; nobody takes back what a run made |
| `Shell_proofs` | theorems of the auto-lock, by itself and in the app, and of the app | TLAPS |
| `YMap` | a Yjs map as the code uses it (external) | |
| `BaselineEdit`, `DataPoint` | the pure rules for baseline points, goals and data points | |
| `Records` | documents, writers, screens and the para document on several devices | `YMap`, `BaselineEdit`, `DataPoint` |
| `Caseload` | new goals, the roster and the IEP goal # | `Records` |
| `ReportMath` | what domain-core computes about one goal, as pure operators | |
| `Reports` | a goal's points as they grow, and what every view shows of them | `ReportMath` |
| `Materials` | the material stores and the views over them | |
| `Records_proofs` | theorems of the records, the caseload and the materials | `Caseload`, `Materials` |
| `MC*` | small instances; `MCRelayService` puts the redeem guard beside the routes, `MCDomain` the figures and the library beside the records | |

Operators named `X_Something` directly before `X` are plausible bugs of the code (a
dropped guard, a wrong comparison). They are used by no specification; replacing `X` by
one of them makes the property it is listed with fail, which shows that the property
speaks about the code.

### Relay store

The nine variables are the maps of `InMemoryRelayStore`: `role`/`status` are the
`#devices` rows, `kind`/`retired` the `#scopes`, `acl` the `#acl` sets, `codes` and
`pairings` the other two maps. The methods hold no await, so each is one action; a refused
call changes nothing and is the action's guard being false. Blobs are dropped, a grant
list is a set of (tag, kind) pairs. Any key calls any method at any time: authorization
happens in `app.ts`, and what the store guarantees must not depend on it. The recovery
wrap, one cell overwritten without conditions, is in `FirstSetup`. `Enrollment` is the
contract in three actions: admit, freeze, expel.

### Relay service

A request is authorized (`Authorize`, which includes the sweep a control route starts
with), then runs. A control transaction waits for the advisory lock, reads and decides in
one step and commits in another; nobody sees its writes before. A single statement outside
the lock (`putPairingRequest`, `append`) takes its snapshot in one step and writes in
another, looking again only at the row it writes. `Fail` is a failing or timed-out
statement: rollback and 503. `Restart` loses every request under way and sweeps. `late`
is history: per revoked device, the requests it had under way minus what it changed since.
Signatures are valid; nonces, rate limits and log redaction are left out.

`SessionsAreLive` as the in-memory store guarantees it fails over Postgres: a request put
under an old snapshot may name a key that was revoked meanwhile. What is guaranteed, and
enough because the grant looks again, is `GrantedSessionsAreLive`.

### Document log and sync engine

A Yjs document is the set of updates merged into it (merging commutes and is idempotent);
a blob is a model value. A cursor is an epoch and a number; `newEpoch` is a counter
because a UUID never repeats. `Restore` is the documented procedure: an older log under a
new epoch.

An action is the code between two awaits. `sync()` is pull / reply / push / ack / save,
each relay request has the step in which the relay serves it. The browser's write is a put
request (`PutSucceeds`: what `save` awaits) and a later commit or abort. `Close` is a
crash, reload or lock: memory is lost, a push in flight may still arrive (`ServeStray`).
`HidePull` is the relay's 404, which the client takes for an empty pull. The constants
choose the deployment: `DatabaseOf` (which engines share one record), `Author` (who
captures), `Call` (serial or overlapping `sync()`).

`driven` says that a session has made the one call of `sync()` that `App.tsx:412` owes it;
any other call (`reconcile`) may come and never has to. A page is left with nothing under
way (`Leave`), as often as the teacher likes, or half way (`Close`), which is a fault.

### Redeem guard

`entries` is `#entries`, with the same operators (`Blocked`, `Current`, `Count`,
`EndAttempt`, `Swept`). An attempt is a request between two awaits of the redeem route:
begun, outcome known, codes being invalidated, answered; the invalidation may throw. The
rest is history: `lockEnd`, when a lockout given to a key ends at the latest; `missed`, the
failures since the codes were last invalidated in the store; `forgot`, how many of those
the answer of that invalidation found counted and cleared; `thrown`, whether an
invalidation threw and no failure that could retry it has come since. `CodesBurnedInTime`
asks for an invalidation once the missed failures of a window, less the forgotten ones,
pass the code's limit: a throw buys one failure and no more.

### First setup

A profile is a browser profile with one device record; a run is a `FirstSetup` object in a
window, and several windows of a profile may be open, resume the same setup and work side
by side. A step is what the object does between two awaits: of the network, of the device
record (`Mint`) or of the document's writes (`AddStream`, `AddDevice`), with a crash
possible between any two. The manifest is kept as it is at rest. `finish` reads
its copy of the document once and saves it whole, which is the same as long as one run of a
profile is inside it; of two, the later save wins, and no property speaks of that.

A lock lands while a run waits for an answer or is inside `finish`. What is under way goes
on: an answer still arrives, `recordStage` still writes, `writeStage` does not, the writes
of `initializeMasterDoc` are finished and the request after them is not sent. The client
has no timeout of its own and aborts nothing, so a request of a window that closed or was
given up may be served late as well: it is one of a locked run that nobody listens to.
`readDeviceStatus` and the wipe it decides on are two steps. `Ambiguous` stands for
everything the client cannot interpret (offline, 5xx, 401, 429), before or after the relay
acted.

The recovery wrap carries the master it opens, the recovery code it is sealed under, and
whether it was put for a locked run; `paper` is the code she confirmed. `crossed` is
history of what two runs of a profile did side by side: one opened while another was at
work, two were inside `finish`, one wiped the record of another. Nothing in the code
prevents these, so the properties name the case they hold in: `Apart` (no two inside
`finish`, no such wipe) or `Alone` (none of the three), and violation runs show the others.

Names are model values that are always known before `finish`; the seeded caseload and the
tier are left out, and the pairing stage is `Pairing`'s.

### Pairing

An approving session is named by its sid, a joining run by its browser profile. A step is
the code between two awaits; a request is served and its answer handled in one step unless
one of the two is lost. A lock, a cancel or a closed window lands anywhere and what was
awaited is answered late: the discard's wipe runs beside the storing of a grant. `Begin`
waits for the wipe of a discarded run, so a status read is never overtaken by a new
pairing of its own window. A matching code is the fingerprint of the request and so is
modelled by the key it is made of; the teacher types only codes that devices show.

### Shell and auto-lock

`AutoLock` has every field and handler of the class; a timer that is due may run up to one
unit early and, by itself, arbitrarily late. `Shell` extends it with `App.tsx`'s phases,
the unlock ceremony of `vault.ts` and its failure count, the opening of the sessions and
`lock()`, which the manual button, the auto-lock and a lost device all end in. A handle is
the unlocked device; `live` holds the handles whose secrets are in memory; `jobs` are the
continuations (of an unlock, of a session open) that an await still holds. Setup and
pairing appear where they hand the device over.

Assumed: while an unlock runs its user starts nothing else (`Quiet`), a passkey prompt
takes longer than a read or a wipe of the record (`Settled`), `lock()`'s `flushSync` runs
the effects' cleanups at once (`Flushed`); one window, beside which another window may only
pair.

### Records and caseload

`doc` and `pdoc` are a device's master and para documents, `YMap`s in which a merge keeps
one writer's version of a whole entry; `shown` and `queue` are what its screens hold. A
write changes the document at once and goes on in a job, one step per await: save,
refresh, publish, show, close. `Reopen` is a lock, crash or reload with the unlock that
follows: jobs are gone and everything is read from what is at rest. A sync is the exchange
of everything two sides hold, which `SyncEngine` shows the engines to arrive at. The parts
of the document share no key and are explored one at a time (`topic`): baseline, scoring,
para, caseload, each with its own bounds (`Bound`).

`Caseload` adds the form for a new goal with its gate, the match of the initials with the
roster, adoption and relabelling from stale screens. Labels and typed baselines are model
values; the warning about a duplicate label never blocks and is left out.

What is abstracted: the rows of the projection published into the para document (the step
that publishes is kept), `baselineHistory`, the "fixed after ARC" note, `closeGoalByArc`
(the app does not call it).

### Reports and materials

`ReportMath` has the pure functions of domain-core as operators over sequences of points
(folds, no RECURSIVE): days are numbers, a value is a percentage, an average is kept as sum
and count, a line as its fractions. A goal has its model (only a percentage has a
consistency window), the end of its IEP (a day, none, or no date at all: the gates of the
statement), and what makes it exportable; a point has the condition it was probed under.
`Reports` lets points be entered, fixed, completed, and arrive at any place of the entry
order (another device, a late validation), and defines what the dashboard, the export, Goal
Detail, its chart and the statement show; `subject` is the part of this a behaviour is
about. The references the properties compare with are written from the definitions (all
probes of a stretch of days meet the criterion; the mean over the tail), not from the
code's loops.

`Materials` shares nothing with `Reports` or with `Records`. A record is shown decrypted;
"tags" stands for the segment, block, UDL and CRA facets, "text" for the needles a title
contains; ids are numbers minted in any order and clock readings are free. `MCDomain`
explores the three beside one another, one at a time.

## The runs

| Run | Question | Instance |
|---|---|---|
| `store` | sessions stay usable, one master, an owner remains; implements `Enrollment` | 3 keys, 2 scopes of either kind, 2 codes, 2 session ids of which 1 may be open, clock 0..1 |
| `relay` | what a revoked device may still change, one scope per document, sessions with a grant; lockout and burning of codes under concurrency | 2 owners and a key to add, 2 scopes, 1 document, 2 requests at once of 3 in all, clock 0..1; and the guard: 2 addresses, 2 attempts at once, limit 2, burn after 3 in a window of 5, window and lockout 2, clock 0..6 |
| `engine` | the backlog survives and is shown; convergence of apps that are opened again and again; implements `Outbox` | 2 devices of which 1 captures 2 updates, 1 fault, 1 write in flight, serial calls |
| `replicas` | cursors | 2 devices that both capture, 2 updates, 1 fault, 1 restored backup |
| `setup` | one master and the vault's, safe inference, done means backed up, late steps | 1 profile, 2 windows, 2 keys, 3 tags, 2 owner codes, 2 recovery codes, 1 lost message, clock 0..1, a step of which is more than 24 h |
| `pairing` | who enters, with which name, with which grant; a half-made device goes (liveness) | 1 approver, 2 profiles that scan one code, 2 tries (code 3), 1 lost message, clock 0..1 |
| `records` | audit trails, whole goals, removals, scores, validation; the figures agree with one another and with their definitions; the library's trail and views | per topic `Bound`: 2 devices, 2 baseline writes; 2 score writes; 3 caseload writes; 1 device with a para stream; up to 4 points in 3 weeks of 2 days; 2 materials, 2 links of each kind, 2 goals, 3 writes |
| `fix`, `relock` | two statements of the sources that the code does not meet | 1 device, 2 points; 2 devices, 2 baseline writes |
| `windows`, `paper` | two more | as `setup` |
| `shell` | keys are guarded, guesses paced, an open device locks (liveness) | idle 2, hidden 1, warning 1 before, 1 unit late, 3 events per lock object, 2 handles, 3 tries, clock 0..2 |

Why the bounds suffice.
*Relay:* three keys are an opener, a signer and a third that competes or revokes; a time to
live of 1 with a clock that may advance once lets a session or a code expire before,
between or after any two calls. Two requests at once are the pair that races; the third
comes before or after them.
*Guard:* limit 2 is reached by one settled failure and one attempt under way; the burn
limit by two lockouts in a window; the clock passes each window and two lockouts. The two
attempts are enough for a failure to be counted while an invalidation's answer is due.
*Engine:* two updates are one in the batch and one captured during the push; a fault
is a lost answer or a crash; two devices are enough for one to append between another's
pull and push.
*First setup:* two windows may resume one setup, or one may be at work beside a late step
of a run she locked; one step of the clock expires a record, so a wipe and a second setup
with a second key fit beside a late answer of the first. Two recovery codes are one that is
dropped and one on paper; three tags a master, its stream, and what is minted twice.
*Pairing:* two profiles with one code are the device she looks at and another one; one
lost message hits any request or answer.
*Records:* two devices, each with a screen that is older than its document, and two writes,
one on each side of a merge (the caseload has a third, that follows); scores one of which
differs from the probe's total; one baseline point is enough for adoption (code: 3).
*Reports:* windows of two (code: five), a consistency of two, three scored points in two
weeks for a trend (code: eight in four): four points fill a window and leave one outside,
on either side.
*Shell:* one free try (code: two), a wait of 1 (30 s) capped at 2 (15 min) and three
tries reach the cap; the clock may be turned back.
Counters that the code does not bound are bounded by constants named `Max...` (or
`Bound`, `Room`) in guards.

Symmetry is used only in safety runs, never where liveness is checked. Deadlock checking
is off where the systems may stop: keys, codes, updates and the clock run out.

### Fairness

`FairSyncSpec` asks weak fairness of what the program and its environment owe: the one call
of `sync()` of a session that is open and has not made it (`SessionSync`), and the answer
to a request or a write that nothing fails. Nothing else is owed: not that the app is
opened or left, no further call of `sync()`, no capture. That the apps are opened again and
again is the hypothesis of `EventuallyConverged` (`OpenedAgainAndAgain`): it is how the
teacher uses the app and no promise of the code. Failures, pages closed half way and
restores are never forced and are bounded, which states "once failures stop".
`PairingFairSpec` is fair to the clock and to the steps of one watched
profile, whose page stays open or is opened again; nobody else owes anything. `ShellSpec`
has one weak fairness condition, on starting the guard's effect, on time, and on a due idle
timer: the browser runs suspended timers when it wakes. The user, the other timers and all
events may never come.

### What the violation runs show

- `fix`: fixing a para's point opens the sheet with a second state, `paraFix`. "No data" on
  that sheet clears the sheet alone; the score typed on the next sheet then validates the
  earlier para point and is not recorded itself.
- `relock`: the arc date, the label and the adoption write back the goal a screen holds. A
  screen that was read before another device's adoption arrived undoes it, and the goal
  can be adopted again with another baseline.

- `windows`: the setup lock is taken for a new passkey only. Two windows that resume one
  interrupted setup at `redeemed` both find no grant in the vault and both mint; the vault
  keeps the later master, the relay may be granted the earlier one.
- `paper`: with one window. The put of a wrap whose run she locked is served after that of
  the run she resumed with and confirmed: the relay's one wrap is then sealed under a code
  that was dropped, and the code on her paper opens nothing.

### Observations without a run

Consequences of the code seen in the models, where the number of runs, or the lack of a
sentence in the sources that says otherwise, leaves them as notes.

- *Sync.* `engine.ts:68-69` says that the app drives `sync()` "on reconnect/interval, not
  concurrently". Nothing calls it on reconnect or at intervals: what is captured after a
  session's one call, or whose push failed, waits for the next session, however long the
  page stays open and online. And a session's first `sync()` is not ordered with the
  `reconcile` of `addDevice` (`session.ts:445`): with two calls of one engine TLC finds that
  both splice the same backlog and an update captured between is cut off unsent. A lock
  does not abort a `sync()` under way, whose last save may follow the next session's.
  `save` resolves on the put request, before the transaction commits. Two engines on one
  record (two windows, or the in-process para) overwrite each other's backlog. A restored
  backup loses what devices had pushed and cleared.
- *Redeem guard.* `burned()` clears also the failures that were counted after the
  invalidation it answers for, even those whose own invalidation threw; `app.ts:394` says
  that a throw leaves the count over the limit, so that the next failure retries.
- *Setup.* A record at `keys_created` is wiped after 24 hours without asking the relay: if
  the redeem had landed, the relay has an owner nobody holds the keys of. A device list that
  a locked run asked for may be served after the next run's grant: it then lists a master,
  `recovery` is inferred and recorded over any stage, and the next status read wipes the
  first owner's record, although `first-setup.ts:86-87` says that a post-redeem first setup
  is never wiped (TLC finds it with one window).
- *Pairing.* The relay keeps an enrolled key whose grant's answer was lost, or whose device
  was locked while storing it.
- *Relay.* `GET /sync/:docId` looks at the document's scope and then fetches without one.
- *Shell.* A lock during pairing followed by an unlock while the wipe runs can leave the
  lock screen with no record until a reload. A failure's time is read before the gesture.
- *Records.* A fix of a para's ⊘ point drops the typed score though its Revision shows it;
  two taps on Save make two points; two devices that complete one placeholder give two
  scores; "No data" on a queued sheet leaves the placeholder; a merge keeps one of two
  concurrent Revisions; a para capture between the teacher's refresh and her save is
  dropped at rest. A device with an old master that republishes can delete a row published
  by another. Two offline devices make two students with the same initials. `lifecycle.ts:41`
  says an active goal is always numbered, but the label editor of Goal Detail clears it;
  `CaseloadIsWhole` allows that where the trail says so.
- *Reports.* `ic-export.ts:51` says "One value per instructional week", but `weeklyRows` is
  given no calendar: points of a break week are exported, and the dashboard leaves them out.
  A week's ⊘ is the first entered for the dashboard (`projections.ts:112`) and the newest for
  the export (`ic-export.ts:84-87`), so with marks of two kinds in a week one may be excused
  and the other not. `WeekAgrees` is about instructional weeks, and about the kind of the
  ⊘ where the week has one. An acknowledged mastery stays after a later fix; the chart's aim
  line starts at the first dated mark, the statement's at its first trend point.
- *Materials.* `material-support-store.ts:13-16` and 175 say that a link's posture "can never
  drift" from the material's. It is looked at when the link is made and never again: a later
  edit of the material leaves the link with a posture that attaching would refuse (TLC finds
  it in three writes). Attaching to a student does not look the material up; retired
  materials can be edited and attached.

## The proofs

A theorem holds for every value of a module's constants, under the module's named
assumptions (`StoreAssumption`, `ServiceAssumption`, ...), which TLC evaluates in the runs.
They ask no more than the model needs to mean something: bounds are natural numbers, a
limit is at least one where the code's is, a mark for "none" is not one of the values it
is a mark for, and sets are finite where the code counts their members. Each inductive
invariant was checked with TLC before it was proved.

| Module | Theorems | The argument |
|---|---|---|
| `RelayStore_proofs` | the store implements `Enrollment`; the types; `MasterStaysWithTheOwners`, `AccessOnlyForActiveDevices`, `OwnerRemains`, `SessionsAreLive`; `RevokedForever`, `RolesAndKindsAreFixed`, `EnrolledByCodeOrPairing`; `OpenSessionsBounded` | see below; each method is an `Admit`, a `Freeze`, an `Expel` or a stutter |
| `RelayService_proofs` | `RevocationTakesHold`, `OneScopePerDocument`, `GrantedSessionsAreLive`; the store's invariants and the `Enrollment` contract over split statements | what was decided under the lock stands; an allowance per late request |
| `RedeemGuard_proofs` | the types; `NoOverrun`, `ReservationsExact`, `LockoutHolds`, `CodesBurnedInTime` | a reservation stands for every attempt, and a locked key has none; what the guard has not counted of the missed failures it forgot |
| `SyncEngine_proofs` | `BacklogIsVisible`, `CursorNeverSkips`; the safety of `Outbox` | honest cursors; what is saved is what is in memory |
| `Pairing_proofs` | `EnrolledIsNamed`, `OnlyWhatSheTyped`, `OnlyTypedEnter`, `DoneHoldsTheGrant`, `LiveJoinKeepsItsRecord`, `NothingSentAfterALock`; every step is a store call | what the approver read is what the relay holds; the setup lock |
| `FirstSetup_proofs` | `InferredFirstIsFirst`; with one window per profile `MasterMatchesVault`, `DoneIsBackedUp`, `LateStepsMoveNothing` | a live run and its record say the same; nobody takes back what a run made |
| `Shell_proofs` | `DeadlinesArmed`, `NeverSeenStale` of the class and of the app; `KeysAreGuarded`, `GuessesArePaced` | the deadline of a hidden page is counted from when it was left; nobody opens a device while one is open; the time that passed is no less than the clock says |
| `Records_proofs` | `RecordsExplainThemselves`, `CaseloadIsWhole`, `RemovalSticks`, `ScoresStay`, `ValidatedIsNotOffered`; `RevisionsExplainMaterials` | what every item says, whichever wins; all copies of a data point say the same |

*Relay store.* The invariants are not inductive one by one. The master stays out of a
member's list only while registered tags are the only ones in any list; a session
is live only while a revocation ends what its device left; an owner remains only because
a member enters through an active owner's session. `StoreInv` is their conjunction with
`RowsAgree` (a key has a role exactly when it has a row; only period scopes retire).
`RowsInv` is its part without sessions, which is what the refinement and the service need.
The action properties follow from it one action at a time. That at most
`MAX_OPEN_PAIRINGS` sessions are open is an argument of its own, about the cardinality of a
finite set that grows by one in the only action that looks at its size.

*Relay service.* `Stands` says, of an operation that has decided under the advisory lock
and not yet committed, on which facts its writes rest; `LockHolds` says that they still
hold. The proof is that none of the steps another request can take meanwhile (an
authorization, a decision that has to wait, a single statement outside the lock) changes
one. With it a commit is a store method, and the store's invariants and the contract
survive the split. `RevocationTakesHold` needs a count: `Armed` are the requests of a
device that may still change something, and `late` is at least their number
(`AllowanceCovers`); a revocation sets the count, and no request of a revoked key joins.
A session may name a revoked key here, which is why `GrantedSessionsAreLive` carries that
a granted session has a signer, and looks at the signer when the grant is written.

*Redeem guard.* The map's operators are pure, so what `Reserve`, `EndAttempt` and `Count` do
to a key, to the others and to a lockout is a lemma each (`ReserveTakesOne`,
`EndGivesBackOne`, `CountFillsTheRoom`), and a step composes two or four of them.
`GuardInv` ties the reservations to the attempts under way by cardinality; so an attempt
that ends finds its reservation, its entry is not locked (a locked key has none), and
nothing that it does can drop or shorten a lockout (`LockoutsKept`).

Its burn window filters a sequence of any length. `RecentIs` shows that the filter's
recursion has a result, `RecentOfBoth` that it filters a sequence cut in two part by part,
`WindowSlides` that a later time keeps no more. `BurnInv` cuts two sequences: the missed
failures are `r` and then `q`, the guard's own are `p` and then the same `q`, and `r` is no
longer than what was forgotten. So when the guard's window is within the limit the missed
failures pass it by no more than `forgot`; when it is not, an invalidation has been asked
for, or threw. A failure ends both sequences; an invalidation empties the missed one, and a
late `burned()` the guard's, where what is missed becomes what is forgotten.

*Sync engine.* `EngineInv`: a cursor of the log's present epoch points into the log and
everything below it is merged, and an epoch that is gone never comes back, so a restored
backup cannot make a cursor lie; every record at rest and every put request carries a
state that memory once had, so it inherits what is true of memory; a document only grows
while its page is open, so a pull sent long ago is still honest when it is merged. The
refinement of the Outbox's safety has three hypotheses, each of them the deployment's
rule and each needed: `Serial` (two `sync()` at once splice the backlog twice),
`OwnDatabases` (two engines on one record overwrite each other) and `MaxRestores = 0`
(a restored backup takes delivered updates back). The invariant it adds: of two states that
may reach the disk one after the other, the later holds what the earlier holds and the
relay has not got. The run `engine` has them as its constants; `replicas`
checks the cursors with a restore.

*Pairing.* Every step is a call of the store or leaves it alone (`PairingRunsOnTheStore`),
so `StoreInv` holds beside `PairingInv`. On the approver's side, what she read is what is
in the mailbox and what the session's signer posted, because the first request wins and a
session id is opened once; past the matching screen its key was typed, and before the
grant it was named. On the joiner's side, a run agrees with the device record, because the
setup lock keeps other runs and the status read off it until the discard's wipe has ended.
`OnlyTypedEnter`, which no run lists, says what the two give together: after the first
device nobody is in the deployment whose code she did not type.

*First setup.* `StoreInv` holds here too, and there are two invariants beside it.
`InferInv`, for `InferredFirstIsFirst`, is only about who is enrolled: the relay tells every
device it enrolls its mode, one of the owners was told "first", and a master is an owner's;
so a device that lists no other owner's master is itself that one. `VaultInv`, for the rest, says what a run's screen, its record, its manifest, the relay's
rows and the wrap owe one another, and has three layers, because windows may work side by
side. `BaseInv` (types, the store, the shape of a run) always holds. `FitInv` holds while
`Apart`: at most one run of a profile is inside `finish`; a run at work and its record have
the same key (`WorkFits`), its tag is the vault's or of a key that is gone; a stage that is
recorded was reached; a device's rows are its vault's; a stream is nobody's master, and the
wrap opens a granted one. `AloneInv` holds while `Alone`: one run is at work, its record's
stage is where it stands, and the code on paper is the wrap's unless the wrap was put late.
Since `crossed` only grows, each layer has to be kept only by steps after which its
hypothesis still holds. The run that steps restores its own part. For all others it is
enough that the step only adds to access, masters, names, streams and wraps.
`NoneAssumption` says that the mark for "nothing" is not one of the things it is a mark for.

*App shell.* `LockInv` adds that a hidden page's `#hiddenAt` is when it was left, and that
a stopped object has no timer left. It is proved for `LockSpec`, the class by itself in
any use, and for `ShellSpec`, of which every step is one of the class, leaves it alone or
builds a new one. `KeysAreGuarded` is not inductive: that keys in memory are the App's one
device rests on nobody opening another while one is open. An unlock runs while nothing is
open (`UnlocksAlone`); of the jobs under way one at most is not too late, and it holds the
App's device (`JobsFit`); a device without a job of its own stands behind a screen that
cannot unlock, seal or pair (`ScreensFit`), and no status that is still being read leads
away from that screen (`ReadsFit`). `GuessesArePaced` needs that the record counts every
wrong passphrase that was answered, and that the time passed since the last of them, and
since a try read the clock, is at least the difference the clock shows (`PaceInv`): a clock
turned back only makes a wait longer.

*Records.* A replica reads a key as the last of its items in the order in which Yjs settles
concurrent writes. That order is well-founded, because an item's path is, so a map that has
a key reads one of its items; which one is never needed. `MasterInv` therefore speaks about
every item of every replica: a value fits its key, beside the keys of the map it is in
(`Fits`: a baseline follows from its Revisions and a removed one has its marker, a goal is
whole and has its student and its probe). Documents only grow, so what fits stays fit
wherever it is merged. Data points are alone in being written over from copies that were
taken earlier, and in being deleted: `PointsInv` says that all copies of a point, in
documents, queues, open sheets and fixes, agree on what it says, so a write from a stale
copy undoes no score, that only what is a bookmark in every copy can be deleted, and that a
pending point is written once. `ScreensInv` types the rest. The theorems hold for any
devices, goals, scores, forms and bounds; `RecordsAssumption` asks for at least one device
and one goal and for a score on the probe's total, `CaseloadAssumption` that a form does not
call its baseline a missing component, which has a field of its own.

*Materials.* The library has a section of its own in the same module. `MaterialOK` says of
one material that each Revision starts where the one before ended, that every stage keeps
the rules and that a retired one stays retired; a write carries the chain on by one
(`RevisedIsExplained`). Facets may be any value, so the proof says of the Revisions only
that they are a sequence over some set.

Stated by theorems and listed by no run:
`StoreTypeOK`, `AccessOnlyForActiveDevices`, `RevokedForever`, `RolesAndKindsAreFixed`,
`EnrolledByCodeOrPairing`, `OpenSessionsBounded`, `EnrolledWithCodeOrGrant`, `LockHolds`,
`ReservationsExact`, `SyncTypeOK`, `PairingTypeOK`, `OnlyTypedEnter`,
`NothingSentAfterALock`, `SetupTypeOK`, `GuardTypeOK`,
`LockTypeOK`, `ShellTypeOK`.

Only model-checked:

- *Liveness and ENABLED*: `EventuallyConverged`, `HalfMadeGoes`, `LeftOpenIsLocked`. The provers here do not reason about ENABLED, which weak fairness is
  defined by.
- *Figures over sequences of points*: `MasteryIsSustained`, `AveragesAgree`, `WeekAgrees`,
  `NoDataIsAGap`, and `ViewsAgree` for the library. They are made of `SortSeq`, `FoldLeft`
  and `SelectSeq` with operators as arguments. `SortSeq` comes from the module `TLC`, whose
  operators the provers take as unknown; and what the other two compute needs an induction
  over the sequence for each operator they are given.

Where a proof needs an induction over the naturals, it looks for the least number that fails
(`UpTo` in `RedeemGuard_proofs`; `Records_proofs` does so for the paths of items), because
the library's induction theorems take an operator as a parameter.

## Not modelled, and why

- *Cryptography, encodings, parsing, logging, configuration, layout and wording*: no state
  machine, or outside what the properties tell apart. A key opens what was sealed under it.
- *The auth package's throttle and WebAuthn verification*: nothing calls them but the
  package's tests. *Stub services, build-time checks, the verification dashboard, the
  synthetic seed*: no behaviour of the deployed system.
- *The nonce cache and the rate limits of the relay*: defences against traffic, with no
  bearing on the state the properties are about.
- *Rows of the para projection*: a pure filter of the records; the step that publishes it
  is in `Records`.
- *Dashboard orderings and view models*: presentation; the figures they carry are in
  `Reports`.

What could follow: two windows of one profile in `Shell`, the rows of the
para projection in `Records`, and lemmas about sorting and folding for the figures of
`Reports`.
