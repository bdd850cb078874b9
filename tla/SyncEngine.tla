------------------------------ MODULE SyncEngine ------------------------------
(***************************************************************************)
(* The offline-first sync engine (packages/sync/src/engine.ts with doc.ts, *)
(* relay-client.ts and the IndexedDB persistence of apps/pwa) for ONE      *)
(* document: several engines, each an open page of the app, one relay.     *)
(* An action is the code between two awaits, so captures, the steps of a   *)
(* sync() and the browser's writes interleave as the event loop allows.    *)
(* A Yjs document is the set of the updates merged into it: merging is     *)
(* commutative and idempotent.                                             *)
(***************************************************************************)
EXTENDS DocLog, FiniteSets, SequencesExt

CONSTANTS
    Engine,      \* SyncEngine instances
    Database,    \* IndexedDB databases (browser profiles)
    DatabaseOf,  \* the database an engine persists to
    Call,        \* concurrent sync() calls an engine may have; one = serial
    NoRecord,    \* nothing persisted yet
    Author,      \* model bound: the engines that capture anything
    MaxWrites,   \* model bound: writes an engine has in flight
    MaxFaults,   \* model bound: failures, crashes and pages closed half way
    MaxRestores  \* model bound: backups restored

ASSUME SyncAssumption ==
    /\ DatabaseOf \in [Engine -> Database]
    /\ Call \cap Update = {}
    /\ Author \subseteq Engine
    /\ MaxWrites \in Nat /\ MaxFaults \in Nat /\ MaxRestores \in Nat

VARIABLES
    open,      \* the engines whose page is open and loaded
    doc,       \* the updates merged into the engine's Y.Doc
    pending,   \* #pending, the captured updates not yet acknowledged
    cursor,    \* #cursor
    driven,    \* the engines whose session has made its own call of sync()
    calls,     \* the sync() calls in progress
    writes,    \* an engine's put requests, oldest first
    disk,      \* the PersistedStream at rest in each database
    captured,  \* history: the updates handed to capture()
    returned,  \* history: those whose capture() has resolved
    stray,     \* pushed batches whose sender has given up waiting
    faults, restores

engineVars == <<open, doc, pending, cursor, driven, calls>>
diskVars == <<writes, disk>>
history == <<captured, returned>>
bounds == <<faults, restores>>
vars == <<logVars, engineVars, diskVars, history, stray, bounds>>

PersistedStream == [pending : Seq(Update), cursor : Cursor, snapshot : SUBSET Update]
ASSUME NoRecordAssumption == NoRecord \notin PersistedStream

\* sync() is between two awaits.  "pull" / "push": the request is sent and not
\* served.  "reply" / "ack": it is served, the response is under way.
Idle == [at |-> "idle", cursor |-> Start, got |-> <<>>, batch |-> <<>>]
SyncCall == [at : {"idle", "pull", "reply", "push", "ack", "save"},
             cursor : Cursor, got : Seq(Update), batch : Seq(Update)]

\* A put request: the cloned value, what awaits it, whether it has succeeded.
Write == [state : PersistedStream, by : Update \cup Call, done : BOOLEAN]

SyncTypeOK ==
    /\ LogTypeOK
    /\ open \in SUBSET Engine
    /\ doc \in [Engine -> SUBSET Update]
    /\ pending \in [Engine -> Seq(Update)]
    /\ cursor \in [Engine -> Cursor]
    /\ driven \in SUBSET Engine
    /\ calls \in [Engine -> [Call -> SyncCall]]
    /\ writes \in [Engine -> Seq(Write)]
    /\ disk \in [Database -> PersistedStream \cup {NoRecord}]
    /\ captured \in SUBSET Update
    /\ returned \in SUBSET captured
    /\ stray \in SUBSET Seq(Update)
    /\ faults \in 0 .. MaxFaults
    /\ restores \in 0 .. MaxRestores

SyncInit ==
    /\ LogInit
    /\ open = {}
    /\ doc = [e \in Engine |-> {}]
    /\ pending = [e \in Engine |-> <<>>]
    /\ cursor = [e \in Engine |-> Start]
    /\ driven = {}
    /\ calls = [e \in Engine |-> [c \in Call |-> Idle]]
    /\ writes = [e \in Engine |-> <<>>]
    /\ disk = [d \in Database |-> NoRecord]
    /\ captured = {} /\ returned = {}
    /\ stray = {}
    /\ faults = 0 /\ restores = 0

Fault == faults < MaxFaults /\ faults' = faults + 1

-----------------------------------------------------------------------------
(* Persistence *)

\* save(#state()): the state as of this call is queued behind earlier writes.
\* The put clones the pending array one microtask later, before any other event.
RoomForWrite(e) == Len(writes[e]) < MaxWrites
Save(e, state, by) ==
    writes' = [writes EXCEPT ![e] = Append(@, [state |-> state, by |-> by, done |-> FALSE])]

FirstUndone(e, i) ==
    /\ i \in DOMAIN writes[e]
    /\ ~writes[e][i].done
    /\ \A j \in 1 .. (i - 1) : writes[e][j].done

\* What resolves or rejects when a write's request does: a capture() or a sync().
Finish(e, by) ==
    calls' = [calls EXCEPT ![e] = [c \in Call |-> IF c = by THEN Idle ELSE @[c]]]

\* The put request succeeds, which is what promisifyRequest awaits.
PutSucceeds(e) ==
    \E i \in DOMAIN writes[e] :
        /\ FirstUndone(e, i)
        /\ writes' = [writes EXCEPT ![e][i].done = TRUE]
        /\ Finish(e, writes[e][i].by)
        /\ returned' = returned \cup ({writes[e][i].by} \cap Update)
        /\ UNCHANGED <<logVars, open, doc, pending, cursor, driven, disk,
                       captured, stray, bounds>>

\* The request fails: save() rejects, what awaited it throws, nothing is undone.
PutFails(e) ==
    \E i \in DOMAIN writes[e] :
        /\ FirstUndone(e, i)
        /\ Fault
        /\ writes' = [writes EXCEPT ![e] = RemoveAt(@, i)]
        /\ Finish(e, writes[e][i].by)
        /\ UNCHANGED <<logVars, open, doc, pending, cursor, driven, disk,
                       history, stray, restores>>

\* The oldest transaction commits, or aborts after its request had succeeded.
Commit(e) ==
    /\ writes[e] # <<>> /\ Head(writes[e]).done
    /\ disk' = [disk EXCEPT ![DatabaseOf[e]] = Head(writes[e]).state]
    /\ writes' = [writes EXCEPT ![e] = Tail(@)]
    /\ UNCHANGED <<logVars, engineVars, history, stray, bounds>>

Abort(e) ==
    /\ writes[e] # <<>> /\ Head(writes[e]).done
    /\ Fault
    /\ writes' = [writes EXCEPT ![e] = Tail(@)]
    /\ UNCHANGED <<logVars, engineVars, disk, history, stray, restores>>

\* Mutant: the snapshot is not merged into the new document.
Open_NoSnapshot(e) ==
    /\ e \notin open
    /\ LET st == disk[DatabaseOf[e]] IN
         /\ open' = open \cup {e}
         /\ doc' = [doc EXCEPT ![e] = {}]
         /\ pending' = [pending EXCEPT ![e] = IF st = NoRecord THEN <<>> ELSE st.pending]
         /\ cursor' = [cursor EXCEPT ![e] = IF st = NoRecord THEN Start ELSE st.cursor]
         /\ driven' = driven \ {e}
    /\ UNCHANGED <<logVars, calls, diskVars, history, stray, bounds>>

\* Mutant: the backlog is not restored.
Open_NoPending(e) ==
    /\ e \notin open
    /\ LET st == disk[DatabaseOf[e]] IN
         /\ open' = open \cup {e}
         /\ doc' = [doc EXCEPT ![e] = IF st = NoRecord THEN {} ELSE st.snapshot]
         /\ pending' = [pending EXCEPT ![e] = <<>>]
         /\ cursor' = [cursor EXCEPT ![e] = IF st = NoRecord THEN Start ELSE st.cursor]
         /\ driven' = driven \ {e}
    /\ UNCHANGED <<logVars, calls, diskVars, history, stray, bounds>>

\* A session opens its stream: a fresh engine, then load().
Open(e) ==
    /\ e \notin open
    /\ LET st == disk[DatabaseOf[e]] IN
         /\ open' = open \cup {e}
         /\ doc' = [doc EXCEPT ![e] = IF st = NoRecord THEN {} ELSE st.snapshot]
         /\ pending' = [pending EXCEPT ![e] = IF st = NoRecord THEN <<>> ELSE st.pending]
         /\ cursor' = [cursor EXCEPT ![e] = IF st = NoRecord THEN Start ELSE st.cursor]
         /\ driven' = driven \ {e}
    /\ UNCHANGED <<logVars, calls, diskVars, history, stray, bounds>>

\* integrateParaSnapshot: merge what the shared database holds, nothing else.
Refresh(e) ==
    /\ e \in open
    /\ disk[DatabaseOf[e]] # NoRecord
    /\ doc' = [doc EXCEPT ![e] = @ \cup disk[DatabaseOf[e]].snapshot]
    /\ UNCHANGED <<logVars, open, pending, cursor, driven, calls, diskVars,
                   history, stray, bounds>>

-----------------------------------------------------------------------------
(* capture() *)

\* transact() queues the sealed update synchronously, then the state is saved.
Capture(e, u) ==
    /\ e \in open
    /\ u \notin captured
    /\ RoomForWrite(e)
    /\ captured' = captured \cup {u}
    /\ doc' = [doc EXCEPT ![e] = @ \cup {u}]
    /\ pending' = [pending EXCEPT ![e] = Append(@, u)]
    /\ Save(e, [pending |-> pending'[e], cursor |-> cursor[e], snapshot |-> doc'[e]], u)
    /\ UNCHANGED <<logVars, open, cursor, driven, calls, disk, returned, stray, bounds>>

-----------------------------------------------------------------------------
(* sync() *)

\* Nothing limits how often sync() is called.  The session owes one call, when it
\* opens (App.tsx); it makes another when its manifest is empty or a device is added.
StartSync(e, c) ==
    /\ e \in open
    /\ calls[e][c].at = "idle"
    /\ driven' = driven \cup {e}
    /\ calls' = [calls EXCEPT ![e][c].at = "pull", ![e][c].cursor = cursor[e]]
    /\ UNCHANGED <<logVars, open, doc, pending, cursor, diskVars, history, stray, bounds>>

ServePull(e, c) ==
    /\ calls[e][c].at = "pull"
    /\ calls' = [calls EXCEPT ![e][c].at = "reply",
                              ![e][c].got = Fetched(calls[e][c].cursor),
                              ![e][c].cursor = LogHead]
    /\ UNCHANGED <<logVars, open, doc, pending, cursor, driven, diskVars,
                   history, stray, bounds>>

\* A 404: pull() returns no updates and the unchanged cursor.
HidePull(e, c) ==
    /\ calls[e][c].at = "pull"
    /\ Fault
    /\ calls' = [calls EXCEPT ![e][c].at = "reply"]
    /\ UNCHANGED <<logVars, open, doc, pending, cursor, driven, diskVars,
                   history, stray, restores>>

\* Mutant: the merged updates are lost, the cursor advances all the same.
Integrate_CursorOnly(e, c) ==
    /\ calls[e][c].at = "reply"
    /\ UNCHANGED doc
    /\ cursor' = [cursor EXCEPT ![e] = calls[e][c].cursor]
    /\ IF pending[e] # <<>>
       THEN /\ calls' = [calls EXCEPT ![e][c] =
                           [Idle EXCEPT !.at = "push", !.batch = pending[e]]]
            /\ UNCHANGED writes
       ELSE /\ RoomForWrite(e)
            /\ calls' = [calls EXCEPT ![e][c] = [Idle EXCEPT !.at = "save"]]
            /\ Save(e, [pending |-> <<>>, cursor |-> cursor'[e], snapshot |-> doc'[e]], c)
    /\ UNCHANGED <<logVars, open, pending, driven, disk, history, stray, bounds>>

\* Merge the pulled updates and take their cursor, then push a copy of the
\* backlog or, without one, save.
Integrate(e, c) ==
    /\ calls[e][c].at = "reply"
    /\ doc' = [doc EXCEPT ![e] = @ \cup Range(calls[e][c].got)]
    /\ cursor' = [cursor EXCEPT ![e] = calls[e][c].cursor]
    /\ IF pending[e] # <<>>
       THEN /\ calls' = [calls EXCEPT ![e][c] =
                           [Idle EXCEPT !.at = "push", !.batch = pending[e]]]
            /\ UNCHANGED writes
       ELSE /\ RoomForWrite(e)
            /\ calls' = [calls EXCEPT ![e][c] = [Idle EXCEPT !.at = "save"]]
            /\ Save(e, [pending |-> <<>>, cursor |-> cursor'[e], snapshot |-> doc'[e]], c)
    /\ UNCHANGED <<logVars, open, pending, driven, disk, history, stray, bounds>>

\* IntegrateError on the update after the first n: sync() throws half way.
IntegrateFails(e, c) ==
    /\ calls[e][c].at = "reply"
    /\ Fault
    /\ \E n \in 0 .. (Len(calls[e][c].got) - 1) :
          doc' = [doc EXCEPT ![e] = @ \cup Range(SubSeq(calls[e][c].got, 1, n))]
    /\ calls' = [calls EXCEPT ![e][c] = Idle]
    /\ UNCHANGED <<logVars, open, pending, cursor, driven, diskVars,
                   history, stray, restores>>

ServePush(e, c) ==
    /\ calls[e][c].at = "push"
    /\ AppendBatch(calls[e][c].batch)
    /\ calls' = [calls EXCEPT ![e][c].at = "ack"]
    /\ UNCHANGED <<open, doc, pending, cursor, driven, diskVars, history, stray, bounds>>

\* Mutant: the whole backlog is cleared, captures made during the push included.
Acked_ClearAll(e, c) ==
    /\ calls[e][c].at = "ack"
    /\ RoomForWrite(e)
    /\ pending' = [pending EXCEPT ![e] = <<>>]
    /\ calls' = [calls EXCEPT ![e][c] = [Idle EXCEPT !.at = "save"]]
    /\ Save(e, [pending |-> pending'[e], cursor |-> cursor[e], snapshot |-> doc[e]], c)
    /\ UNCHANGED <<logVars, open, doc, cursor, driven, disk, history, stray, bounds>>

\* Mutant: the cursor a push returns is taken for the pulled position.
Acked_AdvancesCursor(e, c) ==
    /\ calls[e][c].at = "ack"
    /\ RoomForWrite(e)
    /\ pending' = [pending EXCEPT ![e] = SubSeq(@, Len(calls[e][c].batch) + 1, Len(@))]
    /\ cursor' = [cursor EXCEPT ![e] = LogHead]
    /\ calls' = [calls EXCEPT ![e][c] = [Idle EXCEPT !.at = "save"]]
    /\ Save(e, [pending |-> pending'[e], cursor |-> cursor'[e], snapshot |-> doc[e]], c)
    /\ UNCHANGED <<logVars, open, doc, driven, disk, history, stray, bounds>>

\* The 200 arrives: splice(0, batch.length), then save.
Acked(e, c) ==
    /\ calls[e][c].at = "ack"
    /\ RoomForWrite(e)
    /\ pending' = [pending EXCEPT ![e] = SubSeq(@, Len(calls[e][c].batch) + 1, Len(@))]
    /\ calls' = [calls EXCEPT ![e][c] = [Idle EXCEPT !.at = "save"]]
    /\ Save(e, [pending |-> pending'[e], cursor |-> cursor[e], snapshot |-> doc[e]], c)
    /\ UNCHANGED <<logVars, open, doc, cursor, driven, disk, history, stray, bounds>>

\* A batch on its way when its sender gives up may still reach the relay.
InFlight(e, C) == {calls[e][c].batch : c \in {x \in C : calls[e][x].at = "push"}}

\* A transport failure or any other status: sync() throws, the engine keeps its
\* backlog.  The outcome of a push is then unknown to the device.
SyncFails(e, c) ==
    /\ calls[e][c].at \in {"pull", "reply", "push", "ack"}
    /\ Fault
    /\ \E S \in SUBSET InFlight(e, {c}) : stray' = stray \cup S
    /\ calls' = [calls EXCEPT ![e][c] = Idle]
    /\ UNCHANGED <<logVars, open, doc, pending, cursor, driven, diskVars,
                   history, restores>>

\* Only what is at rest remains.
Forget(e) ==
    /\ e \in open
    /\ open' = open \ {e}
    /\ doc' = [doc EXCEPT ![e] = {}]
    /\ pending' = [pending EXCEPT ![e] = <<>>]
    /\ cursor' = [cursor EXCEPT ![e] = Start]
    /\ driven' = driven \ {e}
    /\ calls' = [calls EXCEPT ![e] = [c \in Call |-> Idle]]
    /\ writes' = [writes EXCEPT ![e] = <<>>]

\* The page is closed, crashes or is locked, whatever it was doing.
Close(e) ==
    /\ Forget(e)
    /\ Fault
    /\ \E S \in SUBSET InFlight(e, Call) : stray' = stray \cup S
    /\ UNCHANGED <<logVars, disk, history, restores>>

\* The page is closed or locked with nothing under way: no failure, and as often
\* as the teacher leaves the app.
Leave(e) ==
    /\ Forget(e)
    /\ e \in driven
    /\ writes[e] = <<>> /\ \A c \in Call : calls[e][c].at = "idle"
    /\ UNCHANGED <<logVars, disk, history, stray, bounds>>

-----------------------------------------------------------------------------
(* The network and the operator *)

ServeStray ==
    \E b \in stray :
        /\ AppendBatch(b)
        /\ stray' = stray \ {b}
        /\ UNCHANGED <<engineVars, diskVars, history, bounds>>

RestoreBackup ==
    /\ restores < MaxRestores
    /\ restores' = restores + 1
    /\ \E n \in 0 .. Len(log) : Restore(n)
    /\ UNCHANGED <<engineVars, diskVars, history, stray, faults>>

-----------------------------------------------------------------------------
EngineStep(e) ==
    \/ Open(e) \/ Refresh(e) \/ Close(e) \/ Leave(e)
    \/ PutSucceeds(e) \/ PutFails(e) \/ Commit(e) \/ Abort(e)
    \/ e \in Author /\ \E u \in Update : Capture(e, u)
    \/ \E c \in Call :
          \/ StartSync(e, c) \/ ServePull(e, c) \/ HidePull(e, c)
          \/ Integrate(e, c) \/ IntegrateFails(e, c)
          \/ ServePush(e, c) \/ Acked(e, c) \/ SyncFails(e, c)

SyncNext == (\E e \in Engine : EngineStep(e)) \/ ServeStray \/ RestoreBackup

SyncSpec == SyncInit /\ [][SyncNext]_vars

\* The call that a session owes.
SessionSync(e, c) == e \notin driven /\ StartSync(e, c)

\* An open session makes the one call it owes, and a request or a write that
\* nothing fails is answered in the end.  Nothing forces the app to be opened or
\* left, another call of sync(), a capture, a failure or a restore.
SyncFairness ==
    \A e \in Engine :
        /\ WF_vars(PutSucceeds(e))
        /\ WF_vars(Commit(e))
        /\ \A c \in Call :
              /\ WF_vars(SessionSync(e, c))
              /\ WF_vars(ServePull(e, c))
              /\ WF_vars(Integrate(e, c))
              /\ WF_vars(ServePush(e, c))
              /\ WF_vars(Acked(e, c))

FairSyncSpec == SyncSpec /\ SyncFairness
===============================================================================
