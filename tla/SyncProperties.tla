---------------------------- MODULE SyncProperties ----------------------------
(* What must be true of the sync engine, and the promise it implements. *)
EXTENDS SyncEngine

AtRelay == Range(log)

\* The updates a database still has to send.
HeldIn(d) == IF disk[d] = NoRecord THEN {} ELSE Range(disk[d].pending)

(***************************************************************************)
(* No position of the log at or below a cursor has been skipped: whatever  *)
(* other devices append between a pull and a push, and across a restored   *)
(* backup, a cursor that still counts covers only merged updates, in       *)
(* memory and in the state at rest.                                        *)
(***************************************************************************)
Covers(since, merged) == Range(SubSeq(log, 1, From(since))) \subseteq merged

CursorNeverSkips ==
    /\ \A e \in open : Covers(cursor[e], doc[e])
    /\ \A d \in Database : disk[d] # NoRecord => Covers(disk[d].cursor, disk[d].snapshot)

(***************************************************************************)
(* What the teacher has captured and the device has yet to send is in the  *)
(* document the device shows, also after a reload.                         *)
(***************************************************************************)
BacklogIsVisible ==
    /\ \A e \in open : Range(pending[e]) \subseteq doc[e]
    /\ \A d \in Database : disk[d] # NoRecord => HeldIn(d) \subseteq disk[d].snapshot

(***************************************************************************)
(* Strong eventual consistency: of a deployment whose apps are opened      *)
(* again and again -- a session calls sync() once and never again -- every *)
(* database ends up with exactly the updates of the log and nothing left   *)
(* to send, whatever was lost, failed or closed half way before.           *)
(***************************************************************************)
OpenedAgainAndAgain == \A e \in Engine : []<>(e \in open) /\ []<>(e \notin open)

Converged ==
    \A d \in Database :
        disk[d] # NoRecord /\ disk[d].snapshot = AtRelay /\ disk[d].pending = <<>>

EventuallyConverged == OpenedAgainAndAgain => <>[]Converged

(***************************************************************************)
(* The engine implements the Outbox: an update is held once some database  *)
(* has it at rest, delivered once it is in the log.  What a device holds   *)
(* is never lost, and what the relay has is never taken back.              *)
(* This is so of calls that are serial, which engine.ts:66-69 asks for; of *)
(* two that overlap each splices the backlog, the second too much of it.   *)
(***************************************************************************)
Fate(u) == CASE u \in AtRelay -> "delivered"
             [] u \notin AtRelay /\ (\E d \in Database : u \in HeldIn(d)) -> "held"
             [] OTHER -> "unknown"

O == INSTANCE Outbox WITH fate <- [u \in Update |-> Fate(u)]
ImplementsOutbox == O!Safety
===============================================================================
