-------------------------------- MODULE DocLog --------------------------------
(***************************************************************************)
(* The relay's data plane for one document (append and fetch of            *)
(* services/sync-relay/src/store.ts): an append-only log of encrypted      *)
(* updates under a random epoch.  A cursor is an epoch and a sequence      *)
(* number.  Operators and step formulas only: SyncEngine composes them     *)
(* with the devices.                                                       *)
(***************************************************************************)
EXTENDS Integers, Sequences

CONSTANT Update  \* encrypted update blobs

VARIABLES
    log,    \* the document's updates, in sequence order
    epoch,  \* its epoch, 0 while the document does not exist
    minted  \* how many epochs newEpoch() has minted: each is fresh

logVars == <<log, epoch, minted>>

Cursor == [epoch : Nat, seq : Nat]

\* parseCursor of an absent, empty or unparsable cursor
Start == [epoch |-> 0, seq |-> 0]

LogTypeOK ==
    /\ log \in Seq(Update)
    /\ epoch \in Nat
    /\ minted \in Nat

LogInit == log = <<>> /\ epoch = 0 /\ minted = 0

\* fetch: the position a cursor stands for, the start if it names another epoch.
From(since) ==
    IF since.epoch = epoch /\ since.seq <= Len(log) THEN since.seq ELSE 0

Fetched(since) == SubSeq(log, From(since) + 1, Len(log))

\* The cursor fetch returns: the head, "0" for a document nobody has written.
LogHead == IF epoch = 0 THEN Start ELSE [epoch |-> epoch, seq |-> Len(log)]

\* append: the first one creates the document.
AppendBatch(batch) ==
    /\ log' = log \o batch
    /\ IF epoch = 0
       THEN epoch' = minted + 1 /\ minted' = minted + 1
       ELSE UNCHANGED <<epoch, minted>>

\* Mutant: the epochs are not rotated after the restore.
Restore_SameEpoch(n) ==
    /\ n < Len(log)
    /\ log' = SubSeq(log, 1, n)
    /\ epoch' = IF n = 0 THEN 0 ELSE epoch
    /\ UNCHANGED minted

\* A backup holding the first n updates is restored and, before the relay
\* serves again, every document gets a new epoch (ROTATE_EPOCHS_SQL).  A backup
\* older than the document has no row for it.
Restore(n) ==
    /\ n < Len(log)
    /\ log' = SubSeq(log, 1, n)
    /\ IF n = 0
       THEN epoch' = 0 /\ UNCHANGED minted
       ELSE epoch' = minted + 1 /\ minted' = minted + 1
===============================================================================
