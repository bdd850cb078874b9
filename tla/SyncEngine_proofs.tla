--------------------------- MODULE SyncEngine_proofs ---------------------------
(***************************************************************************)
(* Proofs about the sync engine, for every number of devices, databases,   *)
(* updates and sync() calls and every value of the bounds.                 *)
(*                                                                         *)
(* Three things carry them.  A cursor is honest: while its epoch is the    *)
(* log's it points into the log, and what is below it is merged; an epoch  *)
(* that is gone never comes back.  What is saved is always what is in      *)
(* memory, so the states at rest or on their way to disk inherit every     *)
(* fact about memory.  And a document only grows while its page is open,   *)
(* so a pull that was sent long ago is still honest when it is merged.     *)
(*                                                                         *)
(* That nothing held is lost needs more: one engine to a database, one     *)
(* sync() at a time and a relay that is not restored.  Under those every   *)
(* later state of a device holds what an earlier one held and the relay    *)
(* does not have, and the engine implements the safety of the Outbox.      *)
(***************************************************************************)
EXTENDS SyncProperties, SequenceTheorems, TLAPS

\* An epoch was minted, and only a document that does not exist has none.
EpochFresh == epoch <= minted /\ (epoch = 0 => log = <<>>)

\* A cursor stands for what the updates M contain, as far as its epoch is the log's.
Honest(c, M) ==
    /\ c.epoch <= minted
    /\ c.epoch = 0 => c.seq = 0
    /\ c.epoch = epoch => c.seq <= Len(log) /\ Range(SubSeq(log, 1, c.seq)) \subseteq M

\* ... what that means after a step.
HonestNext(c, M) ==
    /\ c.epoch <= minted'
    /\ c.epoch = 0 => c.seq = 0
    /\ c.epoch = epoch' => c.seq <= Len(log') /\ Range(SubSeq(log', 1, c.seq)) \subseteq M

\* The page goes, half way or with nothing under way.
Closes(e) == Close(e) \/ Leave(e)

\* An engine's state as save(#state()) would persist it now.
Memory(e) == [pending |-> pending[e], cursor |-> cursor[e], snapshot |-> doc[e]]

\* What a state says of itself is true: its backlog shows, its cursor is honest.
Sound(st) == Range(st.pending) \subseteq st.snapshot /\ Honest(st.cursor, st.snapshot)

\* ... what that means after a step.
SoundNext(st) == Range(st.pending) \subseteq st.snapshot /\ HonestNext(st.cursor, st.snapshot)

\* So is every state at rest, and every state that a put request carries.
KeptSound ==
    /\ \A d \in Database : disk[d] # NoRecord => Sound(disk[d])
    /\ \A e \in Engine : \A i \in DOMAIN writes[e] : Sound(writes[e][i].state)

\* A page that is closed keeps nothing in memory, and has no sync() in progress.
ClosedIsEmpty ==
    \A e \in Engine \ open :
        /\ pending[e] = <<>> /\ doc[e] = {} /\ cursor[e] = Start
        /\ \A c \in Call : calls[e][c].at = "idle"

\* A pull that was sent, or answered, is honest about the document it will be merged into.
PullsHonest ==
    \A e \in Engine, c \in Call :
        /\ calls[e][c].at = "pull" => Honest(calls[e][c].cursor, doc[e])
        /\ calls[e][c].at = "reply" =>
               Honest(calls[e][c].cursor, doc[e] \cup Range(calls[e][c].got))

\* A put request of a capture was captured.
WritersCaptured ==
    \A e \in Engine : \A i \in DOMAIN writes[e] :
        writes[e][i].by \in Update => writes[e][i].by \in captured

EngineInv ==
    /\ SyncTypeOK
    /\ EpochFresh
    /\ ClosedIsEmpty
    /\ WritersCaptured
    /\ KeptSound
    /\ \A e \in Engine : Sound(Memory(e))
    /\ PullsHonest

-----------------------------------------------------------------------------
(* Sequences of updates *)

\* Nothing is in the empty sequence.
LEMMA EmptyRange == Range(<<>>) = {}
<1>1. <<>> \in Seq(Update) /\ Len(<<>>) = 0
  BY EmptySeq
<1>2. Range(<<>>) = {<<>>[i] : i \in 1 .. 0}
  BY <1>1, RangeEquality
<1>. QED BY <1>2

\* An appended element joins the range.
LEMMA RangeOfAppend ==
    ASSUME NEW S, NEW s \in Seq(S), NEW x \in S
    PROVE  Range(Append(s, x)) = Range(s) \cup {x}
<1>1. /\ Append(s, x) \in Seq(S) /\ Len(Append(s, x)) = Len(s) + 1 /\ Len(s) \in Nat
      /\ \A i \in 1 .. Len(s) : Append(s, x)[i] = s[i]
      /\ Append(s, x)[Len(s) + 1] = x
  BY AppendProperties, LenProperties
<1>2. Range(Append(s, x)) = {Append(s, x)[i] : i \in 1 .. Len(s) + 1}
  BY <1>1, RangeEquality
<1>3. Range(s) = {s[i] : i \in 1 .. Len(s)}
  BY RangeEquality
<1>4. \A i : i \in 1 .. Len(s) + 1 <=> i \in 1 .. Len(s) \/ i = Len(s) + 1
  BY <1>1
<1>. QED BY <1>1, <1>2, <1>3, <1>4

\* A part of a sequence is one, and has nothing the sequence does not.
LEMMA RangeOfPart ==
    ASSUME NEW S, NEW s \in Seq(S), NEW m \in Nat \ {0}, NEW n \in 0 .. Len(s)
    PROVE  /\ SubSeq(s, m, n) \in Seq(S)
           /\ Range(SubSeq(s, m, n)) = {s[i] : i \in m .. n}
           /\ Range(SubSeq(s, m, n)) \subseteq Range(s)
<1>1. \A i \in m .. n : i \in 1 .. Len(s) /\ s[i] \in S
  BY LenProperties, ElementOfSeq
<1>2. /\ SubSeq(s, m, n) \in Seq(S)
      /\ Len(SubSeq(s, m, n)) = IF m <= n THEN n - m + 1 ELSE 0
      /\ \A i \in 1 .. n - m + 1 : SubSeq(s, m, n)[i] = s[m + i - 1]
  BY <1>1, LenProperties, SubSeqProperties
<1>3. Range(SubSeq(s, m, n)) = {SubSeq(s, m, n)[i] : i \in 1 .. Len(SubSeq(s, m, n))}
  BY <1>2, RangeEquality
<1>4. {SubSeq(s, m, n)[i] : i \in 1 .. Len(SubSeq(s, m, n))} = {s[i] : i \in m .. n}
  <2>1. ASSUME NEW i \in 1 .. Len(SubSeq(s, m, n))
        PROVE  SubSeq(s, m, n)[i] \in {s[j] : j \in m .. n}
    <3>1. m <= n /\ i \in 1 .. n - m + 1 /\ m + i - 1 \in m .. n
      BY <1>2, <2>1, LenProperties
    <3>. QED BY <1>2, <3>1
  <2>2. ASSUME NEW j \in m .. n
        PROVE  s[j] \in {SubSeq(s, m, n)[i] : i \in 1 .. Len(SubSeq(s, m, n))}
    <3>1. m <= n /\ j - m + 1 \in 1 .. n - m + 1 /\ m + (j - m + 1) - 1 = j
      BY <2>2, LenProperties
    <3>2. SubSeq(s, m, n)[j - m + 1] = s[j]
      BY <1>2, <3>1
    <3>. QED BY <1>2, <3>1, <3>2
  <2>. QED BY <2>1, <2>2
<1>5. Range(s) = {s[i] : i \in 1 .. Len(s)}
  BY RangeEquality
<1>. QED BY <1>1, <1>2, <1>3, <1>4, <1>5

\* A sequence cut in two.
LEMMA RangeOfHalves ==
    ASSUME NEW S, NEW s \in Seq(S), NEW n \in 0 .. Len(s)
    PROVE  Range(SubSeq(s, 1, n)) \cup Range(SubSeq(s, n + 1, Len(s))) = Range(s)
<1>1. Len(s) \in Nat /\ n \in Nat
  BY LenProperties
<1>2. /\ Range(SubSeq(s, 1, n)) = {s[i] : i \in 1 .. n}
      /\ Range(SubSeq(s, n + 1, Len(s))) = {s[i] : i \in n + 1 .. Len(s)}
  BY <1>1, RangeOfPart
<1>3. Range(s) = {s[i] : i \in 1 .. Len(s)}
  BY RangeEquality
<1>4. \A i : i \in 1 .. Len(s) <=> i \in 1 .. n \/ i \in n + 1 .. Len(s)
  BY <1>1
<1>. QED BY <1>2, <1>3, <1>4

\* What is at the end of a sequence does not change how it begins.
LEMMA PrefixOfConcat ==
    ASSUME NEW S, NEW s \in Seq(S), NEW t \in Seq(S), NEW n \in 0 .. Len(s)
    PROVE  SubSeq(s \o t, 1, n) = SubSeq(s, 1, n)
<1>1. CASE n = 0
  BY <1>1, SubSeqEmpty
<1>2. CASE n # 0
  <2>1. Len(s) \in Nat /\ 1 \in 1 .. Len(s) /\ n \in 1 .. Len(s)
    BY <1>2, LenProperties
  <2>. QED BY <2>1, SubSeqOfConcat1
<1>. QED BY <1>1, <1>2

\* The beginning of a beginning.
LEMMA PrefixOfPrefix ==
    ASSUME NEW S, NEW s \in Seq(S), NEW m \in 0 .. Len(s), NEW n \in 0 .. m
    PROVE  SubSeq(SubSeq(s, 1, m), 1, n) = SubSeq(s, 1, n) /\ Len(SubSeq(s, 1, m)) = m
<1>1. Len(s) \in Nat /\ m \in Nat /\ n \in Nat
  BY LenProperties
<1>2. Len(SubSeq(s, 1, m)) = m
  <2>1. \A i \in 1 .. m : s[i] \in S
    BY <1>1, ElementOfSeq
  <2>. QED BY <1>1, <2>1, SubSeqProperties
<1>3. CASE n = 0
  BY <1>3, SubSeqEmpty
<1>4. CASE n # 0
  <2>1. 1 \in 1 .. Len(s) /\ m \in 1 .. Len(s) /\ 1 \in 1 .. m - 1 + 1 /\ n \in 1 .. m - 1 + 1
    BY <1>1, <1>4
  <2>2. SubSeq(SubSeq(s, 1, m), 1, n) = SubSeq(s, 1 + 1 - 1, 1 + n - 1)
    BY <2>1, SubSeqOfSubSeq
  <2>. QED BY <1>1, <2>2
<1>. QED BY <1>2, <1>3, <1>4

-----------------------------------------------------------------------------
(* Type correctness *)

\* The queue of put requests without one of them, the others in their order.
LEMMA WithoutOne ==
    ASSUME NEW S, NEW s \in Seq(S), NEW n \in 1 .. Len(s)
    PROVE  /\ RemoveAt(s, n) \in Seq(S)
           /\ Len(RemoveAt(s, n)) = Len(s) - 1
           /\ \A i \in 1 .. Len(s) - 1 : RemoveAt(s, n)[i] = IF i < n THEN s[i] ELSE s[i + 1]
<1> DEFINE a == SubSeq(s, 1, n - 1)
           b == SubSeq(s, n + 1, Len(s))
<1>1. Len(s) \in Nat /\ n \in Nat /\ \A i \in 1 .. Len(s) : s[i] \in S
  BY LenProperties, ElementOfSeq
<1>2. /\ a \in Seq(S) /\ Len(a) = n - 1
      /\ \A i \in 1 .. n - 1 : a[i] = s[i]
  <2>1. \A i \in 1 .. n - 1 : s[i] \in S
    BY <1>1
  <2>2. /\ SubSeq(s, 1, n - 1) \in Seq(S)
        /\ Len(SubSeq(s, 1, n - 1)) = IF 1 <= n - 1 THEN n - 1 - 1 + 1 ELSE 0
        /\ \A i \in 1 .. n - 1 - 1 + 1 : SubSeq(s, 1, n - 1)[i] = s[1 + i - 1]
    BY <1>1, <2>1, SubSeqProperties
  <2>. QED BY <1>1, <2>2
<1>3. /\ b \in Seq(S) /\ Len(b) = Len(s) - n
      /\ \A i \in 1 .. Len(s) - n : b[i] = s[n + i]
  <2>1. \A i \in n + 1 .. Len(s) : s[i] \in S
    BY <1>1
  <2>2. /\ SubSeq(s, n + 1, Len(s)) \in Seq(S)
        /\ Len(SubSeq(s, n + 1, Len(s))) = IF n + 1 <= Len(s) THEN Len(s) - (n + 1) + 1 ELSE 0
        /\ \A i \in 1 .. Len(s) - (n + 1) + 1 : SubSeq(s, n + 1, Len(s))[i] = s[n + 1 + i - 1]
    BY <1>1, <2>1, SubSeqProperties
  <2>. QED BY <1>1, <2>2
<1>4. RemoveAt(s, n) = a \o b
  BY DEF RemoveAt
<1> HIDE DEF a, b
<1>5. /\ a \o b \in Seq(S)
      /\ Len(a \o b) = Len(a) + Len(b)
      /\ \A i \in 1 .. Len(a) + Len(b) : (a \o b)[i] = IF i <= Len(a) THEN a[i] ELSE b[i - Len(a)]
  BY <1>2, <1>3, ConcatProperties
<1>6. ASSUME NEW i \in 1 .. Len(s) - 1
      PROVE  (a \o b)[i] = IF i < n THEN s[i] ELSE s[i + 1]
  <2>1. CASE i < n
    BY <1>1, <1>2, <1>3, <1>5, <2>1
  <2>2. CASE ~(i < n)
    <3>1. i - (n - 1) \in 1 .. Len(s) - n /\ n + (i - (n - 1)) = i + 1
      BY <1>1, <2>2
    <3>2. (a \o b)[i] = b[i - (n - 1)]
      BY <1>1, <1>2, <1>3, <1>5, <2>2
    <3>. QED BY <1>3, <2>2, <3>1, <3>2
  <2>. QED BY <2>1, <2>2
<1>. QED BY <1>1, <1>2, <1>3, <1>4, <1>5, <1>6

\* A fault is counted, and stays within its bound.
LEMMA FaultCounted == faults \in 0 .. MaxFaults /\ Fault => faults' \in 0 .. MaxFaults
BY SyncAssumption DEF Fault

\* What moves the relay's log.
LEMMA LogCauses ==
    ASSUME SyncTypeOK, [SyncNext]_vars
    PROVE  \/ UNCHANGED logVars
           \/ \E b \in Seq(Update) : AppendBatch(b)
           \/ restores < MaxRestores /\ \E n \in 0 .. Len(log) : Restore(n)
<1>1. ASSUME NEW e \in Engine, NEW c \in Call, ServePush(e, c)
      PROVE  \E b \in Seq(Update) : AppendBatch(b)
  <2>1. calls[e][c].batch \in Seq(Update)
    BY DEF SyncTypeOK, SyncCall
  <2>. QED BY <1>1, <2>1 DEF ServePush
<1>2. ASSUME ServeStray PROVE \E b \in Seq(Update) : AppendBatch(b)
  BY <1>2 DEF ServeStray, SyncTypeOK
<1>3. ASSUME RestoreBackup PROVE restores < MaxRestores /\ \E n \in 0 .. Len(log) : Restore(n)
  BY <1>3 DEF RestoreBackup
<1>4. ASSUME NEW e \in Engine, \/ Open(e) \/ Refresh(e) \/ Closes(e) \/ PutSucceeds(e) \/ PutFails(e)
                             \/ Commit(e) \/ Abort(e) \/ \E u \in Update : Capture(e, u)
      PROVE  UNCHANGED logVars
  BY <1>4 DEF Open, Refresh, Closes, Close, Leave, Forget, PutSucceeds, PutFails, Commit, Abort, Capture
<1>5. ASSUME NEW e \in Engine, NEW c \in Call,
             \/ StartSync(e, c) \/ ServePull(e, c) \/ HidePull(e, c) \/ Integrate(e, c)
             \/ IntegrateFails(e, c) \/ Acked(e, c) \/ SyncFails(e, c)
      PROVE  UNCHANGED logVars
  BY <1>5 DEF StartSync, ServePull, HidePull, Integrate, IntegrateFails, Acked, SyncFails
<1>6. UNCHANGED vars => UNCHANGED logVars
  BY DEF vars
<1>. QED BY <1>1, <1>2, <1>3, <1>4, <1>5, <1>6 DEF SyncNext, EngineStep, Closes

\* The relay's log, whoever appends or restores it, and the head of a fetch.
LEMMA LogTypes ==
    ASSUME SyncTypeOK, [SyncNext]_vars
    PROVE  LogTypeOK' /\ LogHead \in Cursor
<1>0. log \in Seq(Update) /\ epoch \in Nat /\ minted \in Nat /\ Len(log) \in Nat
  BY LenProperties DEF SyncTypeOK, LogTypeOK
<1>1. LogHead \in Cursor
  BY <1>0 DEF LogHead, Start, Cursor
<1>2. ASSUME NEW b \in Seq(Update), AppendBatch(b) PROVE LogTypeOK'
  <2>1. log \o b \in Seq(Update)
    BY <1>0, ConcatProperties
  <2>. QED BY <1>0, <1>2, <2>1 DEF AppendBatch, LogTypeOK
<1>3. ASSUME NEW n \in 0 .. Len(log), Restore(n) PROVE LogTypeOK'
  <2>1. SubSeq(log, 1, n) \in Seq(Update)
    BY <1>0, RangeOfPart
  <2>. QED BY <1>0, <1>3, <2>1 DEF Restore, LogTypeOK
<1>4. ASSUME UNCHANGED logVars PROVE LogTypeOK'
  BY <1>0, <1>4 DEF logVars, LogTypeOK
<1>. QED BY <1>1, <1>2, <1>3, <1>4, LogCauses

\* A document in memory, its backlog and its cursor.
MemoryTypeOK ==
    /\ open \in SUBSET Engine
    /\ doc \in [Engine -> SUBSET Update]
    /\ pending \in [Engine -> Seq(Update)]
    /\ cursor \in [Engine -> Cursor]
    /\ driven \in SUBSET Engine

\* They keep their types.
LEMMA MemoryTypes ==
    ASSUME SyncTypeOK, [SyncNext]_vars
    PROVE  MemoryTypeOK'
<1>0. MemoryTypeOK /\ Start \in Cursor /\ <<>> \in Seq(Update)
      /\ calls \in [Engine -> [Call -> SyncCall]]
      /\ disk \in [Database -> PersistedStream \cup {NoRecord}]
      /\ DatabaseOf \in [Engine -> Database]
  BY SyncAssumption DEF SyncTypeOK, MemoryTypeOK, Start, Cursor
<1>1. ASSUME NEW e \in Engine, Open(e) PROVE MemoryTypeOK'
  <2>1. disk[DatabaseOf[e]] \in PersistedStream \/ disk[DatabaseOf[e]] = NoRecord
    BY <1>0
  <2>. QED BY <1>0, <1>1, <2>1 DEF Open, MemoryTypeOK, PersistedStream
<1>2. ASSUME NEW e \in Engine, Refresh(e) PROVE MemoryTypeOK'
  <2>1. disk[DatabaseOf[e]] \in PersistedStream
    BY <1>0, <1>2 DEF Refresh
  <2>. QED BY <1>0, <1>2, <2>1 DEF Refresh, MemoryTypeOK, PersistedStream
<1>3. ASSUME NEW e \in Engine, Closes(e) PROVE MemoryTypeOK'
  <2>1. Forget(e)
    BY <1>3 DEF Closes, Close, Leave
  <2>. QED BY <1>0, <2>1 DEF Forget, MemoryTypeOK
<1>4. ASSUME NEW e \in Engine, NEW u \in Update, Capture(e, u) PROVE MemoryTypeOK'
  <2>1. Append(pending[e], u) \in Seq(Update)
    BY <1>0, AppendProperties DEF MemoryTypeOK
  <2>. QED BY <1>0, <1>4, <2>1 DEF Capture, MemoryTypeOK
<1>5. ASSUME NEW e \in Engine, NEW c \in Call, StartSync(e, c) PROVE MemoryTypeOK'
  BY <1>0, <1>5 DEF StartSync, MemoryTypeOK
<1>6. ASSUME NEW e \in Engine, NEW c \in Call, Integrate(e, c) PROVE MemoryTypeOK'
  <2>1. calls[e][c].got \in Seq(Update) /\ calls[e][c].cursor \in Cursor
    BY <1>0 DEF SyncCall
  <2>2. Range(calls[e][c].got) \subseteq Update
    BY <2>1, RangeOfSeq
  <2>. QED BY <1>0, <1>6, <2>1, <2>2 DEF Integrate, MemoryTypeOK
<1>7. ASSUME NEW e \in Engine, NEW c \in Call, IntegrateFails(e, c) PROVE MemoryTypeOK'
  <2>1. calls[e][c].got \in Seq(Update)
    BY <1>0 DEF SyncCall
  <2> PICK n \in 0 .. (Len(calls[e][c].got) - 1) :
          doc' = [doc EXCEPT ![e] = @ \cup Range(SubSeq(calls[e][c].got, 1, n))]
    BY <1>7 DEF IntegrateFails
  <2>2. n \in 0 .. Len(calls[e][c].got)
    BY <2>1, LenProperties
  <2>3. Range(SubSeq(calls[e][c].got, 1, n)) \subseteq Update
    BY <2>1, <2>2, RangeOfPart, RangeOfSeq
  <2>. QED BY <1>0, <1>7, <2>3 DEF IntegrateFails, MemoryTypeOK
<1>8. ASSUME NEW e \in Engine, NEW c \in Call, Acked(e, c) PROVE MemoryTypeOK'
  <2>1. /\ pending[e] \in Seq(Update) /\ Len(pending[e]) \in Nat
        /\ Len(calls[e][c].batch) + 1 \in Nat \ {0}
    BY <1>0, LenProperties DEF MemoryTypeOK, SyncCall
  <2>2. SubSeq(pending[e], Len(calls[e][c].batch) + 1, Len(pending[e])) \in Seq(Update)
    BY <2>1, RangeOfPart
  <2>. QED BY <1>0, <1>8, <2>2 DEF Acked, MemoryTypeOK
<1>9. ASSUME UNCHANGED <<open, doc, pending, cursor, driven>> PROVE MemoryTypeOK'
  BY <1>0, <1>9 DEF MemoryTypeOK
<1>10. ASSUME NEW e \in Engine, \/ PutSucceeds(e) \/ PutFails(e) \/ Commit(e) \/ Abort(e)
                              \/ \E c \in Call : \/ ServePull(e, c) \/ HidePull(e, c)
                                                 \/ ServePush(e, c) \/ SyncFails(e, c)
       PROVE  UNCHANGED <<open, doc, pending, cursor, driven>>
  BY <1>10 DEF PutSucceeds, PutFails, Commit, Abort, ServePull, HidePull, ServePush, SyncFails, engineVars
<1>11. ASSUME ServeStray \/ RestoreBackup \/ UNCHANGED vars
       PROVE  UNCHANGED <<open, doc, pending, cursor, driven>>
  BY <1>11 DEF ServeStray, RestoreBackup, vars, engineVars
<1>. QED
  BY <1>1, <1>2, <1>3, <1>4, <1>5, <1>6, <1>7, <1>8, <1>9, <1>10, <1>11 DEF SyncNext, EngineStep, Closes

\* The call c of engine e is k from now on, and every other call is where it was.
Moved(e, c, k) ==
    /\ calls' \in [Engine -> [Call -> SyncCall]]
    /\ calls'[e][c] = k
    /\ \A f \in Engine, g \in Call : f # e \/ g # c => calls'[f][g] = calls[f][g]

\* An assignment to one call moves that call.
LEMMA MovedTo ==
    ASSUME SyncTypeOK, NEW e \in Engine, NEW c \in Call, NEW k \in SyncCall,
           calls' = [calls EXCEPT ![e] = [calls[e] EXCEPT ![c] = k]]
    PROVE  Moved(e, c, k)
<1>1. calls \in [Engine -> [Call -> SyncCall]] /\ calls[e] \in [Call -> SyncCall]
  BY DEF SyncTypeOK
<1>. QED BY <1>1 DEF Moved

Saving == [Idle EXCEPT !.at = "save"]
Pushing(e) == [Idle EXCEPT !.at = "push", !.batch = pending[e]]

\* Calls at rest, and calls that carry a backlog.
LEMMA IdleTypes ==
    ASSUME SyncTypeOK, NEW e \in Engine
    PROVE  /\ Idle \in SyncCall /\ Saving \in SyncCall /\ Pushing(e) \in SyncCall
           /\ Idle.at = "idle" /\ Saving.at = "save"
           /\ Pushing(e).at = "push" /\ Pushing(e).batch = pending[e]
<1>1. pending[e] \in Seq(Update) /\ <<>> \in Seq(Update) /\ Start \in Cursor
  BY DEF SyncTypeOK, Start, Cursor
<1>. QED BY <1>1 DEF Idle, Saving, Pushing, SyncCall

\* The steps of one sync() call, as moves of that call.
LEMMA CallMoves ==
    ASSUME SyncTypeOK, [SyncNext]_vars, NEW e \in Engine, NEW c \in Call
    PROVE  /\ StartSync(e, c) => Moved(e, c, [calls[e][c] EXCEPT !.at = "pull", !.cursor = cursor[e]])
           /\ ServePull(e, c) => Moved(e, c, [calls[e][c] EXCEPT !.at = "reply",
                                                !.got = Fetched(calls[e][c].cursor), !.cursor = LogHead])
           /\ HidePull(e, c) => Moved(e, c, [calls[e][c] EXCEPT !.at = "reply"])
           /\ Integrate(e, c) => Moved(e, c, IF pending[e] # <<>> THEN Pushing(e) ELSE Saving)
           /\ IntegrateFails(e, c) \/ SyncFails(e, c) => Moved(e, c, Idle)
           /\ ServePush(e, c) => Moved(e, c, [calls[e][c] EXCEPT !.at = "ack"])
           /\ Acked(e, c) => Moved(e, c, Saving)
<1> DEFINE k == calls[e][c]
           Puts(r) == calls' = [calls EXCEPT ![e] = [calls[e] EXCEPT ![c] = r]]
<1>0. /\ calls \in [Engine -> [Call -> SyncCall]]
      /\ calls[e] \in [Call -> SyncCall] /\ k \in SyncCall
      /\ cursor[e] \in Cursor
  BY DEF SyncTypeOK
<1>1. ASSUME StartSync(e, c) PROVE Moved(e, c, [k EXCEPT !.at = "pull", !.cursor = cursor[e]])
  <2>1. [k EXCEPT !.at = "pull", !.cursor = cursor[e]] \in SyncCall
    BY <1>0 DEF SyncCall
  <2>2. Puts([k EXCEPT !.at = "pull", !.cursor = cursor[e]])
    BY <1>0, <1>1 DEF StartSync, SyncCall
  <2>. QED BY <2>1, <2>2, MovedTo
<1>2. ASSUME ServePull(e, c)
      PROVE  Moved(e, c, [k EXCEPT !.at = "reply", !.got = Fetched(k.cursor), !.cursor = LogHead])
  <2>1. Fetched(k.cursor) \in Seq(Update)
    <3>1. log \in Seq(Update) /\ Len(log) \in Nat /\ k.cursor \in Cursor
      BY <1>0, LenProperties DEF SyncTypeOK, LogTypeOK, SyncCall
    <3>2. From(k.cursor) \in 0 .. Len(log)
      BY <3>1 DEF From, Cursor
    <3>3. From(k.cursor) + 1 \in Nat \ {0} /\ Len(log) \in 0 .. Len(log)
      BY <3>1, <3>2
    <3>. QED BY <3>1, <3>3, RangeOfPart DEF Fetched
  <2>2. [k EXCEPT !.at = "reply", !.got = Fetched(k.cursor), !.cursor = LogHead] \in SyncCall
    BY <1>0, <2>1, LogTypes DEF SyncCall
  <2>3. Puts([k EXCEPT !.at = "reply", !.got = Fetched(k.cursor), !.cursor = LogHead])
    BY <1>0, <1>2 DEF ServePull, SyncCall
  <2>. QED BY <2>2, <2>3, MovedTo
<1>3. ASSUME HidePull(e, c) PROVE Moved(e, c, [k EXCEPT !.at = "reply"])
  <2>1. [k EXCEPT !.at = "reply"] \in SyncCall
    BY <1>0 DEF SyncCall
  <2>2. Puts([k EXCEPT !.at = "reply"])
    BY <1>0, <1>3 DEF HidePull, SyncCall
  <2>. QED BY <2>1, <2>2, MovedTo
<1>4. ASSUME ServePush(e, c) PROVE Moved(e, c, [k EXCEPT !.at = "ack"])
  <2>1. [k EXCEPT !.at = "ack"] \in SyncCall
    BY <1>0 DEF SyncCall
  <2>2. Puts([k EXCEPT !.at = "ack"])
    BY <1>0, <1>4 DEF ServePush, SyncCall
  <2>. QED BY <2>1, <2>2, MovedTo
<1>5. ASSUME Integrate(e, c) PROVE Moved(e, c, IF pending[e] # <<>> THEN Pushing(e) ELSE Saving)
  <2>1. Puts(IF pending[e] # <<>> THEN Pushing(e) ELSE Saving)
    BY <1>5 DEF Integrate, Pushing, Saving
  <2>. QED BY <2>1, IdleTypes, MovedTo
<1>6. ASSUME IntegrateFails(e, c) \/ SyncFails(e, c) PROVE Moved(e, c, Idle)
  <2>1. Puts(Idle)
    BY <1>6 DEF IntegrateFails, SyncFails
  <2>. QED BY <2>1, IdleTypes, MovedTo
<1>7. ASSUME Acked(e, c) PROVE Moved(e, c, Saving)
  <2>1. Puts(Saving)
    BY <1>7 DEF Acked, Saving
  <2>. QED BY <2>1, IdleTypes, MovedTo
<1>. QED BY <1>1, <1>2, <1>3, <1>4, <1>5, <1>6, <1>7

\* What the call c of engine e becomes: nothing else moves it.
Becomes(e, c) ==
    \/ calls'[e][c] \in {calls[e][c], Idle}
    \/ (Integrate(e, c) \/ Acked(e, c)) /\ calls'[e][c] = Saving
    \/ StartSync(e, c) /\ calls'[e][c] = [calls[e][c] EXCEPT !.at = "pull", !.cursor = cursor[e]]
    \/ /\ ServePull(e, c)
       /\ calls'[e][c] = [calls[e][c] EXCEPT !.at = "reply",
                            !.got = Fetched(calls[e][c].cursor), !.cursor = LogHead]
    \/ HidePull(e, c) /\ calls'[e][c] = [calls[e][c] EXCEPT !.at = "reply"]
    \/ Integrate(e, c) /\ calls'[e][c] = Pushing(e)
    \/ ServePush(e, c) /\ calls'[e][c] = [calls[e][c] EXCEPT !.at = "ack"]

LEMMA CallStep ==
    ASSUME SyncTypeOK, [SyncNext]_vars
    PROVE  /\ calls' \in [Engine -> [Call -> SyncCall]]
           /\ \A e \in Engine, c \in Call : Becomes(e, c)
<1> DEFINE Goal == /\ calls' \in [Engine -> [Call -> SyncCall]]
                   /\ \A e \in Engine, c \in Call : Becomes(e, c)
<1>0. calls \in [Engine -> [Call -> SyncCall]]
  BY DEF SyncTypeOK
<1>1. ASSUME UNCHANGED calls PROVE Goal
  BY <1>0, <1>1 DEF Becomes
<1>2. ASSUME NEW e \in Engine, NEW c \in Call,
             \/ StartSync(e, c) \/ ServePull(e, c) \/ HidePull(e, c) \/ Integrate(e, c)
             \/ IntegrateFails(e, c) \/ ServePush(e, c) \/ Acked(e, c) \/ SyncFails(e, c)
      PROVE  Goal
  <2>1. PICK k : Moved(e, c, k)
    BY <1>2, CallMoves
  <2>2. Becomes(e, c)
    BY <1>2, CallMoves DEF Moved, Becomes
  <2>3. ASSUME NEW f \in Engine, NEW g \in Call, e # f \/ c # g PROVE Becomes(f, g)
    BY <2>1, <2>3 DEF Moved, Becomes
  <2>. QED BY <2>1, <2>2, <2>3 DEF Moved
<1>3. ASSUME NEW e \in Engine, NEW by, Finish(e, by) PROVE Goal
  <2>1. [c \in Call |-> IF c = by THEN Idle ELSE calls[e][c]] \in [Call -> SyncCall]
    BY <1>0, IdleTypes
  <2>. QED BY <1>0, <1>3, <2>1 DEF Finish, Becomes
<1>4. ASSUME NEW e \in Engine, Closes(e) PROVE Goal
  <2>1. [c \in Call |-> Idle] \in [Call -> SyncCall]
    BY IdleTypes
  <2>2. calls' = [calls EXCEPT ![e] = [c \in Call |-> Idle]]
    BY <1>4 DEF Closes, Close, Leave, Forget
  <2>. QED BY <1>0, <2>1, <2>2 DEF Becomes
<1>5. ASSUME NEW e \in Engine, PutSucceeds(e) \/ PutFails(e) PROVE \E by : Finish(e, by)
  BY <1>5 DEF PutSucceeds, PutFails
<1>6. ASSUME \/ \E e \in Engine : \/ Open(e) \/ Refresh(e) \/ Commit(e) \/ Abort(e)
                                  \/ \E u \in Update : Capture(e, u)
             \/ ServeStray \/ RestoreBackup \/ UNCHANGED vars
      PROVE  UNCHANGED calls
  BY <1>6 DEF Open, Refresh, Commit, Abort, Capture, ServeStray, RestoreBackup, vars, engineVars
<1>. QED BY <1>1, <1>2, <1>3, <1>4, <1>5, <1>6 DEF SyncNext, EngineStep, Closes

\* Where the put requests of engine e come from after a step: of each one h says
\* which request it was before, or, one past them, that it saves what is in
\* memory now for a captured update or a sync() call.  Their order stays.
Traced(e, h) ==
    /\ h \in [1 .. Len(writes'[e]) -> 1 .. Len(writes[e]) + 1]
    /\ \A i, j \in 1 .. Len(writes'[e]) : i < j => h[i] < h[j]
    /\ \A i \in 1 .. Len(writes'[e]) :
          \/ /\ h[i] \in 1 .. Len(writes[e])
             /\ writes'[e][i].state = writes[e][h[i]].state
             /\ writes'[e][i].by = writes[e][h[i]].by
          \/ /\ h[i] = Len(writes[e]) + 1 /\ e \in open
             /\ writes'[e][i].state = Memory(e)' /\ writes'[e][i].by \in captured' \cup Call

Queued(e) == \E h : Traced(e, h)

\* The queue is as it was.
LEMMA QueueKept ==
    ASSUME SyncTypeOK, NEW e \in Engine, writes'[e] = writes[e]
    PROVE  Queued(e)
<1>1. Len(writes[e]) \in Nat
  BY LenProperties DEF SyncTypeOK
<1>2. Traced(e, [i \in 1 .. Len(writes[e]) |-> i])
  BY <1>1 DEF Traced
<1>. QED BY <1>2 DEF Queued

\* One queue becomes s, made of what was in it in the same order.
LEMMA QueueChanged ==
    ASSUME SyncTypeOK, NEW e \in Engine, NEW s \in Seq(Write),
           writes' = [writes EXCEPT ![e] = s],
           NEW h \in [1 .. Len(s) -> 1 .. Len(writes[e])],
           \A i, j \in 1 .. Len(s) : i < j => h[i] < h[j],
           \A i \in 1 .. Len(s) : s[i].state = writes[e][h[i]].state /\ s[i].by = writes[e][h[i]].by
    PROVE  writes' \in [Engine -> Seq(Write)] /\ \A f \in Engine : Queued(f)
<1>0. writes \in [Engine -> Seq(Write)] /\ Len(s) \in Nat /\ Len(writes[e]) \in Nat
  BY LenProperties DEF SyncTypeOK
<1>1. writes'[e] = s /\ writes' \in [Engine -> Seq(Write)]
  BY <1>0
<1>2. h \in [1 .. Len(s) -> 1 .. Len(writes[e]) + 1]
  <2>1. \A i \in 1 .. Len(s) : h[i] \in 1 .. Len(writes[e]) + 1
    BY <1>0, SMTT(30)
  <2>. QED BY <2>1
<1>3. Traced(e, h)
  BY <1>0, <1>1, <1>2 DEF Traced
<1>4. ASSUME NEW f \in Engine, f # e PROVE Queued(f)
  <2>1. writes'[f] = writes[f]
    BY <1>0, <1>4
  <2>. QED BY <2>1, QueueKept
<1>. QED BY <1>1, <1>3, <1>4 DEF Queued

\* save() queues the state as of now, behind the others.
LEMMA SaveQueues ==
    ASSUME SyncTypeOK, MemoryTypeOK', NEW e \in open, NEW by \in captured' \cup Call,
           captured' \subseteq Update, NEW state, state = Memory(e)', Save(e, state, by)
    PROVE  writes' \in [Engine -> Seq(Write)] /\ \A f \in Engine : Queued(f)
<1> DEFINE w == [state |-> state, by |-> by, done |-> FALSE]
<1>0. writes \in [Engine -> Seq(Write)] /\ e \in Engine
  BY DEF SyncTypeOK
<1>1. w \in Write
  <2>1. state \in PersistedStream
    BY <1>0 DEF Memory, MemoryTypeOK, PersistedStream
  <2>. QED BY <2>1 DEF Write
<1>2. writes' = [writes EXCEPT ![e] = Append(writes[e], w)]
  BY DEF Save
<1>3. w.state = Memory(e)' /\ w.by \in captured' \cup Call
  OBVIOUS
<1> HIDE DEF w
<1>4. /\ writes[e] \in Seq(Write) /\ Len(writes[e]) \in Nat
      /\ Append(writes[e], w) \in Seq(Write)
      /\ Len(Append(writes[e], w)) = Len(writes[e]) + 1
      /\ \A i \in 1 .. Len(writes[e]) : Append(writes[e], w)[i] = writes[e][i]
      /\ Append(writes[e], w)[Len(writes[e]) + 1] = w
  BY <1>0, <1>1, AppendProperties, LenProperties
<1>5. writes'[e] = Append(writes[e], w) /\ writes' \in [Engine -> Seq(Write)]
  BY <1>0, <1>2, <1>4
<1>6. Queued(e)
  <2> DEFINE h == [i \in 1 .. Len(writes[e]) + 1 |-> i]
  <2>1. \A i \in 1 .. Len(writes'[e]) : i \in 1 .. Len(writes[e]) \/ i = Len(writes[e]) + 1
    BY <1>4, <1>5
  <2>2. h \in [1 .. Len(writes'[e]) -> 1 .. Len(writes[e]) + 1]
    BY <1>4, <1>5
  <2>3. \A i \in 1 .. Len(writes'[e]) : h[i] = i
    BY <1>4, <1>5
  <2> HIDE DEF h
  <2>4. Traced(e, h)
    BY <1>3, <1>4, <1>5, <2>1, <2>2, <2>3 DEF Traced
  <2>. QED BY <2>4 DEF Queued
<1>7. ASSUME NEW f \in Engine, f # e PROVE Queued(f)
  <2>1. writes'[f] = writes[f]
    BY <1>0, <1>2, <1>7
  <2>. QED BY <2>1, QueueKept
<1>. QED BY <1>5, <1>6, <1>7

\* What becomes of the queues of every engine.
LEMMA QueueStep ==
    ASSUME SyncTypeOK, ClosedIsEmpty, [SyncNext]_vars
    PROVE  writes' \in [Engine -> Seq(Write)] /\ \A f \in Engine : Queued(f)
<1> DEFINE Goal == writes' \in [Engine -> Seq(Write)] /\ \A f \in Engine : Queued(f)
<1>0. /\ writes \in [Engine -> Seq(Write)] /\ captured \subseteq Update /\ MemoryTypeOK'
      /\ \A e \in Engine : /\ writes[e] \in Seq(Write) /\ Len(writes[e]) \in Nat
                           /\ DOMAIN writes[e] = 1 .. Len(writes[e])
  BY MemoryTypes, LenProperties DEF SyncTypeOK
<1>1. ASSUME NEW e \in Engine, NEW c \in Call, calls[e][c].at # "idle" PROVE e \in open
  BY <1>1 DEF ClosedIsEmpty
<1>2. ASSUME UNCHANGED writes PROVE Goal
  BY <1>0, <1>2, QueueKept
<1>3. ASSUME NEW e \in Engine, Closes(e) PROVE Goal
  <2>1. writes' = [writes EXCEPT ![e] = <<>>] /\ <<>> \in Seq(Write) /\ Len(<<>>) = 0
    BY <1>3, EmptySeq DEF Closes, Close, Leave, Forget
  <2>2. \A i \in 1 .. Len(<<>>) : FALSE
    BY <2>1
  <2>3. [i \in 1 .. Len(<<>>) |-> i] \in [1 .. Len(<<>>) -> 1 .. Len(writes[e])]
    BY <2>2
  <2>. QED BY <2>1, <2>2, <2>3, QueueChanged
<1>4. ASSUME NEW e \in Engine, PutSucceeds(e) PROVE Goal
  <2> PICK i \in DOMAIN writes[e] : writes' = [writes EXCEPT ![e][i].done = TRUE]
    BY <1>4 DEF PutSucceeds
  <2> DEFINE w == [writes[e][i] EXCEPT !.done = TRUE]
             s == [writes[e] EXCEPT ![i] = w]
             h == [j \in 1 .. Len(writes[e]) |-> j]
  <2>1. writes[e][i] \in Write
    BY <1>0, ElementOfSeq
  <2>2. w \in Write /\ w.state = writes[e][i].state /\ w.by = writes[e][i].by
    BY <2>1 DEF Write
  <2>3. writes' = [writes EXCEPT ![e] = s]
    BY <1>0
  <2> HIDE DEF w
  <2>4. /\ s \in Seq(Write) /\ Len(s) = Len(writes[e])
        /\ \A j \in 1 .. Len(writes[e]) : s[j] = IF j = i THEN w ELSE writes[e][j]
    BY <1>0, <2>2, ExceptSeq
  <2> HIDE DEF s
  <2>5. h \in [1 .. Len(s) -> 1 .. Len(writes[e])] /\ \A j \in 1 .. Len(s) : h[j] = j
    BY <2>4
  <2> HIDE DEF h
  <2>6. /\ \A j, k \in 1 .. Len(s) : j < k => h[j] < h[k]
        /\ \A j \in 1 .. Len(s) : s[j].state = writes[e][h[j]].state /\ s[j].by = writes[e][h[j]].by
    BY <2>2, <2>4, <2>5
  <2>. QED BY <2>3, <2>4, <2>5, <2>6, QueueChanged
<1>5. ASSUME NEW e \in Engine, PutFails(e) PROVE Goal
  <2> PICK i \in DOMAIN writes[e] : writes' = [writes EXCEPT ![e] = RemoveAt(writes[e], i)]
    BY <1>5 DEF PutFails
  <2> DEFINE s == RemoveAt(writes[e], i)
             h == [j \in 1 .. Len(writes[e]) - 1 |-> IF j < i THEN j ELSE j + 1]
  <2>1. /\ s \in Seq(Write) /\ Len(s) = Len(writes[e]) - 1
        /\ \A j \in 1 .. Len(writes[e]) - 1 : s[j] = IF j < i THEN writes[e][j] ELSE writes[e][j + 1]
    BY <1>0, WithoutOne
  <2>2. writes' = [writes EXCEPT ![e] = s]
    OBVIOUS
  <2> HIDE DEF s
  <2>3. /\ h \in [1 .. Len(s) -> 1 .. Len(writes[e])]
        /\ \A j \in 1 .. Len(s) : h[j] = IF j < i THEN j ELSE j + 1
    BY <1>0, <2>1
  <2> HIDE DEF h
  <2>4. \A j, k \in 1 .. Len(s) : j < k => h[j] < h[k]
    BY <1>0, <2>1, <2>3
  <2>5. \A j \in 1 .. Len(s) : s[j] = writes[e][h[j]]
    BY <2>1, <2>3
  <2>6. \A j \in 1 .. Len(s) : s[j].state = writes[e][h[j]].state /\ s[j].by = writes[e][h[j]].by
    BY <2>5
  <2>7. s \in Seq(Write) /\ h \in [1 .. Len(s) -> 1 .. Len(writes[e])]
    BY <2>1, <2>3
  <2>. QED BY <2>2, <2>4, <2>6, <2>7, QueueChanged, ZenonT(30)
<1>6. ASSUME NEW e \in Engine, Commit(e) \/ Abort(e) PROVE Goal
  <2> DEFINE s == Tail(writes[e])
             h == [j \in 1 .. Len(writes[e]) - 1 |-> j + 1]
  <2>0. writes[e] # <<>>
    BY <1>6 DEF Commit, Abort
  <2>1. /\ s \in Seq(Write) /\ Len(s) = Len(writes[e]) - 1
        /\ \A j \in 1 .. Len(s) : s[j] = writes[e][j + 1]
    BY <1>0, <2>0, HeadTailProperties
  <2>2. writes' = [writes EXCEPT ![e] = s]
    BY <1>6 DEF Commit, Abort
  <2> HIDE DEF s
  <2>3. h \in [1 .. Len(s) -> 1 .. Len(writes[e])] /\ \A j \in 1 .. Len(s) : h[j] = j + 1
    BY <1>0, <2>1
  <2> HIDE DEF h
  <2>4. \A j, k \in 1 .. Len(s) : j < k => h[j] < h[k]
    BY <1>0, <2>1, <2>3, SMTT(30)
  <2>5. \A j \in 1 .. Len(s) : s[j] = writes[e][h[j]]
    BY <2>1, <2>3
  <2>. QED BY <2>1, <2>2, <2>3, <2>4, <2>5, QueueChanged
<1>7. ASSUME NEW e \in Engine, NEW u \in Update, Capture(e, u) PROVE Goal
  <2>1. captured' = captured \cup {u} /\ u \in captured' \cup Call /\ captured' \subseteq Update /\ e \in open
    BY <1>0, <1>7 DEF Capture
  <2>2. Save(e, Memory(e)', u)
    BY <1>7 DEF Capture, Memory
  <2>. QED BY <1>0, <2>1, <2>2, SaveQueues
<1>8. ASSUME NEW e \in Engine, NEW c \in Call, Integrate(e, c) PROVE Goal
  <2>1. CASE pending[e] # <<>>
    BY <1>2, <1>8, <2>1 DEF Integrate
  <2>2. CASE pending[e] = <<>>
    <3>1. Save(e, Memory(e)', c)
      BY <1>8, <2>2 DEF Integrate, Memory
    <3>2. captured' \subseteq Update
      BY <1>0, <1>8 DEF Integrate, history
    <3>3. e \in open
      BY <1>1, <1>8 DEF Integrate
    <3>. QED BY <1>0, <3>1, <3>2, <3>3, SaveQueues
  <2>. QED BY <2>1, <2>2
<1>9. ASSUME NEW e \in Engine, NEW c \in Call, Acked(e, c) PROVE Goal
  <2>1. Save(e, Memory(e)', c)
    BY <1>9 DEF Acked, Memory
  <2>2. captured' \subseteq Update
    BY <1>0, <1>9 DEF Acked, history
  <2>3. e \in open
    BY <1>1, <1>9 DEF Acked
  <2>. QED BY <1>0, <2>1, <2>2, <2>3, SaveQueues
<1>10. ASSUME NEW e \in Engine, Open(e) \/ Refresh(e) PROVE UNCHANGED writes
  BY <1>10 DEF Open, Refresh, diskVars
<1>11. ASSUME NEW e \in Engine, NEW c \in Call,
              \/ StartSync(e, c) \/ ServePull(e, c) \/ HidePull(e, c)
              \/ IntegrateFails(e, c) \/ ServePush(e, c) \/ SyncFails(e, c)
       PROVE  UNCHANGED writes
  BY <1>11 DEF StartSync, ServePull, HidePull, IntegrateFails, ServePush, SyncFails, diskVars
<1>12. ASSUME ServeStray \/ RestoreBackup \/ UNCHANGED vars PROVE UNCHANGED writes
  BY <1>12 DEF ServeStray, RestoreBackup, vars, diskVars
<1>. QED BY <1>2, <1>3, <1>4, <1>5, <1>6, <1>7, <1>8, <1>9, <1>10, <1>11, <1>12
     DEF SyncNext, EngineStep, Closes

\* What becomes of the database d: only a commit changes it, to what the oldest
\* put request of one of its engines carries.
Written(d) ==
    \/ disk'[d] = disk[d]
    \/ \E e \in Engine : /\ Commit(e) /\ DatabaseOf[e] = d
                         /\ 1 \in 1 .. Len(writes[e]) /\ disk'[d] = writes[e][1].state

LEMMA DiskStep ==
    ASSUME SyncTypeOK, [SyncNext]_vars
    PROVE  disk' \in [Database -> PersistedStream \cup {NoRecord}] /\ \A d \in Database : Written(d)
<1>0. /\ disk \in [Database -> PersistedStream \cup {NoRecord}]
      /\ writes \in [Engine -> Seq(Write)]
      /\ DatabaseOf \in [Engine -> Database]
  BY SyncAssumption DEF SyncTypeOK
<1> DEFINE Goal == disk' \in [Database -> PersistedStream \cup {NoRecord}] /\ \A d \in Database : Written(d)
<1>1. ASSUME NEW e \in Engine, Commit(e) PROVE Goal
  <2>1. writes[e] \in Seq(Write) /\ writes[e] # <<>> /\ Len(writes[e]) \in Nat
    BY <1>0, <1>1, LenProperties DEF Commit
  <2>2. 1 \in 1 .. Len(writes[e]) /\ Head(writes[e]) = writes[e][1]
    BY <2>1
  <2>3. writes[e][1].state \in PersistedStream
    <3>1. writes[e][1] \in Write
      BY <2>1, <2>2, ElementOfSeq
    <3>. QED BY <3>1 DEF Write
  <2>4. disk' = [disk EXCEPT ![DatabaseOf[e]] = writes[e][1].state]
    BY <1>1, <2>2 DEF Commit
  <2>. QED BY <1>0, <1>1, <2>2, <2>3, <2>4 DEF Written
<1>2. ASSUME UNCHANGED disk PROVE Goal
  BY <1>0, <1>2 DEF Written
<1>3. ASSUME NEW e \in Engine, \/ Open(e) \/ Refresh(e) \/ Closes(e) \/ PutSucceeds(e) \/ PutFails(e)
                             \/ Abort(e) \/ \E u \in Update : Capture(e, u)
      PROVE  UNCHANGED disk
  BY <1>3 DEF Open, Refresh, Closes, Close, Leave, Forget, PutSucceeds, PutFails, Abort, Capture, diskVars
<1>4. ASSUME NEW e \in Engine, NEW c \in Call,
             \/ StartSync(e, c) \/ ServePull(e, c) \/ HidePull(e, c) \/ Integrate(e, c)
             \/ IntegrateFails(e, c) \/ ServePush(e, c) \/ Acked(e, c) \/ SyncFails(e, c)
      PROVE  UNCHANGED disk
  BY <1>4 DEF StartSync, ServePull, HidePull, Integrate, IntegrateFails, ServePush, Acked, SyncFails, diskVars
<1>5. ASSUME ServeStray \/ RestoreBackup \/ UNCHANGED vars PROVE UNCHANGED disk
  BY <1>5 DEF ServeStray, RestoreBackup, vars, diskVars
<1>. QED BY <1>1, <1>2, <1>3, <1>4, <1>5 DEF SyncNext, EngineStep, Closes

\* What is captured, what has resolved and what strays, and the bounds.
LEMMA HistoryTypes ==
    ASSUME SyncTypeOK, WritersCaptured, [SyncNext]_vars
    PROVE  /\ captured \subseteq captured' /\ captured' \subseteq Update
           /\ returned' \subseteq captured'
           /\ stray' \subseteq Seq(Update)
           /\ faults' \in 0 .. MaxFaults
           /\ restores' \in 0 .. MaxRestores
<1> DEFINE Goal == /\ captured \subseteq captured' /\ captured' \subseteq Update
                   /\ returned' \subseteq captured'
                   /\ stray' \subseteq Seq(Update)
                   /\ faults' \in 0 .. MaxFaults
                   /\ restores' \in 0 .. MaxRestores
<1>0. /\ captured \subseteq Update /\ returned \subseteq captured /\ stray \subseteq Seq(Update)
      /\ faults \in 0 .. MaxFaults /\ restores \in 0 .. MaxRestores
      /\ (Fault => faults' \in 0 .. MaxFaults)
      /\ MaxRestores \in Nat
  BY FaultCounted, SyncAssumption DEF SyncTypeOK
<1>1. ASSUME UNCHANGED <<history, stray, bounds>> PROVE Goal
  BY <1>0, <1>1 DEF history, bounds
<1>2. ASSUME UNCHANGED <<history, stray, restores>>, Fault PROVE Goal
  BY <1>0, <1>2 DEF history
<1>3. ASSUME NEW e \in Engine, NEW C \in SUBSET Call, Fault, UNCHANGED <<history, restores>>,
             \E S \in SUBSET InFlight(e, C) : stray' = stray \cup S
      PROVE  Goal
  <2>1. InFlight(e, C) \subseteq Seq(Update)
    BY DEF SyncTypeOK, SyncCall, InFlight
  <2>2. stray' \subseteq Seq(Update)
    BY <1>0, <1>3, <2>1
  <2>. QED BY <1>0, <1>3, <2>2 DEF history
<1>4. ASSUME NEW e \in Engine, PutSucceeds(e) PROVE Goal
  <2> PICK i \in DOMAIN writes[e] : returned' = returned \cup ({writes[e][i].by} \cap Update)
    BY <1>4 DEF PutSucceeds
  <2>1. {writes[e][i].by} \cap Update \subseteq captured
    BY DEF WritersCaptured
  <2>2. UNCHANGED <<captured, stray, bounds>>
    BY <1>4 DEF PutSucceeds
  <2>. QED BY <1>0, <2>1, <2>2 DEF bounds
<1>5. ASSUME NEW e \in Engine, NEW u \in Update, Capture(e, u) PROVE Goal
  BY <1>0, <1>5 DEF Capture, bounds
<1>6. ASSUME ServeStray PROVE Goal
  BY <1>0, <1>6 DEF ServeStray, history, bounds
<1>7. ASSUME RestoreBackup PROVE Goal
  <2>0. UNCHANGED <<history, stray, faults>>
    BY <1>7 DEF RestoreBackup
  <2>1. restores' \in 0 .. MaxRestores
    BY <1>0, <1>7 DEF RestoreBackup
  <2>. QED BY <1>0, <2>0, <2>1 DEF history
<1>8. ASSUME NEW e \in Engine, Closes(e) PROVE Goal
  <2>1. CASE Close(e)
    <3>1. /\ Fault /\ UNCHANGED <<history, restores>>
          /\ \E S \in SUBSET InFlight(e, Call) : stray' = stray \cup S
      BY <2>1 DEF Close
    <3>. QED BY <1>3, <3>1
  <2>2. CASE Leave(e)
    <3>1. UNCHANGED <<history, stray, bounds>>
      BY <2>2 DEF Leave
    <3>. QED BY <1>1, <3>1
  <2>. QED BY <1>8, <2>1, <2>2 DEF Closes
<1>9. ASSUME NEW e \in Engine, NEW c \in Call, SyncFails(e, c) PROVE Goal
  <2>1. {c} \in SUBSET Call
    OBVIOUS
  <2>2. /\ Fault /\ UNCHANGED <<history, restores>>
        /\ \E S \in SUBSET InFlight(e, {c}) : stray' = stray \cup S
    BY <1>9 DEF SyncFails
  <2>. QED BY <1>3, <2>1, <2>2
<1>10. ASSUME NEW e \in Engine, PutFails(e) \/ Abort(e) PROVE Goal
  BY <1>2, <1>10 DEF PutFails, Abort
<1>11. ASSUME NEW e \in Engine, NEW c \in Call, HidePull(e, c) \/ IntegrateFails(e, c) PROVE Goal
  BY <1>2, <1>11 DEF HidePull, IntegrateFails
<1>12. ASSUME NEW e \in Engine, Open(e) \/ Refresh(e) \/ Commit(e) PROVE Goal
  BY <1>1, <1>12 DEF Open, Refresh, Commit
<1>13. ASSUME NEW e \in Engine, NEW c \in Call,
              StartSync(e, c) \/ ServePull(e, c) \/ Integrate(e, c) \/ ServePush(e, c) \/ Acked(e, c)
       PROVE  Goal
  <2>1. UNCHANGED <<history, stray, bounds>>
    BY <1>13 DEF StartSync, ServePull, Integrate, ServePush, Acked
  <2>. QED BY <1>1, <2>1
<1>14. ASSUME UNCHANGED vars PROVE Goal
  BY <1>1, <1>14 DEF vars
<1>. QED
  BY <1>4, <1>5, <1>6, <1>7, <1>8, <1>9, <1>10, <1>11, <1>12, <1>13, <1>14 DEF SyncNext, EngineStep, Closes

\* Type correctness, which needs to know that what resolves was captured.
LEMMA TypeStep ==
    ASSUME SyncTypeOK, ClosedIsEmpty, WritersCaptured, [SyncNext]_vars
    PROVE  SyncTypeOK' /\ WritersCaptured'
<1>0. /\ captured \subseteq captured' /\ captured' \subseteq Update
      /\ Call \cap Update = {}
      /\ writes \in [Engine -> Seq(Write)]
  BY HistoryTypes, SyncAssumption DEF SyncTypeOK
<1>1. \A f \in Engine : Queued(f)
  BY QueueStep
<1>2. writes' \in [Engine -> Seq(Write)]
  BY QueueStep
<1>3. disk' \in [Database -> PersistedStream \cup {NoRecord}]
  BY DiskStep
<1>4. calls' \in [Engine -> [Call -> SyncCall]]
  BY CallStep
<1>5. WritersCaptured'
  <2> SUFFICES ASSUME NEW f \in Engine, NEW i \in 1 .. Len(writes'[f]), writes'[f][i].by \in Update
               PROVE  writes'[f][i].by \in captured'
    <3>1. \A f \in Engine : DOMAIN writes'[f] = 1 .. Len(writes'[f])
      BY <1>2, LenProperties
    <3>. QED BY <3>1 DEF WritersCaptured
  <2>1. \A j \in 1 .. Len(writes[f]) : writes[f][j].by \in Update => writes[f][j].by \in captured
    <3>1. DOMAIN writes[f] = 1 .. Len(writes[f])
      BY <1>0, LenProperties
    <3>. QED BY <3>1 DEF WritersCaptured
  <2>2. PICK h : Traced(f, h)
    BY <1>1 DEF Queued
  <2>. QED BY <1>0, <2>1, <2>2 DEF Traced
<1>6. SyncTypeOK'
  BY <1>2, <1>3, <1>4, HistoryTypes, LogTypes, MemoryTypes DEF SyncTypeOK, MemoryTypeOK
<1>. QED BY <1>5, <1>6

-----------------------------------------------------------------------------
(* Honest cursors *)

\* How the relay's log moves: it grows under the same epoch, it is gone, or it
\* is under an epoch that has never been.
LogMoves ==
    \/ /\ epoch' = epoch /\ Len(log) <= Len(log')
       /\ \A n \in 0 .. Len(log) : SubSeq(log', 1, n) = SubSeq(log, 1, n)
    \/ epoch' = 0 /\ log' = <<>>
    \/ epoch' > minted

LEMMA LogStep ==
    ASSUME SyncTypeOK, EpochFresh, [SyncNext]_vars
    PROVE  EpochFresh' /\ minted <= minted' /\ LogMoves
<1> DEFINE Goal == EpochFresh' /\ minted <= minted' /\ LogMoves
<1>0. /\ log \in Seq(Update) /\ epoch \in Nat /\ minted \in Nat /\ Len(log) \in Nat
      /\ epoch <= minted /\ (epoch = 0 => log = <<>>)
  BY LenProperties DEF SyncTypeOK, LogTypeOK, EpochFresh
<1>1. ASSUME NEW b \in Seq(Update), AppendBatch(b) PROVE Goal
  <2>1. CASE epoch = 0
    BY <1>0, <1>1, <2>1 DEF AppendBatch, EpochFresh, LogMoves
  <2>2. CASE epoch # 0
    <3>1. Len(log \o b) = Len(log) + Len(b) /\ Len(b) \in Nat
      BY <1>0, ConcatProperties, LenProperties
    <3>2. \A n \in 0 .. Len(log) : SubSeq(log \o b, 1, n) = SubSeq(log, 1, n)
      BY <1>0, PrefixOfConcat
    <3>3. log' = log \o b /\ epoch' = epoch /\ minted' = minted
      BY <1>1, <2>2 DEF AppendBatch
    <3>. QED BY <1>0, <2>2, <3>1, <3>2, <3>3 DEF EpochFresh, LogMoves
  <2>. QED BY <2>1, <2>2
<1>2. ASSUME NEW n \in 0 .. Len(log), Restore(n) PROVE Goal
  <2>1. CASE n = 0
    <3>1. log' = <<>> /\ epoch' = 0 /\ minted' = minted
      BY <1>2, <2>1, SubSeqEmpty DEF Restore
    <3>. QED BY <1>0, <3>1 DEF EpochFresh, LogMoves
  <2>2. CASE n # 0
    BY <1>0, <1>2, <2>2 DEF Restore, EpochFresh, LogMoves
  <2>. QED BY <2>1, <2>2
<1>3. ASSUME UNCHANGED logVars PROVE Goal
  BY <1>0, <1>3 DEF logVars, EpochFresh, LogMoves
<1>4. \/ UNCHANGED logVars
      \/ \E b \in Seq(Update) : AppendBatch(b)
      \/ \E n \in 0 .. Len(log) : Restore(n)
  BY LogCauses
<1>. QED BY <1>1, <1>2, <1>3, <1>4

\* The cursor of a device that has pulled nothing claims nothing.
LEMMA StartIsHonest ==
    ASSUME SyncTypeOK
    PROVE  \A M : Honest(Start, M)
<1>1. minted \in Nat /\ Len(log) \in Nat
  BY LenProperties DEF SyncTypeOK, LogTypeOK
<1>2. Start.epoch = 0 /\ Start.seq = 0
  BY DEF Start
<1>3. Range(SubSeq(log, 1, 0)) = {}
  <2>1. SubSeq(log, 1, 0) = <<>>
    BY SubSeqEmpty
  <2>. QED BY <2>1, EmptyRange
<1> SUFFICES ASSUME NEW M PROVE Honest(Start, M)
  OBVIOUS
<1>4. Range(SubSeq(log, 1, Start.seq)) \subseteq M
  BY <1>2, <1>3
<1>5. Start.epoch <= minted /\ Start.seq <= Len(log)
  BY <1>1, <1>2
<1>. QED BY <1>2, <1>4, <1>5 DEF Honest

\* An honest cursor stays honest about a document that grows.
LEMMA HonestStays ==
    ASSUME SyncTypeOK, EpochFresh, [SyncNext]_vars
    PROVE  \A c \in Cursor : \A M, N : Honest(c, M) /\ M \subseteq N => HonestNext(c, N)
<1> SUFFICES ASSUME NEW c \in Cursor, NEW M, NEW N, Honest(c, M), M \subseteq N
             PROVE  HonestNext(c, N)
  OBVIOUS
<1>0. /\ log \in Seq(Update) /\ epoch \in Nat /\ minted \in Nat /\ Len(log) \in Nat
      /\ log' \in Seq(Update) /\ epoch' \in Nat /\ minted' \in Nat /\ Len(log') \in Nat
      /\ c.epoch \in Nat /\ c.seq \in Nat
  BY LogTypes, LenProperties DEF SyncTypeOK, LogTypeOK, Cursor
<1>1. c.epoch <= minted' /\ minted <= minted' /\ (c.epoch = 0 => c.seq = 0) /\ c.epoch <= minted
  BY <1>0, LogStep DEF Honest
<1>2. CASE epoch' = epoch /\ c.epoch = epoch /\ Len(log) <= Len(log')
           /\ \A n \in 0 .. Len(log) : SubSeq(log', 1, n) = SubSeq(log, 1, n)
  <2>1. c.seq \in 0 .. Len(log) /\ Range(SubSeq(log, 1, c.seq)) \subseteq N
    BY <1>0, <1>2 DEF Honest
  <2>2. SubSeq(log', 1, c.seq) = SubSeq(log, 1, c.seq) /\ c.seq <= Len(log')
    BY <1>0, <1>2, <2>1
  <2>3. Range(SubSeq(log', 1, c.seq)) \subseteq N
    BY <2>1, <2>2, Zenon
  <2>. QED BY <1>1, <2>2, <2>3 DEF HonestNext
<1>3. CASE epoch' # c.epoch
  BY <1>1, <1>3 DEF HonestNext
<1>4. CASE epoch' = 0 /\ c.epoch = 0 /\ log' = <<>>
  <2>1. SubSeq(log', 1, c.seq) = <<>> /\ c.seq <= Len(log') /\ Range(<<>>) = {}
    <3>1. c.seq = 0 /\ SubSeq(log', 1, 0) = <<>> /\ Len(log') = 0
      BY <1>1, <1>4, SubSeqEmpty, EmptySeq
    <3>2. Range(<<>>) = {}
      BY EmptyRange
    <3>. QED BY <3>1, <3>2
  <2>. QED BY <1>1, <1>4, <2>1 DEF HonestNext
<1>5. CASE epoch' > minted
  BY <1>0, <1>1, <1>3, <1>5
<1>. QED BY <1>2, <1>3, <1>4, <1>5, LogStep DEF LogMoves

\* A device that merges what it fetched has everything below the log's head.
LEMMA FetchCatchesUp ==
    ASSUME SyncTypeOK, EpochFresh, NEW c \in Cursor, NEW M, Honest(c, M)
    PROVE  Honest(LogHead, M \cup Range(Fetched(c)))
<1>0. /\ log \in Seq(Update) /\ Len(log) \in Nat /\ epoch \in Nat /\ minted \in Nat
      /\ c.epoch \in Nat /\ c.seq \in Nat
  BY LenProperties DEF SyncTypeOK, LogTypeOK, Cursor
<1>1. CASE epoch = 0
  BY <1>1, StartIsHonest DEF LogHead
<1>2. CASE epoch # 0
  <2>1. LogHead.epoch = epoch /\ LogHead.seq = Len(log)
    BY <1>2 DEF LogHead
  <2>2. From(c) \in 0 .. Len(log) /\ Range(SubSeq(log, 1, From(c))) \subseteq M
    <3>1. CASE c.epoch = epoch
      BY <1>0, <3>1 DEF Honest, From
    <3>2. CASE c.epoch # epoch
      <4>1. From(c) = 0 /\ SubSeq(log, 1, 0) = <<>>
        BY <3>2, SubSeqEmpty DEF From
      <4>2. SubSeq(log, 1, From(c)) = <<>>
        BY <4>1
      <4>3. Range(SubSeq(log, 1, From(c))) = {}
        BY <4>2, EmptyRange
      <4>. QED BY <1>0, <4>1, <4>3
    <3>. QED BY <3>1, <3>2
  <2>3. Range(SubSeq(log, 1, From(c))) \cup Range(Fetched(c)) = Range(log)
    BY <1>0, <2>2, RangeOfHalves DEF Fetched
  <2>4. Range(SubSeq(log, 1, Len(log))) \subseteq Range(log)
    BY <1>0, RangeOfPart
  <2>5. Range(SubSeq(log, 1, LogHead.seq)) \subseteq M \cup Range(Fetched(c))
    BY <2>1, <2>2, <2>3, <2>4
  <2>6. LogHead.epoch <= minted
    BY <2>1 DEF EpochFresh
  <2>. QED BY <1>0, <1>2, <2>1, <2>5, <2>6 DEF Honest
<1>. QED BY <1>1, <1>2

-----------------------------------------------------------------------------
(* A document and what is saved of it *)

\* What changes the memory of an engine.
MemoryKept(e) ==
    doc'[e] = doc[e] /\ pending'[e] = pending[e] /\ cursor'[e] = cursor[e] /\ (e \in open' <=> e \in open)

LEMMA MemoryMoves ==
    ASSUME SyncTypeOK, [SyncNext]_vars, NEW f \in Engine
    PROVE  \/ MemoryKept(f)
           \/ Open(f) \/ Refresh(f) \/ Closes(f) \/ \E u \in Update : Capture(f, u)
           \/ \E c \in Call : Integrate(f, c) \/ IntegrateFails(f, c) \/ Acked(f, c)
<1>0. /\ doc \in [Engine -> SUBSET Update] /\ pending \in [Engine -> Seq(Update)]
      /\ cursor \in [Engine -> Cursor]
  BY DEF SyncTypeOK
<1>1. ASSUME NEW e \in Engine, e # f, Open(e) \/ Refresh(e) \/ Closes(e) \/ \E u \in Update : Capture(e, u)
      PROVE  MemoryKept(f)
  <2>1. CASE Open(e)
    BY <1>0, <1>1, <2>1 DEF Open, MemoryKept
  <2>2. CASE Refresh(e)
    BY <1>0, <1>1, <2>2 DEF Refresh, MemoryKept
  <2>3. CASE Closes(e)
    BY <1>0, <1>1, <2>3 DEF Closes, Close, Leave, Forget, MemoryKept
  <2>4. ASSUME NEW u \in Update, Capture(e, u) PROVE MemoryKept(f)
    BY <1>0, <1>1, <2>4 DEF Capture, MemoryKept
  <2>. QED BY <1>1, <2>1, <2>2, <2>3, <2>4
<1>2. ASSUME NEW e \in Engine, NEW c \in Call, e # f, Integrate(e, c) \/ IntegrateFails(e, c) \/ Acked(e, c)
      PROVE  MemoryKept(f)
  <2>1. CASE Integrate(e, c)
    BY <1>0, <1>2, <2>1 DEF Integrate, MemoryKept
  <2>2. CASE IntegrateFails(e, c)
    BY <1>0, <1>2, <2>2 DEF IntegrateFails, MemoryKept
  <2>3. CASE Acked(e, c)
    BY <1>0, <1>2, <2>3 DEF Acked, MemoryKept
  <2>. QED BY <1>2, <2>1, <2>2, <2>3
<1>3. ASSUME UNCHANGED <<open, doc, pending, cursor>> PROVE MemoryKept(f)
  BY <1>3 DEF MemoryKept
<1>4. ASSUME NEW e \in Engine, PutSucceeds(e) \/ PutFails(e) \/ Commit(e) \/ Abort(e)
      PROVE  UNCHANGED <<open, doc, pending, cursor>>
  BY <1>4 DEF PutSucceeds, PutFails, Commit, Abort, engineVars
<1>5. ASSUME NEW e \in Engine, NEW c \in Call,
             StartSync(e, c) \/ ServePull(e, c) \/ HidePull(e, c) \/ ServePush(e, c) \/ SyncFails(e, c)
      PROVE  UNCHANGED <<open, doc, pending, cursor>>
  BY <1>5 DEF StartSync, ServePull, HidePull, ServePush, SyncFails
<1>6. ASSUME ServeStray \/ RestoreBackup \/ UNCHANGED vars PROVE UNCHANGED <<open, doc, pending, cursor>>
  BY <1>6 DEF ServeStray, RestoreBackup, vars, engineVars
<1>. QED BY <1>1, <1>2, <1>3, <1>4, <1>5, <1>6 DEF SyncNext, EngineStep, Closes

\* Every engine's document grows or its page is closed; and its memory stays
\* sound, whichever of its steps is taken.
LEMMA MemoryStep ==
    ASSUME SyncTypeOK, KeptSound, ClosedIsEmpty, PullsHonest, [SyncNext]_vars,
           NEW e \in Engine, Sound(Memory(e))
    PROVE  /\ doc[e] \subseteq doc'[e] \/ Closes(e)
           /\ Range(pending'[e]) \subseteq doc'[e]
           /\ Honest(cursor'[e], doc'[e])
<1> DEFINE Goal == /\ doc[e] \subseteq doc'[e] \/ Closes(e)
                   /\ Range(pending'[e]) \subseteq doc'[e]
                   /\ Honest(cursor'[e], doc'[e])
<1>0. /\ doc \in [Engine -> SUBSET Update] /\ pending \in [Engine -> Seq(Update)]
      /\ cursor \in [Engine -> Cursor] /\ calls \in [Engine -> [Call -> SyncCall]]
      /\ disk \in [Database -> PersistedStream \cup {NoRecord}]
      /\ DatabaseOf \in [Engine -> Database]
      /\ pending[e] \in Seq(Update) /\ Len(pending[e]) \in Nat
  BY SyncAssumption, LenProperties DEF SyncTypeOK
<1>1. Range(pending[e]) \subseteq doc[e] /\ Honest(cursor[e], doc[e])
  BY DEF Sound, Memory
<1>2. Range(<<>>) = {} /\ \A M : Honest(Start, M)
  BY EmptyRange, StartIsHonest
<1>3. \A c, M, N : Honest(c, M) /\ M \subseteq N => Honest(c, N)
  BY DEF Honest
<1>4. ASSUME MemoryKept(e) PROVE Goal
  BY <1>1, <1>4 DEF MemoryKept
<1>5. ASSUME Open(e) PROVE Goal
  <2>1. doc[e] = {} /\ DatabaseOf[e] \in Database
    BY <1>0, <1>5 DEF ClosedIsEmpty, Open
  <2>2. CASE disk[DatabaseOf[e]] = NoRecord
    <3>1. doc'[e] = {} /\ pending'[e] = <<>> /\ cursor'[e] = Start
      BY <1>0, <1>5, <2>2 DEF Open
    <3>. QED BY <1>2, <2>1, <3>1
  <2>3. CASE disk[DatabaseOf[e]] # NoRecord
    <3>1. Sound(disk[DatabaseOf[e]])
      BY <2>1, <2>3 DEF KeptSound
    <3>2. /\ doc'[e] = disk[DatabaseOf[e]].snapshot /\ pending'[e] = disk[DatabaseOf[e]].pending
          /\ cursor'[e] = disk[DatabaseOf[e]].cursor
      BY <1>0, <1>5, <2>3 DEF Open
    <3>. QED BY <2>1, <3>1, <3>2 DEF Sound
  <2>. QED BY <2>2, <2>3
<1>6. ASSUME Refresh(e) PROVE Goal
  <2>1. doc[e] \subseteq doc'[e] /\ pending'[e] = pending[e] /\ cursor'[e] = cursor[e]
    BY <1>0, <1>6 DEF Refresh
  <2>. QED BY <1>1, <1>3, <2>1
<1>7. ASSUME Closes(e) PROVE Goal
  <2>1. doc'[e] = {} /\ pending'[e] = <<>> /\ cursor'[e] = Start
    BY <1>0, <1>7 DEF Closes, Close, Leave, Forget
  <2>. QED BY <1>2, <1>7, <2>1
<1>8. ASSUME NEW u \in Update, Capture(e, u) PROVE Goal
  <2>1. doc'[e] = doc[e] \cup {u} /\ pending'[e] = Append(pending[e], u) /\ cursor'[e] = cursor[e]
    BY <1>0, <1>8 DEF Capture
  <2>2. Range(pending'[e]) = Range(pending[e]) \cup {u}
    BY <1>0, <2>1, RangeOfAppend
  <2>3. doc[e] \subseteq doc'[e] /\ Range(pending'[e]) \subseteq doc'[e]
    BY <1>1, <2>1, <2>2
  <2>. QED BY <1>1, <1>3, <2>1, <2>3
<1>9. ASSUME NEW c \in Call, Integrate(e, c) PROVE Goal
  <2>1. /\ doc'[e] = doc[e] \cup Range(calls[e][c].got) /\ pending'[e] = pending[e]
        /\ cursor'[e] = calls[e][c].cursor
    BY <1>0, <1>9 DEF Integrate
  <2>2. Honest(calls[e][c].cursor, doc[e] \cup Range(calls[e][c].got))
    BY <1>9 DEF Integrate, PullsHonest
  <2>. QED BY <1>1, <2>1, <2>2
<1>10. ASSUME NEW c \in Call, IntegrateFails(e, c) PROVE Goal
  <2>1. doc[e] \subseteq doc'[e] /\ pending'[e] = pending[e] /\ cursor'[e] = cursor[e]
    BY <1>0, <1>10 DEF IntegrateFails
  <2>. QED BY <1>1, <1>3, <2>1
<1>11. ASSUME NEW c \in Call, Acked(e, c) PROVE Goal
  <2>1. /\ doc'[e] = doc[e] /\ cursor'[e] = cursor[e]
        /\ pending'[e] = SubSeq(pending[e], Len(calls[e][c].batch) + 1, Len(pending[e]))
    BY <1>0, <1>11 DEF Acked
  <2>2. Len(calls[e][c].batch) + 1 \in Nat \ {0} /\ Len(pending[e]) \in 0 .. Len(pending[e])
    BY <1>0, LenProperties DEF SyncCall
  <2>3. Range(pending'[e]) \subseteq Range(pending[e])
    BY <1>0, <2>1, <2>2, RangeOfPart
  <2>. QED BY <1>1, <2>1, <2>3
<1>. QED BY <1>4, <1>5, <1>6, <1>7, <1>8, <1>9, <1>10, <1>11, MemoryMoves

\* What is at rest, and on its way there, stays sound.
LEMMA KeptStep ==
    ASSUME EngineInv, [SyncNext]_vars
    PROVE  KeptSound' /\ \A e \in Engine : Sound(Memory(e))'
<1>0. /\ SyncTypeOK /\ EpochFresh /\ KeptSound /\ ClosedIsEmpty /\ PullsHonest
      /\ SyncTypeOK' /\ writes \in [Engine -> Seq(Write)]
      /\ disk \in [Database -> PersistedStream \cup {NoRecord}]
      /\ \A e \in Engine : writes[e] \in Seq(Write) /\ DOMAIN writes[e] = 1 .. Len(writes[e])
      /\ \A e \in Engine : writes'[e] \in Seq(Write) /\ DOMAIN writes'[e] = 1 .. Len(writes'[e])
  BY TypeStep, LenProperties DEF EngineInv, SyncTypeOK
<1>1. \A st \in PersistedStream : Sound(st) => SoundNext(st)
  BY <1>0, HonestStays DEF Sound, SoundNext, PersistedStream
<1>2. ASSUME NEW e \in Engine PROVE SoundNext(Memory(e)') /\ Sound(Memory(e))'
  <2>1. Range(pending'[e]) \subseteq doc'[e] /\ Honest(cursor'[e], doc'[e])
    BY <1>0, MemoryStep DEF EngineInv
  <2>2. cursor'[e] \in Cursor
    BY <1>0 DEF SyncTypeOK
  <2>3. HonestNext(cursor'[e], doc'[e])
    BY <1>0, <2>1, <2>2, HonestStays
  <2>. QED BY <2>1, <2>3 DEF Sound, SoundNext, Memory, Honest, HonestNext
<1>3. ASSUME NEW e \in Engine, NEW i \in 1 .. Len(writes[e])
      PROVE  writes[e][i].state \in PersistedStream /\ SoundNext(writes[e][i].state)
  <2>1. writes[e][i] \in Write /\ Sound(writes[e][i].state)
    BY <1>0, ElementOfSeq DEF KeptSound
  <2>2. writes[e][i].state \in PersistedStream
    BY <2>1 DEF Write
  <2>. QED BY <1>1, <2>1, <2>2
<1>4. ASSUME NEW e \in Engine, NEW i \in 1 .. Len(writes'[e]) PROVE SoundNext(writes'[e][i].state)
  <2>1. PICK h : Traced(e, h)
    BY <1>0, QueueStep DEF Queued
  <2>. QED BY <1>2, <1>3, <2>1 DEF Traced
<1>5. ASSUME NEW d \in Database, disk'[d] # NoRecord PROVE SoundNext(disk'[d])
  <2>1. Written(d)
    BY <1>0, DiskStep
  <2>2. CASE disk'[d] = disk[d]
    BY <1>0, <1>1, <1>5, <2>2 DEF KeptSound
  <2>3. CASE disk'[d] # disk[d]
    BY <1>3, <2>1, <2>3 DEF Written
  <2>. QED BY <2>2, <2>3
<1>6. KeptSound'
  BY <1>0, <1>4, <1>5 DEF KeptSound, Sound, SoundNext, Honest, HonestNext
<1>. QED BY <1>2, <1>6

\* A page that was open and is not was closed.
LEMMA OnlyCloseCloses ==
    ASSUME SyncTypeOK, [SyncNext]_vars, NEW e \in Engine, e \in open, e \notin open'
    PROVE  Closes(e)
<1>1. \/ MemoryKept(e)
      \/ Open(e) \/ Refresh(e) \/ Closes(e) \/ \E u \in Update : Capture(e, u)
      \/ \E c \in Call : Integrate(e, c) \/ IntegrateFails(e, c) \/ Acked(e, c)
  BY MemoryMoves
<1>2. ~MemoryKept(e) /\ ~Open(e) /\ ~Refresh(e)
  BY DEF MemoryKept, Open, Refresh
<1>3. ~\E u \in Update : Capture(e, u)
  BY DEF Capture
<1>4. ~\E c \in Call : Integrate(e, c) \/ IntegrateFails(e, c) \/ Acked(e, c)
  BY DEF Integrate, IntegrateFails, Acked
<1>. QED BY <1>1, <1>2, <1>3, <1>4

\* A page that is and was not open was opened.
LEMMA OnlyOpenOpens ==
    ASSUME SyncTypeOK, ClosedIsEmpty, [SyncNext]_vars, NEW e \in Engine, e \notin open, e \in open'
    PROVE  Open(e)
<1>1. \/ MemoryKept(e)
      \/ Open(e) \/ Refresh(e) \/ Closes(e) \/ \E u \in Update : Capture(e, u)
      \/ \E c \in Call : Integrate(e, c) \/ IntegrateFails(e, c) \/ Acked(e, c)
  BY MemoryMoves
<1>2. ~MemoryKept(e) /\ ~Refresh(e) /\ ~Closes(e)
  BY DEF MemoryKept, Refresh, Closes, Close, Leave, Forget
<1>3. ~\E u \in Update : Capture(e, u)
  BY DEF Capture
<1>4. ~\E c \in Call : Integrate(e, c) \/ IntegrateFails(e, c) \/ Acked(e, c)
  BY DEF Integrate, IntegrateFails, Acked
<1>. QED BY <1>1, <1>2, <1>3, <1>4

\* A page that is closed stays empty until it is opened.
LEMMA ClosedStep ==
    ASSUME SyncTypeOK, ClosedIsEmpty, [SyncNext]_vars
    PROVE  ClosedIsEmpty'
<1> SUFFICES ASSUME NEW e \in Engine, e \notin open'
             PROVE  /\ pending'[e] = <<>> /\ doc'[e] = {} /\ cursor'[e] = Start
                    /\ \A c \in Call : calls'[e][c].at = "idle"
  BY DEF ClosedIsEmpty
<1>0. /\ doc \in [Engine -> SUBSET Update] /\ pending \in [Engine -> Seq(Update)]
      /\ cursor \in [Engine -> Cursor] /\ calls \in [Engine -> [Call -> SyncCall]]
  BY DEF SyncTypeOK
<1>1. CASE Closes(e)
  <2>1. pending'[e] = <<>> /\ doc'[e] = {} /\ cursor'[e] = Start
    BY <1>0, <1>1 DEF Closes, Close, Leave, Forget
  <2>2. calls'[e] = [c \in Call |-> Idle]
    BY <1>0, <1>1 DEF Closes, Close, Leave, Forget
  <2>. QED BY <2>1, <2>2, IdleTypes
<1>2. CASE e \notin open
  <2>0. /\ pending[e] = <<>> /\ doc[e] = {} /\ cursor[e] = Start
        /\ \A c \in Call : calls[e][c].at = "idle"
    BY <1>2 DEF ClosedIsEmpty
  <2>1. ~(Open(e) \/ Refresh(e) \/ Closes(e) \/ \E u \in Update : Capture(e, u))
    BY <1>2 DEF Open, Refresh, Closes, Close, Leave, Forget, Capture
  <2>2. \A c \in Call : /\ ~(Integrate(e, c) \/ IntegrateFails(e, c) \/ Acked(e, c))
                        /\ ~(StartSync(e, c) \/ ServePull(e, c) \/ HidePull(e, c) \/ ServePush(e, c))
    BY <1>2, <2>0 DEF Integrate, IntegrateFails, Acked, StartSync, ServePull, HidePull, ServePush
  <2>3. MemoryKept(e)
    BY <2>1, <2>2, MemoryMoves
  <2>4. ASSUME NEW c \in Call PROVE calls'[e][c].at = "idle"
    <3>1. calls'[e][c] \in {calls[e][c], Idle}
      BY <2>2, CallStep DEF Becomes
    <3>. QED BY <2>0, <3>1, IdleTypes
  <2>. QED BY <2>0, <2>3, <2>4 DEF MemoryKept
<1>3. CASE e \in open
  BY <1>1, <1>3, OnlyCloseCloses
<1>. QED BY <1>2, <1>3

\* A pull in progress stays honest, whoever writes to the log meanwhile.
LEMMA PullStep ==
    ASSUME EngineInv, [SyncNext]_vars
    PROVE  PullsHonest'
<1>0. /\ SyncTypeOK /\ EpochFresh /\ KeptSound /\ ClosedIsEmpty /\ PullsHonest
      /\ SyncTypeOK' /\ calls \in [Engine -> [Call -> SyncCall]]
      /\ log \in Seq(Update) /\ Len(log) \in Nat /\ epoch \in Nat /\ minted \in Nat
  BY TypeStep, LenProperties DEF EngineInv, SyncTypeOK, LogTypeOK
<1> SUFFICES ASSUME NEW e \in Engine, NEW c \in Call
             PROVE  /\ calls'[e][c].at = "pull" => HonestNext(calls'[e][c].cursor, doc'[e])
                    /\ calls'[e][c].at = "reply" =>
                          HonestNext(calls'[e][c].cursor, doc'[e] \cup Range(calls'[e][c].got))
  BY DEF PullsHonest, Honest, HonestNext
<1> DEFINE k == calls[e][c]
           Goal == /\ calls'[e][c].at = "pull" => HonestNext(calls'[e][c].cursor, doc'[e])
                   /\ calls'[e][c].at = "reply" =>
                         HonestNext(calls'[e][c].cursor, doc'[e] \cup Range(calls'[e][c].got))
<1>1. k \in SyncCall /\ k.cursor \in Cursor /\ cursor[e] \in Cursor /\ LogHead \in Cursor
  BY <1>0, LogTypes DEF SyncCall, SyncTypeOK
<1>2. CASE Closes(e)
  <2>1. calls'[e] = [g \in Call |-> Idle]
    BY <1>0, <1>2 DEF Closes, Close, Leave, Forget
  <2>. QED BY <2>1, IdleTypes, <1>0
<1>3. CASE doc[e] \subseteq doc'[e]
  <2>1. CASE calls'[e][c] = k
    <3>1. doc[e] \cup Range(k.got) \subseteq doc'[e] \cup Range(k.got)
      BY <1>3
    <3>. QED BY <1>0, <1>1, <1>3, <2>1, <3>1, HonestStays DEF PullsHonest
  <2>2. CASE calls'[e][c] \in {Idle, Saving} \/ calls'[e][c] = Pushing(e)
    BY <1>0, <2>2, IdleTypes
  <2>3. CASE calls'[e][c] = [k EXCEPT !.at = "pull", !.cursor = cursor[e]]
    <3>1. calls'[e][c].at = "pull" /\ calls'[e][c].cursor = cursor[e]
      BY <1>1, <2>3 DEF SyncCall
    <3>2. Honest(cursor[e], doc[e])
      BY DEF EngineInv, Sound, Memory
    <3>. QED BY <1>0, <1>1, <1>3, <3>1, <3>2, HonestStays
  <2>4. CASE ServePull(e, c) /\ calls'[e][c] = [k EXCEPT !.at = "reply",
                                                 !.got = Fetched(k.cursor), !.cursor = LogHead]
    <3>1. /\ calls'[e][c].at = "reply" /\ calls'[e][c].cursor = LogHead
          /\ calls'[e][c].got = Fetched(k.cursor)
      BY <1>1, <2>4 DEF SyncCall
    <3>2. Honest(k.cursor, doc[e])
      BY <2>4 DEF ServePull, PullsHonest, EngineInv
    <3>3. Honest(LogHead, doc[e] \cup Range(Fetched(k.cursor)))
      BY <1>0, <1>1, <3>2, FetchCatchesUp
    <3>4. doc[e] \cup Range(Fetched(k.cursor)) \subseteq doc'[e] \cup Range(Fetched(k.cursor))
      BY <1>3
    <3>. QED BY <1>0, <1>1, <3>1, <3>3, <3>4, HonestStays
  <2>5. CASE HidePull(e, c) /\ calls'[e][c] = [k EXCEPT !.at = "reply"]
    <3>1. calls'[e][c].at = "reply" /\ calls'[e][c].cursor = k.cursor
      BY <1>1, <2>5 DEF SyncCall
    <3>2. Honest(k.cursor, doc[e])
      BY <2>5 DEF HidePull, PullsHonest, EngineInv
    <3>3. doc[e] \subseteq doc'[e] \cup Range(calls'[e][c].got)
      BY <1>3
    <3>. QED BY <1>0, <1>1, <3>1, <3>2, <3>3, HonestStays
  <2>6. CASE calls'[e][c] = [k EXCEPT !.at = "ack"]
    <3>1. calls'[e][c].at = "ack"
      BY <1>1, <2>6 DEF SyncCall
    <3>. QED BY <3>1
  <2>. QED BY <1>0, <2>1, <2>2, <2>3, <2>4, <2>5, <2>6, CallStep DEF Becomes
<1>4. doc[e] \subseteq doc'[e] \/ Closes(e)
  BY <1>0, MemoryStep DEF EngineInv
<1>. QED BY <1>2, <1>3, <1>4

\* Before anything happens nothing is claimed.
LEMMA EngineInit == SyncInit => EngineInv
<1> SUFFICES ASSUME SyncInit PROVE EngineInv
  OBVIOUS
<1>0. /\ <<>> \in Seq(Update) /\ <<>> \in Seq(Write) /\ Start \in Cursor
      /\ Idle \in SyncCall /\ Idle.at = "idle" /\ DOMAIN <<>> = {}
      /\ 0 \in 0 .. MaxFaults /\ 0 \in 0 .. MaxRestores
  BY EmptySeq, SyncAssumption DEF Idle, SyncCall, Start, Cursor
<1>1. SyncTypeOK
  BY <1>0 DEF SyncInit, LogInit, SyncTypeOK, LogTypeOK
<1>2. EpochFresh
  BY DEF SyncInit, LogInit, EpochFresh
<1>3. ClosedIsEmpty
  BY <1>0 DEF SyncInit, ClosedIsEmpty
<1>4. WritersCaptured /\ KeptSound
  BY <1>0 DEF SyncInit, WritersCaptured, KeptSound
<1>5. ASSUME NEW e \in Engine PROVE Sound(Memory(e))
  BY <1>1, StartIsHonest, EmptyRange DEF SyncInit, Sound, Memory
<1>6. PullsHonest
  BY <1>0 DEF SyncInit, PullsHonest
<1>. QED BY <1>1, <1>2, <1>3, <1>4, <1>5, <1>6 DEF EngineInv

\* Every step keeps the invariant.
LEMMA EngineStepKeeps ==
    ASSUME EngineInv, [SyncNext]_vars
    PROVE  EngineInv'
<1>1. SyncTypeOK' /\ WritersCaptured'
  BY TypeStep DEF EngineInv
<1>2. EpochFresh'
  BY LogStep DEF EngineInv
<1>3. ClosedIsEmpty'
  BY ClosedStep DEF EngineInv
<1>. QED BY <1>1, <1>2, <1>3, KeptStep, PullStep DEF EngineInv

-----------------------------------------------------------------------------
(* The theorems *)

\* The inductive invariant: honest cursors, sound states, empty closed pages.
THEOREM EngineInvariant == SyncSpec => []EngineInv
<1>1. EngineInv /\ [SyncNext]_vars => EngineInv'
  BY EngineStepKeeps
<1>. QED BY <1>1, EngineInit, PTL DEF SyncSpec

\* Type correctness of SyncEngine.tla.
THEOREM EngineTypeCorrect == SyncSpec => []SyncTypeOK
<1>1. EngineInv => SyncTypeOK
  BY DEF EngineInv
<1>. QED BY <1>1, EngineInvariant, PTL

\* What a device still has to send is in the document it shows, also after a
\* reload: the optimistic UI of packages/sync/src/engine.ts never shows less
\* than it will push.
THEOREM BacklogAlwaysVisible == SyncSpec => []BacklogIsVisible
<1>1. EngineInv => BacklogIsVisible
  BY DEF EngineInv, KeptSound, Sound, Memory, BacklogIsVisible, HeldIn, SyncTypeOK
<1>. QED BY <1>1, EngineInvariant, PTL

\* No position at or below a cursor that still counts was skipped: a pull's
\* answer, the pushes of others and a restored backup can come in any order.
THEOREM CursorsNeverSkip == SyncSpec => []CursorNeverSkips
<1>1. ASSUME EngineInv PROVE CursorNeverSkips
  <2>1. ASSUME NEW c, NEW M, Honest(c, M) PROVE Covers(c, M)
    <3>1. CASE c.epoch = epoch
      BY <2>1, <3>1 DEF Honest, Covers, From
    <3>2. CASE c.epoch # epoch
      <4>1. From(c) = 0 /\ SubSeq(log, 1, 0) = <<>>
        BY <3>2, SubSeqEmpty DEF From
      <4>. QED BY <4>1, EmptyRange DEF Covers
    <3>. QED BY <3>1, <3>2
  <2>2. ASSUME NEW e \in Engine PROVE Covers(cursor[e], doc[e])
    <3>1. Honest(cursor[e], doc[e])
      BY <1>1 DEF EngineInv, Sound, Memory
    <3>. QED BY <2>1, <3>1
  <2>3. ASSUME NEW d \in Database, disk[d] # NoRecord PROVE Covers(disk[d].cursor, disk[d].snapshot)
    <3>1. Honest(disk[d].cursor, disk[d].snapshot)
      BY <1>1, <2>3 DEF EngineInv, KeptSound, Sound
    <3>. QED BY <2>1, <3>1
  <2>4. open \subseteq Engine
    BY <1>1 DEF EngineInv, SyncTypeOK
  <2>. QED BY <2>2, <2>3, <2>4 DEF CursorNeverSkips
<1>. QED BY <1>1, EngineInvariant, PTL

-----------------------------------------------------------------------------
(* The Outbox: one sync() at a time, an engine to a database, no restore *)

Serial == \A c, d \in Call : c = d
OwnDatabases == \A e, f \in Engine : DatabaseOf[e] = DatabaseOf[f] => e = f

\* A page that is closed has no put request under way.
ClosedIsWritten == \A e \in Engine \ open : writes[e] = <<>>

\* What a push carries is still at the front of the backlog when it is
\* acknowledged, so that splice() removes what the relay has and nothing else.
BatchesStand ==
    \A e \in Engine, c \in Call :
        /\ calls[e][c].at \in {"push", "ack"} =>
              /\ Len(calls[e][c].batch) <= Len(pending[e])
              /\ SubSeq(pending[e], 1, Len(calls[e][c].batch)) = calls[e][c].batch
        /\ calls[e][c].at = "ack" => Range(calls[e][c].batch) \subseteq AtRelay

\* The backlog that a put request carries.
Queue(e, i) == Range(writes[e][i].state.pending)

\* From the record at rest through the put requests to the memory, a later
\* state of a device holds what an earlier one held or the relay has it.
NothingDropped ==
    \A e \in Engine :
        /\ \A i, j \in 1 .. Len(writes[e]) : i < j => Queue(e, i) \subseteq Queue(e, j) \cup AtRelay
        /\ \A i \in 1 .. Len(writes[e]) : HeldIn(DatabaseOf[e]) \subseteq Queue(e, i) \cup AtRelay
        /\ e \in open =>
              /\ HeldIn(DatabaseOf[e]) \subseteq Range(pending[e]) \cup AtRelay
              /\ \A i \in 1 .. Len(writes[e]) : Queue(e, i) \subseteq Range(pending[e]) \cup AtRelay

OutboxInv == EngineInv /\ ClosedIsWritten /\ BatchesStand /\ NothingDropped

\* What the relay has stays there.
LEMMA RelayKeeps ==
    ASSUME SyncTypeOK, MaxRestores = 0, [SyncNext]_vars
    PROVE  AtRelay \subseteq AtRelay'
<1>0. log \in Seq(Update) /\ restores \in 0 .. MaxRestores
  BY DEF SyncTypeOK, LogTypeOK
<1>1. ~(restores < MaxRestores)
  BY <1>0
<1>2. ASSUME NEW b \in Seq(Update), AppendBatch(b) PROVE AtRelay \subseteq AtRelay'
  <2>1. Range(log \o b) = Range(log) \cup Range(b) /\ log' = log \o b
    BY <1>0, <1>2, RangeConcatenation DEF AppendBatch
  <2>. QED BY <2>1 DEF AtRelay
<1>3. ASSUME UNCHANGED logVars PROVE AtRelay \subseteq AtRelay'
  BY <1>3 DEF logVars, AtRelay
<1>. QED BY <1>1, <1>2, <1>3, LogCauses

\* A page that is closed does not start to write.
LEMMA ClosedWritesStep ==
    ASSUME SyncTypeOK, ClosedIsEmpty, ClosedIsWritten, [SyncNext]_vars
    PROVE  /\ ClosedIsWritten'
           /\ \A e \in Engine \ open : writes'[e] = <<>>
<1>0. /\ writes \in [Engine -> Seq(Write)] /\ writes' \in [Engine -> Seq(Write)]
      /\ \A e \in Engine : Queued(e)
      /\ \A e \in Engine : writes'[e] \in Seq(Write) /\ Len(writes'[e]) \in Nat
  BY QueueStep, LenProperties DEF SyncTypeOK
<1>1. ASSUME NEW e \in Engine, e \notin open PROVE writes'[e] = <<>>
  <2>1. writes[e] = <<>> /\ Len(writes[e]) = 0
    BY <1>1, EmptySeq DEF ClosedIsWritten
  <2>2. PICK h : Traced(e, h)
    BY <1>0 DEF Queued
  <2>3. ~(1 \in 1 .. Len(writes'[e]))
    <3>1. SUFFICES ASSUME 1 \in 1 .. Len(writes'[e]) PROVE FALSE
      OBVIOUS
    <3>2. h[1] \in 1 .. 0 \/ e \in open
      BY <2>1, <2>2, <3>1 DEF Traced
    <3>. QED BY <1>1, <3>2
  <2>4. Len(writes'[e]) = 0
    BY <1>0, <2>3
  <2>. QED BY <1>0, <2>4, EmptySeq
<1>2. ASSUME NEW e \in Engine, e \notin open' PROVE writes'[e] = <<>>
  <2>1. CASE e \in open
    <3>1. Closes(e)
      BY <1>2, <2>1, OnlyCloseCloses
    <3>. QED BY <1>0, <3>1 DEF Closes, Close, Leave, Forget
  <2>. QED BY <1>1, <2>1
<1>. QED BY <1>1, <1>2 DEF ClosedIsWritten

\* An open page's backlog loses only what the relay has.
LEMMA BacklogStep ==
    ASSUME SyncTypeOK, BatchesStand, [SyncNext]_vars, NEW e \in Engine, e \in open, e \in open'
    PROVE  Range(pending[e]) \subseteq Range(pending'[e]) \cup AtRelay
<1> DEFINE Goal == Range(pending[e]) \subseteq Range(pending'[e]) \cup AtRelay
<1>0. /\ pending \in [Engine -> Seq(Update)] /\ pending[e] \in Seq(Update)
      /\ Len(pending[e]) \in Nat /\ calls \in [Engine -> [Call -> SyncCall]]
  BY LenProperties DEF SyncTypeOK
<1>1. ASSUME MemoryKept(e) PROVE Goal
  BY <1>1 DEF MemoryKept
<1>2. ~Open(e) /\ ~Closes(e)
  BY DEF Open, Closes, Close, Leave, Forget, SyncTypeOK
<1>3. ASSUME Refresh(e) PROVE Goal
  BY <1>3 DEF Refresh
<1>4. ASSUME NEW u \in Update, Capture(e, u) PROVE Goal
  <2>1. pending'[e] = Append(pending[e], u)
    BY <1>0, <1>4 DEF Capture
  <2>. QED BY <1>0, <2>1, RangeOfAppend
<1>5. ASSUME NEW c \in Call, Integrate(e, c) \/ IntegrateFails(e, c) PROVE Goal
  BY <1>5 DEF Integrate, IntegrateFails
<1>6. ASSUME NEW c \in Call, Acked(e, c) PROVE Goal
  <2> DEFINE n == Len(calls[e][c].batch)
  <2>1. /\ pending'[e] = SubSeq(pending[e], n + 1, Len(pending[e]))
        /\ n <= Len(pending[e]) /\ SubSeq(pending[e], 1, n) = calls[e][c].batch
        /\ Range(calls[e][c].batch) \subseteq AtRelay
    BY <1>0, <1>6 DEF Acked, BatchesStand
  <2>2. n \in 0 .. Len(pending[e])
    <3>1. n \in Nat
      BY <1>0, LenProperties DEF SyncCall
    <3>. QED BY <1>0, <2>1, <3>1
  <2>3. Range(SubSeq(pending[e], 1, n)) \cup Range(SubSeq(pending[e], n + 1, Len(pending[e]))) = Range(pending[e])
    BY <1>0, <2>2, RangeOfHalves
  <2>. QED BY <2>1, <2>3
<1>. QED BY <1>1, <1>2, <1>3, <1>4, <1>5, <1>6, MemoryMoves

\* Serial calls keep what they push at the front of the backlog.
LEMMA BatchStep ==
    ASSUME SyncTypeOK, ClosedIsEmpty, BatchesStand, Serial, MaxRestores = 0, [SyncNext]_vars
    PROVE  BatchesStand'
<1>0. /\ pending \in [Engine -> Seq(Update)] /\ calls \in [Engine -> [Call -> SyncCall]]
      /\ log \in Seq(Update) /\ AtRelay \subseteq AtRelay'
  BY RelayKeeps DEF SyncTypeOK, LogTypeOK
<1> SUFFICES ASSUME NEW e \in Engine, NEW c \in Call, calls'[e][c].at \in {"push", "ack"}
             PROVE  /\ Len(calls'[e][c].batch) <= Len(pending'[e])
                    /\ SubSeq(pending'[e], 1, Len(calls'[e][c].batch)) = calls'[e][c].batch
                    /\ calls'[e][c].at = "ack" => Range(calls'[e][c].batch) \subseteq AtRelay'
  BY DEF BatchesStand
<1> DEFINE k == calls[e][c]
           Leads(b, s) == Len(b) <= Len(s) /\ SubSeq(s, 1, Len(b)) = b
<1>1. /\ k \in SyncCall /\ k.batch \in Seq(Update) /\ Len(k.batch) \in Nat
      /\ pending[e] \in Seq(Update) /\ Len(pending[e]) \in Nat
  <2>1. k \in SyncCall /\ k.batch \in Seq(Update) /\ pending[e] \in Seq(Update)
    BY <1>0 DEF SyncCall
  <2>. QED BY <2>1, LenProperties
<1>2. Becomes(e, c)
  BY CallStep
<1>3. CASE calls'[e][c] = k
  <2>1. /\ Leads(k.batch, pending[e]) /\ e \in open
        /\ k.at = "ack" => Range(k.batch) \subseteq AtRelay
    BY <1>3 DEF BatchesStand, ClosedIsEmpty
  <2>2. pending'[e] = pending[e] \/ \E u \in Update : pending'[e] = Append(pending[e], u)
    <3>1. ~Open(e)
      BY <2>1 DEF Open
    <3>2. ASSUME Closes(e) PROVE FALSE
      <4>1. calls'[e] = [g \in Call |-> Idle]
        BY <1>0, <3>2 DEF Closes, Close, Leave, Forget
      <4>. QED BY <4>1, IdleTypes
    <3>3. ASSUME NEW g \in Call, Acked(e, g) PROVE FALSE
      <4>1. g = c
        BY DEF Serial
      <4>2. Moved(e, c, Saving)
        BY <3>3, <4>1, CallMoves
      <4>. QED BY <4>2, IdleTypes DEF Moved
    <3>4. ASSUME MemoryKept(e) PROVE pending'[e] = pending[e]
      BY <3>4 DEF MemoryKept
    <3>5. ASSUME NEW u \in Update, Capture(e, u) PROVE pending'[e] = Append(pending[e], u)
      BY <1>0, <3>5 DEF Capture
    <3>6. ASSUME Refresh(e) PROVE pending'[e] = pending[e]
      BY <3>6 DEF Refresh
    <3>7. ASSUME NEW g \in Call, Integrate(e, g) \/ IntegrateFails(e, g) PROVE pending'[e] = pending[e]
      BY <3>7 DEF Integrate, IntegrateFails
    <3>. QED BY <3>1, <3>2, <3>3, <3>4, <3>5, <3>6, <3>7, MemoryMoves
  <2>3. Leads(k.batch, pending'[e])
    <3>1. ASSUME NEW u \in Update, pending'[e] = Append(pending[e], u) PROVE Leads(k.batch, pending'[e])
      <4>1. Len(Append(pending[e], u)) = Len(pending[e]) + 1 /\ Append(pending[e], u) = pending[e] \o <<u>>
        <5>1. Len(Append(pending[e], u)) = Len(pending[e]) + 1
          BY <1>1, AppendProperties
        <5>2. Append(pending[e], u) = pending[e] \o <<u>>
          BY <1>1, AppendIsConcat
        <5>. QED BY <5>1, <5>2
      <4>2. <<u>> \in Seq(Update) /\ Len(k.batch) \in 0 .. Len(pending[e])
        BY <1>1, <2>1
      <4>3. SubSeq(pending[e] \o <<u>>, 1, Len(k.batch)) = SubSeq(pending[e], 1, Len(k.batch))
        BY <1>1, <4>2, PrefixOfConcat
      <4>. QED BY <1>1, <2>1, <3>1, <4>1, <4>3
    <3>. QED BY <2>1, <2>2, <3>1
  <2>. QED BY <1>0, <1>3, <2>1, <2>3
<1>4. CASE Integrate(e, c) /\ calls'[e][c] = Pushing(e)
  <2>1. calls'[e][c].at = "push" /\ calls'[e][c].batch = pending[e] /\ pending'[e] = pending[e]
    BY <1>4, IdleTypes DEF Integrate
  <2>2. SubSeq(pending[e], 1, Len(pending[e])) = pending[e]
    BY <1>1, SubSeqFull
  <2>. QED BY <1>1, <2>1, <2>2
<1>5. CASE ServePush(e, c) /\ calls'[e][c] = [k EXCEPT !.at = "ack"]
  <2>1. calls'[e][c].batch = k.batch /\ pending'[e] = pending[e]
    BY <1>1, <1>5 DEF ServePush, SyncCall
  <2>2. Leads(k.batch, pending[e])
    BY <1>5 DEF ServePush, BatchesStand
  <2>3. Range(k.batch) \subseteq AtRelay'
    <3>1. log' = log \o k.batch
      BY <1>5 DEF ServePush, AppendBatch
    <3>2. Range(log \o k.batch) = Range(log) \cup Range(k.batch)
      BY <1>0, <1>1, RangeConcatenation
    <3>. QED BY <3>1, <3>2 DEF AtRelay
  <2>. QED BY <2>1, <2>2, <2>3
<1>6. CASE calls'[e][c] \in {Idle, Saving}
  BY <1>6, IdleTypes
<1>7. CASE \/ calls'[e][c] = [k EXCEPT !.at = "pull", !.cursor = cursor[e]]
           \/ calls'[e][c] = [k EXCEPT !.at = "reply", !.got = Fetched(k.cursor), !.cursor = LogHead]
           \/ calls'[e][c] = [k EXCEPT !.at = "reply"]
  BY <1>1, <1>7 DEF SyncCall
<1>. QED BY <1>2, <1>3, <1>4, <1>5, <1>6, <1>7 DEF Becomes

\* A commit leaves the log alone, and only a commit changes a record.
LEMMA CommitOrAppend ==
    ASSUME SyncTypeOK, [SyncNext]_vars
    PROVE  UNCHANGED logVars \/ \A d \in Database : disk'[d] = disk[d]
<1>1. ASSUME NEW e \in Engine, Commit(e) PROVE UNCHANGED logVars
  BY <1>1 DEF Commit
<1>. QED BY <1>1, DiskStep DEF Written

\* No step drops what is held.
LEMMA DroppedStep ==
    ASSUME SyncTypeOK, ClosedIsEmpty, ClosedIsWritten, BatchesStand, NothingDropped,
           OwnDatabases, MaxRestores = 0, [SyncNext]_vars
    PROVE  /\ NothingDropped'
           /\ \A e \in Engine : HeldIn(DatabaseOf[e]) \subseteq HeldIn(DatabaseOf[e])' \cup AtRelay
<1>0. /\ AtRelay \subseteq AtRelay' /\ DatabaseOf \in [Engine -> Database]
      /\ \A e \in Engine : /\ writes[e] \in Seq(Write) /\ Len(writes[e]) \in Nat
                           /\ writes'[e] \in Seq(Write) /\ Len(writes'[e]) \in Nat
  BY RelayKeeps, QueueStep, SyncAssumption, LenProperties DEF SyncTypeOK
<1> SUFFICES ASSUME NEW e \in Engine
             PROVE  /\ \A i, j \in 1 .. Len(writes'[e]) : i < j => Queue(e, i)' \subseteq Queue(e, j)' \cup AtRelay'
                    /\ \A i \in 1 .. Len(writes'[e]) : HeldIn(DatabaseOf[e])' \subseteq Queue(e, i)' \cup AtRelay'
                    /\ e \in open' =>
                          /\ HeldIn(DatabaseOf[e])' \subseteq Range(pending'[e]) \cup AtRelay'
                          /\ \A i \in 1 .. Len(writes'[e]) :
                                Queue(e, i)' \subseteq Range(pending'[e]) \cup AtRelay'
                    /\ HeldIn(DatabaseOf[e]) \subseteq HeldIn(DatabaseOf[e])' \cup AtRelay
  BY DEF NothingDropped
<1> DEFINE d == DatabaseOf[e]
           n == Len(writes[e])
<1>1. \/ HeldIn(d)' = HeldIn(d) /\ disk'[d] = disk[d]
      \/ 1 \in 1 .. n /\ HeldIn(d)' = Queue(e, 1)
  <2>1. Written(d)
    BY <1>0, DiskStep
  <2>2. CASE disk'[d] = disk[d]
    BY <2>2 DEF HeldIn
  <2>3. CASE \E f \in Engine : /\ Commit(f) /\ DatabaseOf[f] = d
                               /\ 1 \in 1 .. Len(writes[f]) /\ disk'[d] = writes[f][1].state
    <3>1. 1 \in 1 .. n /\ disk'[d] = writes[e][1].state
      BY <2>3 DEF OwnDatabases
    <3>2. writes[e][1].state \in PersistedStream
      <4>1. writes[e][1] \in Write
        BY <1>0, <3>1, ElementOfSeq
      <4>. QED BY <4>1 DEF Write
    <3>. QED BY <3>1, <3>2, NoRecordAssumption DEF HeldIn, Queue
  <2>. QED BY <2>1, <2>2, <2>3 DEF Written
<1>2. CASE e \notin open
  <2>1. n = 0 /\ Len(writes'[e]) = 0
    BY <1>2, EmptySeq, ClosedWritesStep DEF ClosedIsWritten
  <2>2. HeldIn(d)' = HeldIn(d) /\ disk'[d] = disk[d]
    BY <1>1, <2>1
  <2>3. ASSUME e \in open' PROVE HeldIn(d)' \subseteq Range(pending'[e])
    <3>1. Open(e)
      BY <1>2, <2>3, OnlyOpenOpens
    <3>2. pending'[e] = IF disk[d] = NoRecord THEN <<>> ELSE disk[d].pending
      BY <3>1 DEF Open, SyncTypeOK
    <3>. QED BY <2>2, <3>2 DEF HeldIn
  <2>. QED BY <2>1, <2>2, <2>3
<1>3. CASE e \in open
  <2>0. /\ \A i, j \in 1 .. n : i < j => Queue(e, i) \subseteq Queue(e, j) \cup AtRelay
        /\ \A i \in 1 .. n : HeldIn(d) \subseteq Queue(e, i) \cup AtRelay
        /\ HeldIn(d) \subseteq Range(pending[e]) \cup AtRelay
        /\ \A i \in 1 .. n : Queue(e, i) \subseteq Range(pending[e]) \cup AtRelay
    BY <1>3 DEF NothingDropped
  <2>1. HeldIn(d) \subseteq HeldIn(d)' \cup AtRelay
    BY <1>1, <2>0
  <2>2. CASE e \notin open'
    <3>1. Len(writes'[e]) = 0
      BY <2>2, ClosedWritesStep, EmptySeq DEF ClosedIsWritten
    <3>. QED BY <2>1, <2>2, <3>1
  <2>3. CASE e \in open'
    <3>1. Range(pending[e]) \subseteq Range(pending'[e]) \cup AtRelay
      BY <1>3, <2>3, BacklogStep
    <3>2. /\ \A i \in 1 .. n : Queue(e, i) \subseteq Range(pending'[e]) \cup AtRelay'
          /\ HeldIn(d)' \subseteq Range(pending'[e]) \cup AtRelay'
          /\ \A i \in 1 .. n : HeldIn(d)' \subseteq Queue(e, i) \cup AtRelay'
      <4>1. \A i \in 1 .. n : Queue(e, i) \subseteq Range(pending'[e]) \cup AtRelay'
        BY <1>0, <2>0, <3>1
      <4>2. HeldIn(d)' \subseteq Range(pending'[e]) \cup AtRelay'
        BY <1>0, <1>1, <2>0, <3>1, <4>1
      <4>3. ASSUME NEW i \in 1 .. n PROVE HeldIn(d)' \subseteq Queue(e, i) \cup AtRelay'
        <5>1. CASE HeldIn(d)' = HeldIn(d)
          BY <1>0, <2>0, <5>1
        <5>2. CASE 1 \in 1 .. n /\ HeldIn(d)' = Queue(e, 1)
          <6>1. i = 1 \/ 1 < i
            BY <1>0
          <6>. QED BY <1>0, <2>0, <5>2, <6>1
        <5>. QED BY <1>1, <5>1, <5>2
      <4>. QED BY <4>1, <4>2, <4>3
    <3>3. PICK h : Traced(e, h)
      BY QueueStep DEF Queued
    <3>4. ASSUME NEW i \in 1 .. Len(writes'[e])
          PROVE  \/ h[i] \in 1 .. n /\ Queue(e, i)' = Queue(e, h[i])
                 \/ h[i] = n + 1 /\ Queue(e, i)' = Range(pending'[e])
      BY <3>3 DEF Traced, Queue, Memory
    <3>5. ASSUME NEW i \in 1 .. Len(writes'[e])
          PROVE  /\ HeldIn(d)' \subseteq Queue(e, i)' \cup AtRelay'
                 /\ Queue(e, i)' \subseteq Range(pending'[e]) \cup AtRelay'
      BY <3>2, <3>4
    <3>6. ASSUME NEW i \in 1 .. Len(writes'[e]), NEW j \in 1 .. Len(writes'[e]), i < j
          PROVE  Queue(e, i)' \subseteq Queue(e, j)' \cup AtRelay'
      <4>1. h[i] < h[j] /\ h[i] \in 1 .. n + 1 /\ h[j] \in 1 .. n + 1
        BY <3>3, <3>6 DEF Traced
      <4>2. h[i] \in 1 .. n /\ Queue(e, i)' = Queue(e, h[i])
        BY <1>0, <3>4, <4>1
      <4>3. CASE h[j] \in 1 .. n /\ Queue(e, j)' = Queue(e, h[j])
        BY <1>0, <2>0, <4>1, <4>2, <4>3
      <4>4. CASE Queue(e, j)' = Range(pending'[e])
        BY <3>2, <4>2, <4>4
      <4>. QED BY <3>4, <4>3, <4>4
    <3>. QED BY <2>1, <3>2, <3>5, <3>6
  <2>. QED BY <2>2, <2>3
<1>. QED BY <1>2, <1>3

\* An update's fate, one condition after the other.
LEMMA FateIs ==
    ASSUME NEW u \in Update
    PROVE  /\ Fate(u) = IF u \in AtRelay THEN "delivered"
                        ELSE IF \E d \in Database : u \in HeldIn(d) THEN "held" ELSE "unknown"
           /\ Fate(u)' = IF u \in AtRelay' THEN "delivered"
                         ELSE IF \E d \in Database : u \in HeldIn(d)' THEN "held" ELSE "unknown"
BY DEF Fate

\* A step of the engines, the network or the relay is a step of the Outbox:
\* updates come to be held, or come to the relay, or nothing changes.
LEMMA StepsOfOutbox ==
    ASSUME OutboxInv, OwnDatabases, MaxRestores = 0, [SyncNext]_vars
    PROVE  O!Next
<1>0. /\ SyncTypeOK /\ ClosedIsEmpty /\ ClosedIsWritten /\ BatchesStand /\ NothingDropped
      /\ AtRelay \subseteq AtRelay' /\ AtRelay \subseteq Update /\ AtRelay' \subseteq Update
  <2>1. SyncTypeOK /\ ClosedIsEmpty /\ ClosedIsWritten /\ BatchesStand /\ NothingDropped
    BY DEF OutboxInv, EngineInv
  <2>2. log \in Seq(Update) /\ log' \in Seq(Update)
    BY <2>1, LogTypes DEF SyncTypeOK, LogTypeOK
  <2>3. Range(log) \subseteq Update /\ Range(log') \subseteq Update
    BY <2>2, RangeOfSeq
  <2>. QED BY <2>1, <2>3, RelayKeeps DEF AtRelay
<1>1. CASE \A d \in Database : disk'[d] = disk[d]
  <2>1. \A d \in Database : HeldIn(d)' = HeldIn(d)
    BY <1>1 DEF HeldIn
  <2>2. \A u \in Update : Fate(u)' = IF u \in AtRelay' THEN "delivered" ELSE Fate(u)
    BY <1>0, <2>1, FateIs
  <2>3. O!Deliver(AtRelay')
    BY <2>2 DEF O!Deliver
  <2>. QED BY <1>0, <2>3 DEF O!Next
<1>2. CASE UNCHANGED logVars
  <2> DEFINE S == {u \in Update : Fate(u) = "unknown" /\ Fate(u)' = "held"}
  <2>1. AtRelay' = AtRelay
    BY <1>2 DEF logVars, AtRelay
  <2>2. ASSUME NEW u \in Update, NEW d \in Database, u \in HeldIn(d), u \notin AtRelay
        PROVE  u \in HeldIn(d)'
    <3>1. CASE disk'[d] = disk[d]
      BY <2>2, <3>1 DEF HeldIn
    <3>2. CASE disk'[d] # disk[d]
      <4>1. PICK e \in Engine : DatabaseOf[e] = d
        BY <1>0, <3>2, DiskStep DEF Written
      <4>. QED BY <1>0, <2>2, <4>1, DroppedStep
    <3>. QED BY <3>1, <3>2
  <2>3. \A u \in Update : Fate(u)' = IF u \in S THEN "held" ELSE Fate(u)
    BY <2>1, <2>2, FateIs
  <2>4. \A u \in S : u \in Update /\ Fate(u) = "unknown"
    OBVIOUS
  <2>5. S \in SUBSET Update
    OBVIOUS
  <2> HIDE DEF S
  <2>6. O!Hold(S)
    BY <2>3, <2>4 DEF O!Hold
  <2>. QED BY <2>5, <2>6 DEF O!Next
<1>. QED BY <1>0, <1>1, <1>2, CommitOrAppend

\* When an engine is the only one of its database, calls sync() one at a time
\* and its relay is not set back, no held update is lost and no delivered one
\* taken back: the engine implements the safety of the Outbox.
THEOREM ImplementsOutboxSafety ==
    ASSUME Serial, OwnDatabases, MaxRestores = 0
    PROVE  SyncSpec => ImplementsOutbox
<1>1. SyncInit => OutboxInv /\ O!Init
  <2> SUFFICES ASSUME SyncInit PROVE OutboxInv /\ O!Init
    OBVIOUS
  <2>1. Len(<<>>) = 0 /\ Idle.at = "idle"
    BY EmptySeq DEF Idle
  <2>2. ClosedIsWritten /\ BatchesStand
    BY <2>1 DEF SyncInit, ClosedIsWritten, BatchesStand
  <2>3. NothingDropped
    <3>1. \A e \in Engine : Len(writes[e]) = 0 /\ e \notin open
      BY <2>1 DEF SyncInit
    <3>. QED BY <3>1 DEF NothingDropped
  <2>4. ASSUME NEW u \in Update PROVE Fate(u) = "unknown"
    <3>1. \A d \in Database : HeldIn(d) = {}
      BY DEF SyncInit, HeldIn
    <3>2. AtRelay = {}
      BY EmptyRange DEF SyncInit, LogInit, AtRelay
    <3>. QED BY <3>1, <3>2, FateIs
  <2>5. O!Init
    BY <2>4 DEF O!Init
  <2>. QED BY <2>2, <2>3, <2>5, EngineInit DEF OutboxInv
<1>2. OutboxInv /\ [SyncNext]_vars => OutboxInv'
  <2> SUFFICES ASSUME OutboxInv, [SyncNext]_vars PROVE OutboxInv'
    OBVIOUS
  <2>1. EngineInv'
    BY EngineStepKeeps DEF OutboxInv
  <2>2. SyncTypeOK /\ ClosedIsEmpty /\ ClosedIsWritten /\ BatchesStand /\ NothingDropped
    BY DEF OutboxInv, EngineInv
  <2>. QED BY <2>1, <2>2, ClosedWritesStep, BatchStep, DroppedStep DEF OutboxInv
<1>3. OutboxInv /\ [SyncNext]_vars => [O!Next]_([u \in Update |-> Fate(u)])
  BY StepsOfOutbox
<1>. QED BY <1>1, <1>2, <1>3, PTL DEF SyncSpec, ImplementsOutbox, O!Safety
===============================================================================
