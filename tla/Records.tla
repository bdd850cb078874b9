-------------------------------- MODULE Records --------------------------------
(***************************************************************************)
(* The teacher's records on several unlocked devices: the master document  *)
(* (data/repository.ts), the write actions (data/writes.ts), the screens   *)
(* that call them with the copies they hold, and the para document with    *)
(* the two-document validation (data/session.ts).                          *)
(*                                                                         *)
(* A write changes the device's document at once; what the screens show is *)
(* read again only when that write has been saved, and not after a sync.   *)
(* A sync is the exchange of everything a device and the relay hold, which *)
(* module SyncEngine shows the engines to arrive at.                       *)
(*                                                                         *)
(* "topic" fixes the part of the document a behaviour is about.  The parts *)
(* share no key, so they are explored one at a time:                       *)
(*   baseline  a proposed goal and its baseline points                     *)
(*   scoring   data points of two goals, on devices without a para stream  *)
(*   para      the same with a para stream and the in-process para session *)
(*   caseload  goals as they are made, in module Caseload                  *)
(***************************************************************************)
EXTENDS YMap, FiniteSets, SequencesExt

CONSTANTS
    Device,      \* numbers: a device is the client of what it writes
    Goal,        \* goals data points are recorded for
    Baseline,    \* ids of baseline points
    Score,       \* scores that are typed, <<correct, total>>
    ProbeTotal,
    MinPoints,
    None,
    Bound        \* model bounds for each topic: the devices that act, the data
                 \* points made, the writes of the master document, the handlers
                 \* of one device under way at once, and what the teacher may
                 \* choose for a total off the probe's

INSTANCE BaselineEdit
D == INSTANCE DataPoint

Topic == DOMAIN Bound
Id == UNION {1 .. Bound[t].points : t \in Topic}

\* Client 0 is the one that wrote what every device starts with.
ASSUME RecordsAssumption ==
    /\ Device # {} /\ Device \subseteq Nat \ {0}
    /\ Goal # {} /\ Goal \subseteq Nat
    /\ Score \subseteq Nat \X Nat /\ \E s \in Score : s[2] = ProbeTotal
    /\ MinPoints \in Nat \ {0}
    /\ None \notin Nat
    /\ \A t \in Topic : Bound[t].devices \subseteq Device /\ Bound[t].points \in Nat

Label == {"1", "2"}
GoalKey == <<"goal", 0>>

VARIABLES
    topic,
    doc,      \* [Device -> master document]
    relay,    \* the master document as the relay has it
    shown,    \* [Device -> the document as of the screens' last reading]
    sheet,    \* [Device -> the open Quick-Score sheet]
    paraFix,  \* [Device -> the pending point a [Fix] was opened for]
    jobs,     \* [Device -> for each handler under way, the steps it has left]
    pdoc,     \* [Device -> para document in the teacher's stream]
    pside,    \* [Device -> para document in the para session's stream]
    disk,     \* [Device -> para document at rest, shared by both]
    prelay,   \* the para document as the relay has it
    ploaded,  \* [Device -> the para's capture has refreshed and not yet written]
    queue,    \* [Device -> the validation queue on the screen]
    minted,   \* data point ids used
    writes    \* writes made

Election == Bound[topic].elections

masterVars == <<doc, minted, writes>>
paraVars == <<pdoc, pside, disk, ploaded>>
vars == <<topic, doc, relay, shown, sheet, paraFix, jobs, pdoc, pside, disk, prelay,
          ploaded, queue, minted, writes>>

NoSheet == [goal |-> None, existing |-> None, copy |-> None]
NoFix == [id |-> None, copy |-> None]

-----------------------------------------------------------------------------
(* Reading the document. *)

Removed(m, b) == Has(m, <<"removal", b>>)

\* Mutant: the removal marker is written and never re-applied.
ReadBaselinePoint_NoMarker(m, b) == Get(m, <<"baseline", b>>)

\* Mutant: the removal is re-applied to a point that already says it.
ReadBaselinePoint_Twice(m, b) ==
    LET p == Get(m, <<"baseline", b>>)
    IN  IF Removed(m, b)
        THEN [p EXCEPT !.removed = TRUE, !.revisions = Append(@, Get(m, <<"removal", b>>))]
        ELSE p

ReadBaselinePoint(m, b) ==
    LET p == Get(m, <<"baseline", b>>)
    IN  IF Removed(m, b) /\ ~p.removed
        THEN [p EXCEPT !.removed = TRUE, !.revisions = Append(@, Get(m, <<"removal", b>>))]
        ELSE p

ReadGoal(m) == Get(m, GoalKey)

BaselineOf(m) == {b \in Baseline : Has(m, <<"baseline", b>>)}
ReadBaseline(m) == [b \in BaselineOf(m) |-> ReadBaselinePoint(m, b)]

PointsOf(m) == {i \in Id : Has(m, <<"point", i>>)}
ReadPoint(m, i) == Get(m, <<"point", i>>)

PendingOf(m) == {i \in Id : Has(m, <<"pending", i>>)}

\* Mutant: the queue drops what has a tombstone instead of what has a record.
DeriveParaQueue_ByTombstone(m, p) == {i \in PendingOf(p) : ~Has(p, <<"tombstone", i>>)}

DeriveParaQueue(m, p) == PendingOf(p) \ PointsOf(m)

-----------------------------------------------------------------------------
(* Writing the document: what each mutator of data/writes.ts makes of it.   *)

PutPoint(m, d, i, p) == Put(m, d, <<"point", i>>, p)

UpsertBaselinePoint(m, d, b, p) ==
    LET n == Put(m, d, <<"baseline", b>>, p)
    IN  IF p.removed THEN Put(n, d, <<"removal", b>>, p.revisions[Len(p.revisions)]) ELSE n

ScoreMutator(m, d, i, goal, s, e) == PutPoint(m, d, i, D!CaptureScoredPoint(goal, s, e))
NoDataMutator(m, d, i, goal) == PutPoint(m, d, i, D!RecordNoData(goal))
BookmarkMutator(m, d, i, goal) == PutPoint(m, d, i, D!BookmarkForLater(goal))
UnbookmarkMutator(m, i) == Delete(m, <<"point", i>>)

(* A placeholder makes way for a scored point with an id of its own. *)
\* Mutant: it is completed in place, under its own id.
CompleteQueuedMutator_InPlace(m, d, queued, i, goal, s, e) == ScoreMutator(m, d, queued, goal, s, e)

CompleteQueuedMutator(m, d, queued, i, goal, s, e) ==
    ScoreMutator(UnbookmarkMutator(m, queued), d, i, goal, s, e)

(* The edit is of the point as the sheet has it. *)
EditMutator(m, d, i, copy, s, e) == PutPoint(m, d, i, D!FixedPoint(copy, s, e))

(* The goal writers store the goal they are given: they do not read it     *)
(* again.                                                                  *)
UpsertGoal(m, d, i, g) == Put(m, d, <<"goal", i>>, g)
UpsertGoalMutator(m, d, i, g) == UpsertGoal(m, d, i, g)
AdoptGoalMutator(m, d, i, g, points) == UpsertGoal(m, d, i, AdoptGoal(g, points))

AddBaselinePointMutator(m, d, b, p) == UpsertBaselinePoint(m, d, b, p)

(* An audited edit: the rules are given the point and the goal as they are *)
(* inside the write, and a refused edit writes nothing.                    *)
EditBaselinePoint(m, d, b, next) ==
    IF next = ReadBaselinePoint(m, b) THEN m ELSE UpsertBaselinePoint(m, d, b, next)

(* A fix is a number correct, a total and a date; what it leaves out (None) *)
(* is kept.                                                                *)
FixBaselinePointMutator(m, d, b, fix) ==
    LET p == ReadBaselinePoint(m, b)
        correct == IF fix[1] = None THEN p.score[1] ELSE fix[1]
        date == IF fix[3] = None THEN p.date ELSE fix[3]
    IN  EditBaselinePoint(m, d, b,
            FixBaselinePoint(p, ReadGoal(m), b, <<correct, fix[2]>>, date))
RemoveBaselinePointMutator(m, d, b) ==
    EditBaselinePoint(m, d, b, RemoveBaselinePoint(ReadBaselinePoint(m, b), ReadGoal(m)))
KeepBaselineTotalMutator(m, d, b) ==
    EditBaselinePoint(m, d, b, KeepBaselineTotal(ReadBaselinePoint(m, b)))

ParaCaptureMutator(p, client, i, point) == Put(p, client, <<"pending", i>>, point)
SetParaTombstone(p, client, i) == Put(p, client, <<"tombstone", i>>, None)

(* capture() of the master document: the change is made and queued at once,*)
(* the rest of the handler goes on when it has been saved.                 *)
Capture(d, m, rest) ==
    /\ writes < Bound[topic].writes
    /\ Len(jobs[d]) < Bound[topic].jobs
    /\ doc' = [doc EXCEPT ![d] = m]
    /\ jobs' = [jobs EXCEPT ![d] = Append(@, rest)]
    /\ writes' = writes + 1

(* A step of a handler, and the data point it is about if it is about one. *)
To(name) == <<name, 0>>

(* What the session's capture does after the save: nothing without a para  *)
(* stream, else the projection is published from a refreshed para stream.  *)
Republish == IF topic = "para" THEN <<To("refresh"), To("publish")>> ELSE << >>

(* useSessionRecords.apply, and the sheet's commit, which closes the sheet. *)
Apply(d, m) == Capture(d, m, Republish \o <<To("show")>>)
Commit(d, m) == Capture(d, m, Republish \o <<To("show"), To("close")>>)

NewId(i) == minted < Bound[topic].points /\ i = minted + 1 /\ minted' = i
NoNewId == UNCHANGED minted

Untouched == UNCHANGED <<topic, relay, shown, prelay>>
OnlyMaster == Untouched /\ UNCHANGED <<sheet, paraFix, paraVars, queue>>

-----------------------------------------------------------------------------
(* The baseline track and Goal Detail.  What may be tapped is decided by   *)
(* what the screens show.                                                  *)

ShownGoal(d) == ReadGoal(shown[d])
Listed(d) == {b \in BaselineOf(shown[d]) : ~ReadBaselinePoint(shown[d], b).removed}

(* What the screens let her tap. *)
IsProposed(d) == topic = "baseline" /\ ShownGoal(d).status = "proposed"
AddPointRow(d, s) == IsProposed(d) /\ IsScore(s)
RemoveDialog(d, b) == IsProposed(d) /\ b \in Listed(d)
TotalDecision(d, b) ==
    IsProposed(d) /\ b \in Listed(d) /\ NeedsTotalDecision(ReadBaselinePoint(shown[d], b))
AdoptAction(d) == topic = "baseline" /\ CanAdopt(ShownGoal(d), ReadBaseline(shown[d]))
GoalLabelEditor(d, label) == topic = "baseline" /\ label # ShownGoal(d).label

AddBaselinePoint(d, b, s) ==
    /\ AddPointRow(d, s)
    /\ \A e \in Device : b \notin BaselineOf(doc[e])
    /\ Apply(d, AddBaselinePointMutator(doc[d], d, b, NewBaselinePoint(s)))
    /\ NoNewId /\ OnlyMaster

FixBaseline(d, b, fix) ==
    /\ Apply(d, FixBaselinePointMutator(doc[d], d, b, fix))
    /\ NoNewId /\ OnlyMaster

FixDialog(d, b, s, date) ==
    /\ topic = "baseline" /\ b \in Listed(d) /\ IsScore(s)
    /\ FixBaseline(d, b, <<s[1], s[2], date>>)

(* "Use N": a fix of the total alone. *)
UseProbeTotal(d, b) ==
    /\ TotalDecision(d, b)
    /\ ReadBaselinePoint(shown[d], b).score[1] <= ProbeTotal
    /\ FixBaseline(d, b, <<None, ProbeTotal, None>>)

RemoveBaseline(d, b) ==
    /\ RemoveDialog(d, b)
    /\ Apply(d, RemoveBaselinePointMutator(doc[d], d, b))
    /\ NoNewId /\ OnlyMaster

KeepBaseline(d, b) ==
    /\ TotalDecision(d, b)
    /\ Apply(d, KeepBaselineTotalMutator(doc[d], d, b))
    /\ NoNewId /\ OnlyMaster

(* The goal and the points are those the screen shows. *)
Adopt(d) ==
    /\ AdoptAction(d)
    /\ Apply(d, AdoptGoalMutator(doc[d], d, 0, ShownGoal(d), ReadBaseline(shown[d])))
    /\ NoNewId /\ OnlyMaster

EditArc(d, date) ==
    /\ IsProposed(d) /\ date # ShownGoal(d).arc
    /\ Apply(d, UpsertGoalMutator(doc[d], d, 0, EditArcDate(ShownGoal(d), date)))
    /\ NoNewId /\ OnlyMaster

SaveGoalLabel(d, label) ==
    /\ GoalLabelEditor(d, label)
    /\ Apply(d, UpsertGoalMutator(doc[d], d, 0, SetGoalLabel(ShownGoal(d), label)))
    /\ NoNewId /\ OnlyMaster

-----------------------------------------------------------------------------
(* The Quick-Score sheet, the To-Score queue and the dashboard. *)

Scoring == topic \in {"scoring", "para"}

ShownIn(d, g, state) ==
    {i \in PointsOf(shown[d]) : LET p == ReadPoint(shown[d], i)
                                IN  p.goal = g /\ p.state = state}
Newest(ids) == CHOOSE i \in ids : \A j \in ids : j <= i

OpenSheet(d, g, i) ==
    /\ Scoring /\ sheet[d] = NoSheet
    /\ sheet' = [sheet EXCEPT ![d] =
           [goal |-> g, existing |-> i,
            copy |-> IF i = None THEN None ELSE ReadPoint(shown[d], i)]]
    /\ UNCHANGED <<masterVars, jobs, paraFix, paraVars, queue>> /\ Untouched

(* What the goal owes this week: no score, and no reason for none.         *)
Owes(d, g) == ShownIn(d, g, "scored") \cup ShownIn(d, g, "no_data") = {}

(* A row of the dashboard: this week's score is fixed, else the placeholder*)
(* is completed, else an owed score is entered.                            *)
OpenRow(d, g) ==
    LET scored == ShownIn(d, g, "scored")
        queued == ShownIn(d, g, "queued")
    IN  \/ scored # {} /\ OpenSheet(d, g, Newest(scored))
        \/ Owes(d, g) /\ queued # {} /\ OpenSheet(d, g, Newest(queued))
        \/ Owes(d, g) /\ queued = {} /\ OpenSheet(d, g, None)

(* "+ Add a point" and [Fix] of Goal Detail, and the To-Score queue. *)
OpenFromGoalDetail(d, g) ==
    OpenSheet(d, g, None) \/ \E i \in ShownIn(d, g, "scored") : OpenSheet(d, g, i)
OpenQueued(d, g) == \E i \in ShownIn(d, g, "queued") : OpenSheet(d, g, i)

CloseSheet(d) ==
    /\ sheet[d] # NoSheet
    /\ sheet' = [sheet EXCEPT ![d] = NoSheet]
    /\ paraFix' = [paraFix EXCEPT ![d] = NoFix]
    /\ UNCHANGED <<masterVars, jobs, paraVars, queue>> /\ Untouched

(* Save with the typed score.  A total off the probe's needs an election.  *)
Elected(s, e) == IF s[2] # ProbeTotal THEN e \in Election ELSE e = None

SaveScore(d, s, e) ==
    /\ sheet[d] # NoSheet /\ paraFix[d] = NoFix /\ Elected(s, e)
    /\ LET at == sheet[d]
           IsQueued == at.existing # None /\ at.copy.state = "queued"
       IN  \/ \E i \in Id :
                /\ NewId(i)
                /\ \/ at.existing = None /\ Commit(d, ScoreMutator(doc[d], d, i, at.goal, s, e))
                   \/ /\ IsQueued
                      /\ Commit(d, CompleteQueuedMutator(doc[d], d, at.existing, i, at.copy.goal, s, e))
           \/ /\ at.existing # None /\ ~IsQueued
              /\ Commit(d, EditMutator(doc[d], d, at.existing, at.copy, s, e))
              /\ NoNewId
    /\ OnlyMaster

(* "No data" and "score later" make a point of their own. *)
SaveNoData(d) ==
    /\ sheet[d] # NoSheet
    /\ \E i \in Id : NewId(i) /\ Commit(d, NoDataMutator(doc[d], d, i, sheet[d].goal))
    /\ OnlyMaster

BookmarkFromSheet(d) ==
    /\ sheet[d] # NoSheet /\ sheet[d].existing = None
    /\ \E i \in Id : NewId(i) /\ Commit(d, BookmarkMutator(doc[d], d, i, sheet[d].goal))
    /\ OnlyMaster

ToggleLater(d, g) ==
    /\ Scoring /\ sheet[d] = NoSheet /\ Owes(d, g)
    /\ LET queued == ShownIn(d, g, "queued")
       IN  \/ queued # {} /\ Apply(d, UnbookmarkMutator(doc[d], Newest(queued))) /\ NoNewId
           \/ /\ queued = {}
              /\ \E i \in Id : NewId(i) /\ Apply(d, BookmarkMutator(doc[d], d, i, g))
    /\ OnlyMaster

-----------------------------------------------------------------------------
(* The para session and the validation in two documents. *)

ParaRefresh(d) ==
    /\ topic = "para" /\ ~ploaded[d] /\ minted < Bound[topic].points
    /\ pside' = [pside EXCEPT ![d] = Merge(@, disk[d])]
    /\ ploaded' = [ploaded EXCEPT ![d] = TRUE]
    /\ UNCHANGED <<masterVars, jobs, sheet, paraFix, pdoc, disk, queue>> /\ Untouched

(* The engine saves all its stream holds over what is at rest. *)
ParaCapture(d, p) ==
    /\ ploaded[d]
    /\ \E j \in Id :
         /\ NewId(j)
         /\ pside' = [pside EXCEPT ![d] = ParaCaptureMutator(@, 10 + d, j, p)]
    /\ disk' = [disk EXCEPT ![d] = pside'[d]]
    /\ ploaded' = [ploaded EXCEPT ![d] = FALSE]
    /\ UNCHANGED <<doc, writes, jobs, sheet, paraFix, pdoc, queue>> /\ Untouched

RefreshQueue(d) ==
    /\ topic = "para" /\ jobs[d] = << >>
    /\ jobs' = [jobs EXCEPT ![d] = <<<<To("refresh"), To("queue")>>>>]
    /\ UNCHANGED <<masterVars, sheet, paraFix, paraVars, queue>> /\ Untouched

(* The record first; the tombstone when it has been saved. *)
MasterFirstThenTombstone(d, i, p, rest) ==
    /\ Capture(d, PutPoint(doc[d], d, i, p), <<To("refresh"), <<"tombstone", i>>>> \o rest)
    /\ NoNewId

ConfirmPara(d, i) ==
    /\ topic = "para" /\ sheet[d] = NoSheet /\ i \in DOMAIN queue[d]
    /\ D!CanValidate(queue[d][i])
    /\ MasterFirstThenTombstone(d, i, D!ValidateParaPoint(queue[d][i]),
                                <<To("show"), To("refresh"), To("queue")>>)
    /\ OnlyMaster

(* [Fix] of a pending point opens the sheet with its values. *)
FixPara(d, i) ==
    /\ topic = "para" /\ sheet[d] = NoSheet /\ i \in DOMAIN queue[d]
    /\ sheet' = [sheet EXCEPT ![d] =
           [goal |-> queue[d][i].goal, existing |-> i, copy |-> queue[d][i]]]
    /\ paraFix' = [paraFix EXCEPT ![d] = [id |-> i, copy |-> queue[d][i]]]
    /\ UNCHANGED <<masterVars, jobs, paraVars, queue>> /\ Untouched

(* Save of a sheet while a [Fix] is remembered: its point is corrected and *)
(* validated.                                                              *)
CommitParaFix(d, s, e) ==
    /\ sheet[d] # NoSheet /\ paraFix[d] # NoFix /\ Elected(s, e)
    /\ D!CanValidate(paraFix[d].copy)
    /\ MasterFirstThenTombstone(d, paraFix[d].id,
                                D!ValidateParaPoint(D!ApplyEdit(paraFix[d].copy, s)),
                                <<To("close fix"), To("show"), To("refresh"), To("queue")>>)
    /\ OnlyMaster

-----------------------------------------------------------------------------
(* The steps a handler has left, in their order. *)

QueueOn(d, p) == [i \in DeriveParaQueue(doc[d], p) |-> Get(p, <<"pending", i>>)]

Saved(d, m) ==
    /\ pdoc' = [pdoc EXCEPT ![d] = m]
    /\ disk' = [disk EXCEPT ![d] = m]

Step(d, step) ==
    \/ /\ step = To("show")
       /\ shown' = [shown EXCEPT ![d] = doc[d]]
       /\ UNCHANGED <<sheet, paraFix, paraVars, queue>>
    \/ /\ step = To("close")
       /\ sheet' = [sheet EXCEPT ![d] = NoSheet]
       /\ UNCHANGED <<shown, paraFix, paraVars, queue>>
    \/ /\ step = To("close fix")
       /\ sheet' = [sheet EXCEPT ![d] = NoSheet]
       /\ paraFix' = [paraFix EXCEPT ![d] = NoFix]
       /\ UNCHANGED <<shown, paraVars, queue>>
    \/ /\ step = To("refresh")
       /\ pdoc' = [pdoc EXCEPT ![d] = Merge(@, disk[d])]
       /\ UNCHANGED <<shown, sheet, paraFix, pside, disk, ploaded, queue>>
    \/ /\ step = To("publish")
       /\ Saved(d, pdoc[d])
       /\ UNCHANGED <<shown, sheet, paraFix, pside, ploaded, queue>>
    \/ /\ step = To("queue")
       /\ queue' = [queue EXCEPT ![d] = QueueOn(d, pdoc[d])]
       /\ UNCHANGED <<shown, sheet, paraFix, paraVars>>
    \/ \E i \in Id :
       /\ step = <<"tombstone", i>>
       /\ Saved(d, SetParaTombstone(pdoc[d], d, i))
       /\ UNCHANGED <<shown, sheet, paraFix, pside, ploaded, queue>>

(* A handler goes on, at each await of its own. *)
Advance(d, n) ==
    /\ n \in DOMAIN jobs[d]
    /\ Step(d, Head(jobs[d][n]))
    /\ jobs' = [jobs EXCEPT ![d] =
           IF Len(@[n]) = 1 THEN RemoveAt(@, n) ELSE [@ EXCEPT ![n] = Tail(@)]]
    /\ UNCHANGED <<topic, relay, prelay, masterVars>>

(* The session's sync reconciles each stream on its own.  Nothing on the   *)
(* screen changes.                                                         *)
SyncMaster(d) ==
    LET m == Merge(doc[d], relay)
    IN  /\ doc' = [doc EXCEPT ![d] = m]
        /\ relay' = m
        /\ UNCHANGED <<topic, minted, writes, shown, sheet, paraFix, jobs, paraVars, prelay, queue>>

SyncPara(d) ==
    LET m == Merge(pdoc[d], prelay)
    IN  /\ topic = "para"
        /\ prelay' = m
        /\ Saved(d, m)
        /\ UNCHANGED <<topic, masterVars, relay, shown, sheet, paraFix, jobs, pside, ploaded, queue>>

(* The app is locked, or the page reloaded, and unlocked again: handlers   *)
(* under way are gone, and everything is read from what is at rest.        *)
Reopen(d) ==
    /\ jobs' = [jobs EXCEPT ![d] = << >>]
    /\ sheet' = [sheet EXCEPT ![d] = NoSheet]
    /\ paraFix' = [paraFix EXCEPT ![d] = NoFix]
    /\ shown' = [shown EXCEPT ![d] = doc[d]]
    /\ pdoc' = [pdoc EXCEPT ![d] = disk[d]]
    /\ pside' = [pside EXCEPT ![d] = disk[d]]
    /\ ploaded' = [ploaded EXCEPT ![d] = FALSE]
    /\ queue' = [queue EXCEPT ![d] = QueueOn(d, disk[d])]
    /\ UNCHANGED <<topic, masterVars, relay, disk, prelay>>

-----------------------------------------------------------------------------
(* A caseload every device has: a proposed goal with its baseline points,  *)
(* or two active goals, one with a placeholder or with a point of the para.*)

NewGoal(label) ==
    [status |-> "proposed", label |-> label, arc |-> 1, baseline |-> << >>, revisions |-> << >>]

First(S) == CHOOSE x \in S : \A y \in S : x <= y
SeedScore == CHOOSE s \in Score : ~Mismatched(s)

Seed(t) ==
    CASE t = "baseline" ->
           Put(Put(EmptyMap, 0, GoalKey, NewGoal("1")),
               0, <<"baseline", First(Baseline)>>, NewBaselinePoint(SeedScore))
      [] t = "scoring" -> Put(EmptyMap, 0, <<"point", 1>>, D!BookmarkForLater(First(Goal)))
      [] OTHER -> EmptyMap

ParaSeed(t) ==
    IF t = "para"
    THEN Put(EmptyMap, 0, <<"pending", 1>>, D!BuildParaPendingPoint(First(Goal), SeedScore))
    ELSE EmptyMap

Init ==
    /\ topic \in Topic
    /\ doc = [d \in Device |-> Seed(topic)]
    /\ relay = Seed(topic)
    /\ shown = doc
    /\ sheet = [d \in Device |-> NoSheet]
    /\ paraFix = [d \in Device |-> NoFix]
    /\ jobs = [d \in Device |-> << >>]
    /\ disk = [d \in Device |-> ParaSeed(topic)]
    /\ pdoc = disk /\ pside = disk
    /\ prelay = ParaSeed(topic)
    /\ ploaded = [d \in Device |-> FALSE]
    /\ queue = [d \in Device |-> QueueOn(d, pdoc[d])]
    /\ minted = IF Scoring THEN 1 ELSE 0
    /\ writes = 0

BaselineTrack(d) ==
    \/ \E b \in Baseline :
         \/ \E s \in Score : AddBaselinePoint(d, b, s)
         \/ \E s \in Score, date \in Date : FixDialog(d, b, s, date)
         \/ UseProbeTotal(d, b) \/ RemoveBaseline(d, b) \/ KeepBaseline(d, b)
    \/ Adopt(d)
    \/ \E date \in {1, 2} : EditArc(d, date)
    \/ \E label \in Label : SaveGoalLabel(d, label)

QuickScore(d) ==
    \/ \E g \in Goal :
         OpenRow(d, g) \/ OpenFromGoalDetail(d, g) \/ OpenQueued(d, g) \/ ToggleLater(d, g)
    \/ \E s \in Score, e \in Election \cup {None} : SaveScore(d, s, e)
    \/ SaveNoData(d) \/ BookmarkFromSheet(d) \/ CloseSheet(d)

ParaSession(d) ==
    \/ ParaRefresh(d)
    \/ \E g \in Goal, s \in Score : ParaCapture(d, D!BuildParaPendingPoint(g, s))
    \/ \E g \in Goal : ParaCapture(d, D!ParaNoDataPoint(g))

Validation(d) ==
    \/ RefreshQueue(d)
    \/ \E i \in Id : ConfirmPara(d, i) \/ FixPara(d, i)
    \/ \E s \in Score, e \in Election \cup {None} : CommitParaFix(d, s, e)

Next ==
    \E d \in Bound[topic].devices :
        \/ BaselineTrack(d) \/ QuickScore(d) \/ ParaSession(d) \/ Validation(d)
        \/ \E n \in 1 .. Bound[topic].jobs : Advance(d, n)
        \/ SyncMaster(d) \/ SyncPara(d) \/ Reopen(d)

Spec == Init /\ [][Next]_vars

-----------------------------------------------------------------------------
(* The devices whose document, or whose screen's queue, a step changes. *)
Rewritten == {d \in Device : doc'[d] # doc[d]}
Requeued == {d \in Device : queue'[d] # queue[d]}

(***************************************************************************)
(* A removed baseline point stays removed on every device that knows it is *)
(* removed, whatever a device that does not know yet writes over the point *)
(* (withRemoval and the removal markers of data/repository.ts).            *)
(***************************************************************************)
RemovalSticks ==
    [][\A d \in Rewritten : \A b \in BaselineOf(doc[d]) :
         ReadBaselinePoint(doc[d], b).removed => ReadBaselinePoint(doc'[d], b).removed]_vars

(***************************************************************************)
(* What a record says is what its audit trail says, on every device and    *)
(* after every merge: each fix starts from the value the one before it     *)
(* left and the last one left the present value; a point is removed by one *)
(* Revision; the teacher's word on a total (Keep, the election) stands     *)
(* only for a total off the probe's, and no later change of the total.     *)
(***************************************************************************)
\* Each of the revisions at these places starts from the value the one before it left,
\* and the last left this value.
Chained(revs, places, value) ==
    \A i \in places :
        /\ (\A j \in places : j <= i) => revs[i].new = value
        /\ \A j \in places :
             i < j /\ (\A k \in places : k <= i \/ j <= k) => revs[i].new = revs[j].old

\* The places of a kind of revisions in the audit trail of a record.
Trail(record, kind) ==
    {i \in DOMAIN record.revisions : record.revisions[i].kind = kind}

Explained(p) ==
    /\ Chained(p.revisions, Trail(p, "fixed"), p.score)
    /\ p.removed <=> Trail(p, "removed") # {}
    /\ \A i, j \in Trail(p, "removed") : i = j
    /\ p.kept =>
         /\ Mismatched(p.score)
         /\ \E k \in Trail(p, "kept") : \A i \in Trail(p, "fixed") :
              k <= i => p.revisions[i].new[2] = p.revisions[i].old[2]

RecordsExplainThemselves ==
    \A d \in Device :
        /\ \A b \in BaselineOf(doc[d]) : Explained(ReadBaselinePoint(doc[d], b))
        /\ \A i \in PointsOf(doc[d]) :
             LET p == ReadPoint(doc[d], i)
             IN  /\ p.state = "scored" => Chained(p.revisions, DOMAIN p.revisions, p.score)
                 /\ p.election # None => D!OffBasis(p.basis, p.score)

(***************************************************************************)
(* A scored data point is never un-scored nor taken away: taps on a screen *)
(* that still shows the placeholder, a placeholder completed twice, a late *)
(* validation or a merge leave it scored.  (A placeholder is replaced by a *)
(* point with an id of its own, so that what un-bookmarks or completes the *)
(* placeholder on another device cannot reach the score.)                  *)
(***************************************************************************)
ScoresStay ==
    [][\A d \in Rewritten : \A i \in PointsOf(doc[d]) :
         ReadPoint(doc[d], i).state = "scored" =>
             i \in PointsOf(doc'[d]) /\ ReadPoint(doc'[d], i).state = "scored"]_vars

(***************************************************************************)
(* What the teacher has validated is not offered again: no point with a    *)
(* record in the device's master document comes onto its queue, though the *)
(* app was reopened between the record and the tombstone, or the para      *)
(* document was published from a copy that lacks the tombstone             *)
(* (deriveParaQueue, masterFirstThenTombstone of data/session.ts).         *)
(***************************************************************************)
ValidatedIsNotOffered ==
    [][\A d \in Requeued : \A i \in PointsOf(doc[d]) :
         i \in DOMAIN queue'[d] => i \in DOMAIN queue[d]]_vars

(***************************************************************************)
(* Save of a Quick-Score sheet writes points of the goal the sheet names.  *)
(* (QuickScoreSheet.tsx: onValidateEdit is present only when the sheet was *)
(* opened to fix a para's point.)                                          *)
(***************************************************************************)
ScoreGoesToItsSheet ==
    [][\A d \in Device : writes' # writes /\ sheet[d] # NoSheet =>
         \A i \in PointsOf(doc'[d]) :
             i \notin PointsOf(doc[d]) \/ ReadPoint(doc'[d], i) # ReadPoint(doc[d], i) =>
                 ReadPoint(doc'[d], i).goal = sheet[d].goal]_vars

(***************************************************************************)
(* A goal that is adopted in a device's document keeps its baseline        *)
(* through every write of that device: it is not locked again              *)
(* (baseline-edit.ts: no re-lock).                                         *)
(***************************************************************************)
LockedOnce ==
    [][\A d \in Device :
         topic = "baseline" /\ writes' # writes /\ ReadGoal(doc[d]).status = "active" =>
             /\ ReadGoal(doc'[d]).status = "active"
             /\ ReadGoal(doc'[d]).baseline = ReadGoal(doc[d]).baseline]_vars
===============================================================================
