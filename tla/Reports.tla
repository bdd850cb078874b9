------------------------------- MODULE Reports -------------------------------
(***************************************************************************)
(* One goal's data points as they grow, are fixed and arrive late, and     *)
(* what the teacher reads from them: the weekly dashboard, the rows for    *)
(* Infinite Campus, Goal Detail with its cards, the draft statement.       *)
(*                                                                         *)
(* The records are kept by module Records; here a document is only the     *)
(* points it holds, in the order of their entry times.  A point may arrive *)
(* at any place of that order: another device made it, or a para whose     *)
(* capture is validated later.  "subject" chooses which kinds of points a  *)
(* behaviour is about, so that each kind is explored with the others it    *)
(* matters to.                                                             *)
(***************************************************************************)
EXTENDS ReportMath

CONSTANTS
    Entry,      \* 1..n: entry times, one for each point; bounds the points
    Room,       \* for each subject the largest entry time, at most n
    Palette,    \* for each subject the points that are recorded, without an entry
    Calendar,   \* for each subject the sets of weeks that may be breaks
    Goals,      \* for each subject the goals, with their Revisions
    Observing,  \* the subjects in which mastery is acknowledged
    PeriodOf    \* for each frequency but "weekly", the period of each week

VARIABLES
    subject,
    goal,        \* as ReportMath has it
    breaks,      \* the calendar's non-instructional weeks
    point,       \* [Entry -> the point entered then, or Nothing]
    observation  \* the window date of the acknowledged mastery

reportVars == <<subject, goal, breaks, point, observation>>

Weeks == DOMAIN PeriodOf["monthly"]
Excused == {"absent", "testing", "no_school"}

Points == SelectSeq([e \in Entry |-> point[e]], LAMBDA p : p # Nothing)

-----------------------------------------------------------------------------
(* The weekly dashboard. *)

\* Mutant: the first week of a period is due although it is a break.
IsDueInWeek_FirstWeek(w) ==
    \/ goal.frequency = "weekly"
    \/ LET period == PeriodOf[goal.frequency]
       IN  \A v \in Weeks : v < w => period[v] # period[w]

\* Due every week, or in the first instructional week of its period.
IsDueInWeek(w) ==
    /\ w \notin breaks
    /\ \/ goal.frequency = "weekly"
       \/ LET period == PeriodOf[goal.frequency]
          IN  \A v \in Weeks : v < w /\ period[v] = period[w] => v \in breaks

InWeek(w) == SelectSeq(Points, LAMBDA p : Week(p.day) = w)

\* The newest value, shown with the row: that of the last point of any week.
ValueByGoal ==
    LET scored == SelectSeq(OldestFirst(Points), LAMBDA p : p.state = "scored")
    IN  IF scored = << >> THEN Nothing ELSE Last(scored).value

DashboardRow(w) ==
    LET scored == SelectSeq(InWeek(w), LAMBDA p : p.state = "scored")
        noData == SelectSeq(InWeek(w), LAMBDA p : p.state = "no_data")
    IN  IF \/ w \in breaks
           \/ goal.status # "active"
           \/ ~IsDueInWeek(w) /\ InWeek(w) = << >>
        THEN Nothing
        ELSE IF scored # << >>
        THEN [state |-> "has_point", excused |-> FALSE]
        ELSE IF noData # << >>
        THEN [state |-> "documented_no_data", excused |-> noData[1].reason \in Excused]
        ELSE [state |-> "owes", excused |-> FALSE]

ToScoreQueue == SelectSeq(Points, LAMBDA p : p.state = "queued")

-----------------------------------------------------------------------------
(* The rows for Infinite Campus and the Goal Detail read model. *)

\* Mutant: the week's newest point, whether it is a score or not.
PickWeekPoint_Newest(points) == Last(OldestFirst(points))

PickWeekPoint(points) ==
    LET ordered == OldestFirst(points)
        scored == SelectSeq(ordered, LAMBDA p : p.state = "scored")
    IN  IF scored # << >> THEN Last(scored) ELSE Last(ordered)

WeeklyRow(w) ==
    LET values == SelectSeq(InWeek(w), LAMBDA p : p.state \in {"scored", "no_data"})
    IN  IF values = << >> THEN Nothing ELSE PickWeekPoint(values)

TallyNoData(reasons) == Count(Points, LAMBDA p : p.state = "no_data" /\ p.reason \in reasons)

Trend ==
    OldestFirst(SelectSeq(Points, LAMBDA p : p.state = "scored" /\ InComputedMath(p)))

NoDataMarkers == SelectSeq(OldestFirst(Points), LAMBDA p : p.state = "no_data")

\* Mutant: the dots are joined across a no-data mark.
SegmentTrend_Joined(trend) == IF trend = << >> THEN << >> ELSE <<trend>>

(* The chart's lines: a new one after a no-data mark or a change. *)
SegmentTrend(trend) ==
    LET apart(a, b) ==
            \/ \E m \in ToSet(NoDataMarkers) : a.day < m.day /\ m.day < b.day
            \/ a.day < ClampAfter(goal) /\ b.day >= ClampAfter(goal)
        add(lines, p) ==
            IF lines = << >> \/ apart(Last(Last(lines)), p)
            THEN Append(lines, <<p>>)
            ELSE [lines EXCEPT ![Len(lines)] = Append(@, p)]
    IN  FoldLeft(add, << >>, trend)

(* Only an exportable goal has a card: a row of each week with a value.     *)
IcExport == IF IsIcExportable(goal) THEN [w \in Weeks |-> WeeklyRow(w)] ELSE Nothing

(* The audit table, newest first; only a score can be fixed from it. *)
HistoryRows == Reverse(OldestFirst(Points))
Fixable == {p \in ToSet(HistoryRows) : p.state = "scored"}

Consistency == ConsistencyWindow(goal, Points)
Candidate == ObserveMastery(goal, Points)
Quarterly == ComputeQuarterlySummary(goal, Points)
Statement ==
    IF IsIcExportable(goal) THEN ComputeAutoStatement(goal, Points, breaks, Nothing) ELSE Nothing

(* QuarterlyCard: the average that can be copied for the report card. *)
CopiedAverage ==
    IF IsIcExportable(goal) /\ Quarterly.n > 0
    THEN [n |-> Quarterly.n, sum |-> Quarterly.sum, from |-> Quarterly.from, to |-> Quarterly.to]
    ELSE Nothing

(* QuarterlyNotes: says that the statement's average may be another one. *)
ClarifierShown == Quarterly.counted > 0

(* ConsistencyCard: what it says of mastery. *)
MasteryShown ==
    IF observation # Nothing THEN "acknowledged" ELSE IF Candidate # Nothing THEN "met" ELSE "not yet"

-----------------------------------------------------------------------------
Free(e) == e <= Room[subject] /\ point[e] = Nothing
Held(e) == point[e] # Nothing

At(e, p) == [p EXCEPT !.entry = e]

Recorded(e, p) ==
    /\ point' = [point EXCEPT ![e] = At(e, p)]
    /\ UNCHANGED <<subject, goal, breaks, observation>>

RecordScore(e) ==
    \E p \in Palette[subject] : Free(e) /\ p.state = "scored" /\ Recorded(e, p)

RecordNoData(e) ==
    \E p \in Palette[subject] : Free(e) /\ p.state = "no_data" /\ Recorded(e, p)

BookmarkForLater(e) ==
    \E p \in Palette[subject] : Free(e) /\ p.state = "queued" /\ Recorded(e, p)

(* The score takes the placeholder's place and its date. *)
CompleteQueued(e, later) ==
    /\ Held(e) /\ point[e] \in ToSet(ToScoreQueue) /\ Free(later) /\ later > e
    /\ \E p \in Palette[subject] :
          /\ p.state = "scored" /\ p.day = point[e].day
          /\ point' = [point EXCEPT ![e] = Nothing, ![later] = At(later, p)]
    /\ UNCHANGED <<subject, goal, breaks, observation>>

Unbookmark(e) ==
    /\ Held(e) /\ point[e].state = "queued"
    /\ point' = [point EXCEPT ![e] = Nothing]
    /\ UNCHANGED <<subject, goal, breaks, observation>>

(* A fix keeps the point's dates; with a total that fits again the election *)
(* goes, with another one the teacher elects anew.                          *)
FixPoint(e) ==
    /\ Held(e) /\ point[e] \in Fixable
    /\ \E p \in Palette[subject] :
          p.state = "scored" /\ p.day = point[e].day /\ Recorded(e, p)

AcknowledgeMastery ==
    /\ subject \in Observing
    /\ MasteryShown = "met"
    /\ observation' = Candidate
    /\ UNCHANGED <<subject, goal, breaks, point>>

ReportsInit ==
    /\ subject \in DOMAIN Palette
    /\ goal \in Goals[subject]
    /\ breaks \in Calendar[subject]
    /\ point = [e \in Entry |-> Nothing]
    /\ observation = Nothing

ReportsNext ==
    \/ \E e \in Entry : RecordScore(e)
    \/ \E e \in Entry : RecordNoData(e)
    \/ \E e \in Entry : BookmarkForLater(e)
    \/ \E e, later \in Entry : CompleteQueued(e, later)
    \/ \E e \in Entry : Unbookmark(e)
    \/ \E e \in Entry : FixPoint(e)
    \/ AcknowledgeMastery

ReportsSpec == ReportsInit /\ [][ReportsNext]_reportVars

-----------------------------------------------------------------------------
(* What the window means, said without a run: the probes that count, and a *)
(* stretch of days on which every one of them met the criterion.           *)

Probes == {p \in ToSet(Points) : /\ p.state = "scored"
                                 /\ p.basis \in {"on", "counted"}
                                 /\ p.day >= ClampAfter(goal)}
ProbeDays == {p.day : p \in Probes}

Stretch(d1, d2) ==
    LET within == {p \in Probes : p.day \in d1 .. d2}
    IN  Cardinality(within) >= Required /\ \A p \in within : p.value >= Criterion

Satisfied(d) == \E d1 \in ProbeDays : Stretch(d1, d)

(***************************************************************************)
(* Mastery is observed exactly when the last probes, whole days of them,   *)
(* all met the criterion: neither the order of entry within a day nor a    *)
(* no-data mark nor an undecided total moves it.  A glance that shows      *)
(* every dot filled without it has a day on which a probe missed.          *)
(***************************************************************************)
MasteryIsSustained ==
    LET c == Consistency
    IN  IF ~IsPercent(goal) THEN Candidate = Nothing
        ELSE
        /\ c.met <=> (ProbeDays # {} /\ Satisfied(Max(ProbeDays)))
        /\ c.metDay = IF \E d \in ProbeDays : Satisfied(d)
                      THEN Min({d \in ProbeDays : Satisfied(d)}) ELSE Nothing
        /\ Candidate # Nothing => c.met
        /\ (Len(c.glyphs) = Required /\ \A k \in DOMAIN c.glyphs : c.glyphs[k].meets) =>
              c.met \/ \E k \in DOMAIN c.glyphs : c.glyphs[k].sameDayMixed

\* The points with every total off the probe's elected to one basis.
AllElected(basis) ==
    [k \in DOMAIN Points |-> IF Points[k].basis = "on" THEN Points[k]
                             ELSE [Points[k] EXCEPT !.basis = basis]]

\* The two names of too few points.
Gated == {"below_point_gate", "insufficient_after_exclusion"}

(***************************************************************************)
(* The two averages a teacher can copy are one number unless the report    *)
(* card says that the statement leaves off-basis points out; the period    *)
(* the statement compares with ends where its own begins; whatever the     *)
(* teacher elects for totals off the probe's, the draft statement is the   *)
(* same: its averages and the claim it makes; held to one condition, it is *)
(* that of the points which compare, and claims a trend only if they do.   *)
(***************************************************************************)
AveragesAgree ==
    LET s == Statement
    IN  s # Nothing =>
          /\ ~ClarifierShown => (IF s.n = 0 THEN Nothing ELSE
                [n |-> s.n, sum |-> s.sum, from |-> s.from, to |-> s.to]) = CopiedAverage
          /\ s.priorN + s.n <= s.total
          /\ s.priorN > 0 => s.n = QuarterlyWindow
          /\ (s.total <= 2 * QuarterlyWindow) =>
                s.sum + s.priorSum = Total(ScoredInClamp(goal, StatementBasis(Points)))
          /\ \A basis \in {"pending", "counted", "excluded"} :
                ComputeAutoStatement(goal, AllElected(basis), breaks, Nothing) = s
          /\ \A c \in {p.condition : p \in ToSet(Points)} :
                LET held == ComputeAutoStatement(goal, Points, breaks, c)
                    alone == ComputeAutoStatement(goal, ConditionOk(Points, c), breaks, Nothing)
                IN  /\ [held EXCEPT !.variant = Nothing, !.excluded = 0]
                           = [alone EXCEPT !.variant = Nothing, !.excluded = 0]
                    /\ held.variant # alone.variant => Gated \subseteq {held.variant, alone.variant}

(***************************************************************************)
(* What is said of an instructional week agrees.  The dashboard and the    *)
(* row for Infinite Campus have a score in the same weeks, and a gap in    *)
(* the same weeks, excused in both where the marks of the week are of one  *)
(* kind; of the last week with a point the dashboard shows the value that  *)
(* is exported.  A goal nothing was recorded for owes once in each period  *)
(* of its frequency that has an instructional week, and the tallies of     *)
(* Goal Detail lose no mark.  Of a break the export speaks and the         *)
(* dashboard does not, and of marks of two kinds the dashboard takes the   *)
(* first entered, the export the newest.                                   *)
(***************************************************************************)
WeekAgrees ==
    /\ IcExport # Nothing =>
         \A w \in Weeks \ breaks :
           LET row == DashboardRow(w)
               ic == IcExport[w]
               latest == \A p \in ToSet(Points) : Week(p.day) <= w
               marks == {p \in ToSet(InWeek(w)) : p.state = "no_data"}
               oneKind == \A p, q \in marks : p.reason \in Excused <=> q.reason \in Excused
           IN  IF row = Nothing THEN ic = Nothing
               ELSE /\ row.state = "has_point" <=> (ic # Nothing /\ ic.state = "scored")
                    /\ row.state = "documented_no_data" <=> (ic # Nothing /\ ic.state = "no_data")
                    /\ row.state = "documented_no_data" /\ oneKind =>
                          (row.excused <=> ic.reason \in Excused)
                    /\ row.state = "has_point" /\ latest => ValueByGoal = ic.value
    /\ (goal.status = "active" /\ Points = << >> /\ goal.frequency # "weekly") =>
         LET period == PeriodOf[goal.frequency]
             owes == {w \in Weeks : DashboardRow(w) # Nothing}
         IN  \A x \in {period[w] : w \in Weeks \ breaks} :
                Cardinality({w \in owes : period[w] = x}) = 1
    /\ TallyNoData(Excused) + TallyNoData({"no_time"}) + TallyNoData({"behavior"})
           = Len(NoDataMarkers)

(***************************************************************************)
(* A no-data mark is a gap and never a score: without the marks each run,  *)
(* average and claim is the same, and the chart draws no line over one.    *)
(***************************************************************************)
NoDataIsAGap ==
    LET values == SelectSeq(Points, LAMBDA p : p.state # "no_data")
        s == Statement
    IN  /\ Consistency = ConsistencyWindow(goal, values)
        /\ Quarterly = ComputeQuarterlySummary(goal, values)
        /\ s # Nothing => s = ComputeAutoStatement(goal, values, breaks, Nothing)
        /\ \A line \in ToSet(SegmentTrend(Trend)), m \in ToSet(NoDataMarkers) :
              m.day \in line[1].day .. Last(line).day => \E p \in ToSet(line) : p.day = m.day
===============================================================================
