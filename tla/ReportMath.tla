------------------------------ MODULE ReportMath ------------------------------
(***************************************************************************)
(* What domain-core computes about one goal from its data points: the      *)
(* consistency window, the quarterly summary, the draft progress statement *)
(* with its trend gates, the weekly Infinite Campus rows and the Goal      *)
(* Detail read model.                                                      *)
(*                                                                         *)
(* A point's value is its percentage.  "basis" is "on" where its total is  *)
(* the probe's (or it has none), and otherwise the teacher's election.     *)
(* "entry" orders entry times, which never tie here.  Dates are day        *)
(* numbers; an average is kept as its sum and count, and a line as the     *)
(* fractions it is made of.  Wording and rounding are left out, and so are *)
(* the counts of points off the probe's total that are only displayed.     *)
(*                                                                         *)
(* A goal has its status, frequency, Revisions and model, the day its IEP  *)
(* ends and whether it is baselined.                                       *)
(***************************************************************************)
EXTENDS Integers, FiniteSets, SequencesExt

CONSTANTS
    DaysInWeek,
    Required,       \* probes of the goal's criterion consistency
    Criterion,      \* the goal's criterion level, in percent
    BaselineValue,
    QuarterlyWindow,
    MinScoredPoints,
    MinInstructionalWeeks,
    FourPoint,      \* how many of the last points are held against the aim line
    Nothing,
    Malformed       \* a text in the place of a date

\* isoWeekId: the week a date belongs to, whichever weeks are breaks.
Week(day) == (day - 1) \div DaysInWeek + 1

Before(p, q) == p.day < q.day \/ (p.day = q.day /\ p.entry < q.entry)
OldestFirst(points) == SortSeq(points, Before)

LastPoints(n, s) == SubSeq(s, Max({1, Len(s) - n + 1}), Len(s))
Total(points) == FoldLeft(LAMBDA t, p : t + p.value, 0, points)
Count(points, Test(_)) == Len(SelectSeq(points, Test))

-----------------------------------------------------------------------------
(* A total that is not the probe's. *)

CountedOffBasis(p) == p.basis = "counted"

\* Mutant: a point the teacher has not decided on is in the math.
InComputedMath_Pending(p) == p.basis # "excluded"

InComputedMath(p) == p.basis \in {"on", "counted"}

(* No figure reaches back over the latest change of the criterion or of the *)
(* measure; day 0 stands for no such change.                                *)
ClampAfter(goal) ==
    Max({0} \cup {r.day : r \in {r \in goal.revisions :
                                   r.key \in {"criterion_level", "denominator_model"}}})

\* Mutant: a placeholder or a no-data mark of the region is read as a score of 0.
ScoredInClamp_AnyState(goal, points) ==
    SelectSeq(points, LAMBDA p : p.state \in {"scored", "no_data"} /\ p.day >= ClampAfter(goal))

ScoredInClamp(goal, points) ==
    SelectSeq(points, LAMBDA p : p.state = "scored" /\ p.day >= ClampAfter(goal))

-----------------------------------------------------------------------------
(* The consistency window and the mastery it lets the teacher observe. *)

Meets(p) == p.value >= Criterion

ScoredProbesInOrder(goal, points) ==
    OldestFirst(SelectSeq(ScoredInClamp(goal, points), InComputedMath))

\* Mutant: every probe is a group of its own.
GroupByAdminDate_PerProbe(probes) ==
    [k \in DOMAIN probes |->
        [day |-> probes[k].day, count |-> 1, meets |-> IF Meets(probes[k]) THEN 1 ELSE 0]]

GroupByAdminDate(probes) ==
    LET hit(p) == IF Meets(p) THEN 1 ELSE 0
        add(days, p) ==
            IF days # << >> /\ Last(days).day = p.day
            THEN [days EXCEPT ![Len(days)].count = @ + 1, ![Len(days)].meets = @ + hit(p)]
            ELSE Append(days, [day |-> p.day, count |-> 1, meets |-> hit(p)])
    IN  FoldLeft(add, << >>, probes)

RunOver(days) ==
    LET step(acc, d) ==
            LET run == IF d.meets = d.count THEN acc.run + d.count ELSE 0
            IN  [run |-> run,
                 metDay |-> IF acc.metDay = Nothing /\ run >= Required THEN d.day ELSE acc.metDay]
    IN  FoldLeft(step, [run |-> 0, metDay |-> Nothing], days)

IsPercent(goal) == goal.model = "percent"

(* Of another model there is no window, and so never a mastery.             *)
ConsistencyWindow(goal, points) ==
    LET probes == ScoredProbesInOrder(goal, points)
        days == GroupByAdminDate(probes)
        mixed == {d.day : d \in {d \in ToSet(days) : d.meets > 0 /\ d.meets < d.count}}
        end == RunOver(days)
        shown == LastPoints(Required, probes)
    IN  IF ~IsPercent(goal) THEN [run |-> 0, met |-> FALSE, metDay |-> Nothing, glyphs |-> << >>]
        ELSE [run |-> end.run, met |-> end.run >= Required, metDay |-> end.metDay,
              glyphs |-> [k \in DOMAIN shown |->
                            [meets |-> Meets(shown[k]), sameDayMixed |-> shown[k].day \in mixed]]]

ObserveMastery(goal, points) ==
    LET c == ConsistencyWindow(goal, points) IN IF c.met THEN c.metDay ELSE Nothing

-----------------------------------------------------------------------------
(* The quarterly summary: an average over the last points of the math. *)

ComputeQuarterlySummary(goal, points) ==
    LET scored == OldestFirst(ScoredInClamp(goal, points))
        window == LastPoints(QuarterlyWindow, SelectSeq(scored, InComputedMath))
        n == Len(window)
    IN  [n |-> n, sum |-> Total(window), counted |-> Count(window, CountedOffBasis),
         from |-> IF n = 0 THEN 0 ELSE window[1].day,
         to |-> IF n = 0 THEN 0 ELSE window[n].day]

-----------------------------------------------------------------------------
(* The trend: least squares over the points, and the last few of them held *)
(* against the line from the baseline to the criterion at the IEP's end.   *)

SumOf(xy, term(_)) == FoldLeft(LAMBDA t, p : t + term(p), 0, xy)

\* den = 0: all points on one date, no line.
OlsTrend(xy) ==
    LET n == Len(xy)
        sx == SumOf(xy, LAMBDA p : p.x)
        sy == SumOf(xy, LAMBDA p : p.y)
    IN  [n |-> n, sx |-> sx, sy |-> sy,
         num |-> n * SumOf(xy, LAMBDA p : p.x * p.y) - sx * sy,
         den |-> n * SumOf(xy, LAMBDA p : p.x * p.x) - sx * sx]

ReachesCriterion(line, xEnd) ==
    line.sy * line.den + line.num * (line.n * xEnd - line.sx) >= Criterion * line.n * line.den

OnOrAboveAim(p, xEnd) ==
    IF xEnd <= 0 THEN p.y >= Criterion
                 ELSE p.y * xEnd >= BaselineValue * xEnd + (Criterion - BaselineValue) * p.x

FourPointVerdict(lastFour, xEnd) ==
    LET above == {k \in DOMAIN lastFour : OnOrAboveAim(lastFour[k], xEnd)}
    IN  IF above = DOMAIN lastFour THEN "above" ELSE IF above = {} THEN "below" ELSE "straddle"

InstructionalWeeks(from, to, breaks) == (Week(from) .. Week(to)) \ breaks

DetermineVariant(goal, trendPoints, n, excluded, breaks) ==
    LET total == Len(trendPoints)
        first == trendPoints[1].day
        xy == [k \in DOMAIN trendPoints |->
                 [x |-> trendPoints[k].day - first, y |-> trendPoints[k].value]]
        xEnd == goal.iepEnd - first
        line == OlsTrend(xy)
        verdict == FourPointVerdict(LastPoints(FourPoint, xy), xEnd)
        onTrack == ReachesCriterion(line, xEnd)
    IN  IF n = 0 THEN "no_scored_data"
        ELSE IF goal.iepEnd = Nothing THEN "no_iep_end_date"
        ELSE IF total < MinScoredPoints
        THEN IF excluded > 0 THEN "insufficient_after_exclusion" ELSE "below_point_gate"
        ELSE IF Cardinality(InstructionalWeeks(first, trendPoints[total].day, breaks))
                    < MinInstructionalWeeks
        THEN "below_week_gate"
        ELSE IF line.den = 0 THEN "undefined_trend"
        ELSE IF goal.iepEnd = Malformed THEN "no_iep_end_date"
        ELSE IF verdict = "straddle" THEN "fourpoint_straddle"
        ELSE IF onTrack # (verdict = "above") THEN "trend_fourpoint_disagree"
        ELSE IF onTrack THEN "on_track" ELSE "not_on_track"

IsIcExportable(goal) ==
    /\ goal.status = "active"
    /\ IsPercent(goal)
    /\ goal.baselined
    /\ Criterion > 0 /\ Required >= 2

\* Mutant: the statement averages what the consistency window counts.
StatementBasis_Elected(points) == SelectSeq(points, InComputedMath)

\* The statement reads no election: a total off the probe's is never in it.
StatementBasis(points) == SelectSeq(points, LAMBDA p : p.basis = "on")

\* Mutant: the prior period starts where the averaged one does.
PriorWindow_Overlaps(trendPoints) == LastPoints(QuarterlyWindow, trendPoints)

PriorWindow(trendPoints) ==
    LET older == SubSeq(trendPoints, 1, Len(trendPoints) - QuarterlyWindow)
    IN  LastPoints(QuarterlyWindow, older)

(* A point taken under another condition than the one expected; Nothing where  *)
(* the caller names none, as the app, or the point keeps none.              *)
IsConditionMismatch(p, expected) ==
    expected # Nothing /\ p.condition # Nothing /\ p.condition # expected

ConditionOk(points, expected) == SelectSeq(points, LAMBDA p : ~IsConditionMismatch(p, expected))

ComputeAutoStatement(goal, points, breaks, expected) ==
    LET basis == StatementBasis(ConditionOk(points, expected))
        q == ComputeQuarterlySummary(goal, basis)
        trendPoints == OldestFirst(ScoredInClamp(goal, basis))
        excluded == Count(ScoredInClamp(goal, points),
                          LAMBDA p : p.basis # "on" \/ IsConditionMismatch(p, expected))
        prior == PriorWindow(trendPoints)
    IN  [variant |-> DetermineVariant(goal, trendPoints, q.n, excluded, breaks),
         n |-> q.n, sum |-> q.sum, from |-> q.from, to |-> q.to,
         total |-> Len(trendPoints), excluded |-> excluded,
         priorN |-> Len(prior), priorSum |-> Total(prior)]
===============================================================================
