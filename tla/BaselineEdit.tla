----------------------------- MODULE BaselineEdit -----------------------------
(***************************************************************************)
(* Baseline points and the goal they lead to, as domain-core computes      *)
(* them: every operator returns the record to store.  A score is <<correct,*)
(* total>>, and a point has the day it was given.  Other times, authors,   *)
(* the removal reason and the text of a goal are left out; an edit the     *)
(* rules refuse returns the point as it was, which is what the caller      *)
(* makes of BaselineEditError.                                             *)
(***************************************************************************)
EXTENDS Naturals, Sequences, FiniteSets

CONSTANTS
    ProbeTotal,  \* the probe's expected total, on a fixed-total goal
    MinPoints,   \* points a usable baseline needs; the code says 3
    None         \* no value

IsScore(s) == s[1] \in Nat /\ s[2] \in Nat \ {0} /\ s[1] <= s[2]

Mismatched(s) == s[2] # ProbeTotal

\* The days a point may be given on; points are recorded on the first.
Today == 1
Date == {Today, 2}

NewBaselinePoint(s) ==
    [score |-> s, date |-> Today, mismatch |-> Mismatched(s), kept |-> FALSE,
     removed |-> FALSE, corrected |-> FALSE, revisions |-> << >>]

Revised(p, kind, old, new, dates) ==
    Append(p.revisions, [kind |-> kind, old |-> old, new |-> new, dates |-> dates])

(* The points a goal's locked baseline came from. *)
WasAdoptedFrom(g, b) == g.status # "proposed" /\ b \in DOMAIN g.baseline

(* The Revision has both scores, and the dates if another one is given.     *)
FixBaselinePoint(p, g, b, s, date) ==
    IF p.removed \/ ~IsScore(s) \/ (s = p.score /\ date = p.date) THEN p
    ELSE [p EXCEPT !.score = s, !.date = date, !.mismatch = Mismatched(s),
                   !.kept = @ /\ Mismatched(s) /\ s[2] = p.score[2],
                   !.corrected = @ \/ (s # p.score /\ WasAdoptedFrom(g, b)),
                   !.revisions = Revised(p, "fixed", p.score, s,
                                         IF date = p.date THEN None ELSE <<p.date, date>>)]

RemoveBaselinePoint(p, g) ==
    IF p.removed \/ g.status # "proposed" THEN p
    ELSE [p EXCEPT !.removed = TRUE, !.revisions = Revised(p, "removed", p.score, None, None)]

KeepBaselineTotal(p) ==
    IF p.removed \/ ~p.mismatch \/ p.kept THEN p
    ELSE [p EXCEPT !.kept = TRUE, !.revisions = Revised(p, "kept", None, None, None)]

NeedsTotalDecision(p) == ~p.removed /\ p.mismatch /\ ~p.kept

IsCountedBaselinePoint(p) == ~p.removed /\ ~NeedsTotalDecision(p)

(* The estimate: the counted points and their scores, of which the mean or *)
(* the median is taken.  One probe serves the goal, so they compare.       *)
DeriveBaseline(points) ==
    LET counted == {b \in DOMAIN points : IsCountedBaselinePoint(points[b])}
    IN  [b \in counted |-> points[b].score]

CanAdopt(g, points) ==
    /\ g.status = "proposed"
    /\ Cardinality(DOMAIN DeriveBaseline(points)) >= MinPoints
    /\ g.label # None

AdoptGoal(g, points) ==
    [g EXCEPT !.status = "active", !.baseline = DeriveBaseline(points),
              !.revisions = Append(@, [kind |-> "adopted", old |-> None, new |-> None])]

EditArcDate(g, date) == [g EXCEPT !.arc = date]

SetGoalLabel(g, label) ==
    IF label = g.label THEN g
    ELSE [g EXCEPT !.label = label,
                   !.revisions = Append(@, [kind |-> "label", old |-> g.label, new |-> label])]
===============================================================================
