------------------------------- MODULE DataPoint -------------------------------
(***************************************************************************)
(* A monitoring data point as domain-core builds, edits and validates it.  *)
(* A score is <<correct, total>>; "basis" is the total the probe expects,  *)
(* kept with the point, and "election" what the teacher chose to do with a *)
(* total that differs from it.  Dates, settings, chips and reasons are     *)
(* left out.                                                               *)
(***************************************************************************)
EXTENDS Naturals, Sequences

CONSTANTS
    ProbeTotal,  \* the probe's expected total
    None         \* no value

OffBasis(basis, s) == basis # None /\ s # None /\ basis # s[2]

Point(state, scorer, g) ==
    [goal |-> g, state |-> state, scorer |-> scorer, score |-> None, basis |-> None,
     mismatch |-> FALSE, election |-> None, validated |-> FALSE, revisions |-> << >>]

CaptureScoredPoint(g, s, election) ==
    [Point("scored", "teacher", g) EXCEPT
        !.score = s, !.basis = ProbeTotal, !.mismatch = OffBasis(ProbeTotal, s),
        !.election = IF OffBasis(ProbeTotal, s) THEN election ELSE None]

RecordNoData(g) == Point("no_data", "teacher", g)

BookmarkForLater(g) == Point("queued", "teacher", g)

(* The para's write: pending until a teacher has validated it. *)
BuildParaPendingPoint(g, s) ==
    [Point("pending", "para", g) EXCEPT
        !.score = s, !.basis = ProbeTotal, !.mismatch = OffBasis(ProbeTotal, s)]

ParaNoDataPoint(g) == Point("no_data", "para", g)

(* Of a no-data point an edit keeps no value at all, the typed one included. *)
ApplyEdit(p, s) ==
    IF p.state = "no_data"
    THEN [p EXCEPT !.score = None, !.basis = None, !.mismatch = FALSE, !.election = None,
                   !.revisions = Append(@, [old |-> p.score, new |-> s])]
    ELSE
    [p EXCEPT !.score = s, !.mismatch = OffBasis(p.basis, s),
              !.election = IF OffBasis(p.basis, s) THEN @ ELSE None,
              !.revisions = Append(@, [old |-> p.score, new |-> s])]

(* The UI's [Fix]: the basis is filled in where it is missing, and the     *)
(* election goes onto the point only if it is still off its basis.         *)
FixedPoint(p, s, election) ==
    LET q == ApplyEdit([p EXCEPT !.basis = IF @ = None THEN ProbeTotal ELSE @], s)
    IN  IF q.mismatch /\ election # None THEN [q EXCEPT !.election = election] ELSE q

CanValidate(p) == p.scorer = "para" /\ ~p.validated

ValidateParaPoint(p) ==
    [p EXCEPT !.state = IF @ = "pending" THEN "scored" ELSE @, !.validated = TRUE]
===============================================================================
