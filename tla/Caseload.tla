-------------------------------- MODULE Caseload --------------------------------
(***************************************************************************)
(* New goals: the form, its gate, what it is assembled to, the match of    *)
(* the initials with the roster, and the IEP goal # of any goal, on the    *)
(* devices and documents of module Records (topic "caseload").             *)
(*                                                                         *)
(* A goal has the number of the write that made it, and so has a student.  *)
(* "gaps" are the components the gate misses, the baseline apart.  A goal  *)
(* under way to its adoption is taken to have enough baseline points:      *)
(* gathering them is the topic "baseline".                                 *)
(***************************************************************************)
EXTENDS Records

CONSTANTS
    Form,       \* what is typed: path, initials, label, gaps, tool, baseline
    Misspelt,   \* labels that are not one to six letters, digits or dots
    Percent     \* the baselines typed that are numbers

\* The gaps of a form are those apart from the baseline.
ASSUME CaseloadAssumption == \A form \in Form : "baseline" \notin form.gaps

(* None stands for a blank entry, and for initials that are not initials.  *)
UsableGoalLabel(raw) == IF raw \in Misspelt THEN None ELSE raw

(* A baseline that is not a number is no baseline, and never 0 %.          *)
ParseBaseline(raw) == IF raw \in Percent THEN "eval" ELSE None

AssembleGoal(form, student) ==
    [student |-> student, gaps |-> form.gaps, arc |-> None,
     label |-> UsableGoalLabel(form.label),
     status |-> IF form.path = "adopt" THEN "active" ELSE "proposed",
     source |-> IF form.path = "adopt" THEN ParseBaseline(form.baseline) ELSE None,
     baseline |-> << >>, revisions |-> << >>]

(* canBeginMonitoring: what the goal is missing. *)
Missing(g) == g.gaps \cup (IF g.source = None THEN {"baseline"} ELSE {})

DraftReady(missing) == missing \subseteq {"baseline"}

LabelReady(path, raw) == raw \notin Misspelt /\ (path = "draft" \/ UsableGoalLabel(raw) # None)

\* Mutant: the gate of a draft for either path.
FormReady_AsDraft(form) ==
    /\ DraftReady(Missing(AssembleGoal(form, None)))
    /\ form.initials # None /\ form.tool
    /\ LabelReady(form.path, form.label)

FormReady(form) ==
    LET missing == Missing(AssembleGoal(form, None))
    IN  /\ IF form.path = "adopt" THEN missing = {} ELSE DraftReady(missing)
        /\ form.initials # None /\ form.tool
        /\ LabelReady(form.path, form.label)

-----------------------------------------------------------------------------
GoalsOf(m) == {i \in Id : Has(m, <<"goal", i>>)}
StudentsOf(m) == {i \in Id : Has(m, <<"student", i>>)}

UpsertStudent(m, d, i, initials) == Put(m, d, <<"student", i>>, initials)
UpsertProbe(m, d, i) == Put(m, d, <<"probe", i>>, i)

(* The goal, its probe and, with new initials, its student in one write.   *)
CreateGoalMutator(m, d, i, g, initials) ==
    LET roster == IF g.student = i THEN UpsertStudent(m, d, i, initials) ELSE m
    IN  UpsertProbe(UpsertGoal(roster, d, i, g), d, i)

(* The first in the order of the map, which a merge may change.            *)
StudentForInitials(m, initials) == {s \in StudentsOf(m) : Get(m, <<"student", s>>) = initials}

SubmitNewGoal(d, form) ==
    /\ topic = "caseload" /\ FormReady(form)
    /\ \E i \in Id :
         LET known == StudentForInitials(shown[d], form.initials)
         IN  /\ NewId(i)
             /\ \E s \in IF known = {} THEN {i} ELSE known :
                  Apply(d, CreateGoalMutator(doc[d], d, i, AssembleGoal(form, s), form.initials))
    /\ OnlyMaster

(* The goal is the one the screen holds. *)
OnScreen(d, i) == Get(shown[d], <<"goal", i>>)

Gathered == [b \in 1 .. MinPoints |-> NewBaselinePoint(SeedScore)]

AdoptDraft(d, i) ==
    /\ topic = "caseload" /\ i \in GoalsOf(shown[d]) /\ CanAdopt(OnScreen(d, i), Gathered)
    /\ Apply(d, AdoptGoalMutator(doc[d], d, i, OnScreen(d, i), Gathered))
    /\ NoNewId /\ OnlyMaster

(* The editor of a proposed or an active goal; a blank label clears it.    *)
Relabel(d, i, raw) ==
    /\ topic = "caseload" /\ i \in GoalsOf(shown[d])
    /\ raw \notin Misspelt /\ UsableGoalLabel(raw) # OnScreen(d, i).label
    /\ Apply(d, UpsertGoalMutator(doc[d], d, i, SetGoalLabel(OnScreen(d, i), UsableGoalLabel(raw))))
    /\ NoNewId /\ OnlyMaster

CaseloadTrack(d) ==
    \/ \E form \in Form : SubmitNewGoal(d, form)
    \/ \E i \in Id :
         \/ AdoptDraft(d, i)
         \/ \E raw \in {form.label : form \in Form} : Relabel(d, i, raw)

RecordsNext == Next \/ \E d \in Bound[topic].devices : CaseloadTrack(d)
RecordsSpec == Init /\ [][RecordsNext]_vars

-----------------------------------------------------------------------------
(***************************************************************************)
(* After any merge of what stale screens wrote, a goal has its student and *)
(* its probe; one that is monitored can be: every component and a baseline *)
(* that was typed as a number or derived at its one adoption; and it has   *)
(* an IEP goal # unless its audit trail says that the teacher cleared it   *)
(* (canBeginMonitoring, canAdopt, the form's gate, setGoalLabel).          *)
(***************************************************************************)
CaseloadIsWhole ==
    \A d \in Device : \A i \in GoalsOf(doc[d]) :
      LET g == Get(doc[d], <<"goal", i>>)
      IN  /\ g.student \in StudentsOf(doc[d]) /\ Has(doc[d], <<"probe", i>>)
          /\ Chained(g.revisions, Trail(g, "label"), g.label)
          /\ g.status = "active" =>
               /\ g.gaps = {}
               /\ IF Trail(g, "adopted") = {} THEN g.source = "eval"
                  ELSE g.source = None /\ g.baseline # << >>
               /\ \A j, k \in Trail(g, "adopted") : j = k
               /\ g.label = None => Trail(g, "label") # {}
===============================================================================
