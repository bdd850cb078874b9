------------------------------- MODULE Materials -------------------------------
(***************************************************************************)
(* The teacher's differentiation library: MaterialStore (the materials and *)
(* their audit trail), MaterialSupportStore (the links of a material to a  *)
(* goal or a student) and the views of domain-core over them: the library, *)
(* the facet query, the supports of a goal and the completeness of a set.  *)
(*                                                                         *)
(* A record is shown decrypted.  Its envelope's times are left out, but    *)
(* for the creation the views sort by, its wording and the filter for a    *)
(* word; "tags" stands for the segment, block, UDL and CRA facets, which   *)
(* the code treats alike.                                                  *)
(***************************************************************************)
EXTENDS Integers, FiniteSets, SequencesExt

CONSTANTS
    Material, Support,   \* identifiers, naturals: their order is the code-point order
    SupportedGoal, Student,
    Time,                \* the clock's readings; it may be set back
    Input, Patch,        \* what is entered: facets, parts of facets
    CatalogSeed,         \* the facets of a catalogue's materials
    Filter,              \* facet filters, functions from facets to sets of values
    Template,            \* completeness templates
    MaxWrites            \* bounds materials, revisions and links together

VARIABLES
    records,       \* id -> [facets, active, created, revisions]
    goalLinks,     \* id -> [material, goal, accom_mod, deleted]
    studentLinks   \* id -> [material, student, deleted]

materialVars == <<records, goalLinks, studentLinks>>

-----------------------------------------------------------------------------
(* material-validation: the three rules.                                    *)
AccomMods == {"accommodation", "modification", "none"}
Absent == {"absent"}  \* myp_criteria left out, unlike an empty one

AccomModBand(f) == f.accom_mod = "none" => f.access_band = "on_grade"

IsModified(f) == "modified_assessment" \in f.support_types
ModifiedAssessmentMod(f) == IsModified(f) => f.accom_mod = "modification"

MypCriteriaConditional(f) ==
    IF IsModified(f) THEN f.myp_criteria # {} /\ f.myp_criteria \subseteq {"A", "B", "C", "D"}
    ELSE f.myp_criteria = Absent

IsValidMaterial(f) ==
    AccomModBand(f) /\ ModifiedAssessmentMod(f) /\ MypCriteriaConditional(f)

(* #persist: an identifier's record is written, or overwritten.             *)
Persisted(f, k, v) == [x \in DOMAIN f \cup {k} |-> IF x = k THEN v ELSE f[x]]

-----------------------------------------------------------------------------
(* MaterialStore.                                                           *)
Known(id) == id \in DOMAIN records
Facets == {"content", "standard_codes", "tags", "support_types", "access_band",
           "accom_mod", "myp_criteria", "origin"}
Retaggable == Facets \ {"content", "origin"}
Snapshot(m) == [facets |-> m.facets, active |-> m.active, created |-> m.created]

Writes ==
    Cardinality(DOMAIN records) + Cardinality(DOMAIN goalLinks)
    + Cardinality(DOMAIN studentLinks)
    + MapThenSumSet(LAMBDA id : Len(records[id].revisions), DOMAIN records)

(* The channel for files is deferred.                                       *)
IsSupported(f) == f.content # "file"
Accepted(f) == IsSupported(f) /\ IsValidMaterial(f)

CreateMaterial(id, input, when) ==
    /\ ~Known(id)
    /\ Accepted(input)
    /\ records' = Persisted(records, id,
          [facets |-> input, active |-> TRUE, created |-> when, revisions |-> <<>>])
    /\ UNCHANGED <<goalLinks, studentLinks>>

(* A seed has no posture of its own: the teacher gives it as she imports.   *)
ImportSeed(id, seed, mod, when) ==
    CreateMaterial(id,
        [seed EXCEPT !.accom_mod = mod, !.origin = "imported_seed"], when)

\* Mutant: the revision's old snapshot is taken after the merge.
RevisedMaterial_After(m, next) ==
    [next EXCEPT !.revisions =
        Append(m.revisions, [old |-> Snapshot(next), new |-> Snapshot(next)])]
RevisedMaterial(m, next) ==
    [next EXCEPT !.revisions =
        Append(m.revisions, [old |-> Snapshot(m), new |-> Snapshot(next)])]

CommitMaterial(id, next) ==
    /\ records' = [records EXCEPT ![id] = RevisedMaterial(@, next)]
    /\ UNCHANGED <<goalLinks, studentLinks>>

(* What the patch leaves out is kept; it may clear the MYP criteria.        *)
MergeFields(f, patch) ==
    [k \in DOMAIN f \cup DOMAIN patch |-> IF k \in DOMAIN patch THEN patch[k] ELSE f[k]]

\* Mutant: validates the material as it is, not as it will be.
ApplyMaterialEdit_ChecksCurrent(id, patch) ==
    /\ Known(id)
    /\ Accepted(records[id].facets)
    /\ CommitMaterial(id, [records[id] EXCEPT !.facets = MergeFields(@, patch)])
ApplyMaterialEdit(id, patch) ==
    /\ Known(id)
    /\ Accepted(MergeFields(records[id].facets, patch))
    /\ CommitMaterial(id, [records[id] EXCEPT !.facets = MergeFields(@, patch)])

EditMaterial(id, patch) == DOMAIN patch \subseteq Facets /\ ApplyMaterialEdit(id, patch)

RetagMaterial(id, patch) ==
    /\ DOMAIN patch \subseteq Retaggable
    /\ ApplyMaterialEdit(id, patch)

RetireMaterial(id) ==
    /\ Known(id) /\ records[id].active
    /\ CommitMaterial(id, [records[id] EXCEPT !.active = FALSE])

-----------------------------------------------------------------------------
(* MaterialSupportStore.                                                    *)

(* The rules a link's posture is held to; the criteria rule is filtered out. *)
LinkFits(f, mod) ==
    LET asLinked == [f EXCEPT !.accom_mod = mod]
    IN  AccomModBand(asLinked) /\ ModifiedAssessmentMod(asLinked)

Live(links) == {s \in DOMAIN links : ~links[s].deleted}
ListGoalSupports == Live(goalLinks)
ListStudentSupports == Live(studentLinks)

(* A tombstone: the link is kept.  Another detach of it changes nothing.    *)
Tombstoned(links, s) == [links EXCEPT ![s].deleted = TRUE]

AttachMaterialToGoal(s, id, g, mod) ==
    /\ s \notin DOMAIN goalLinks
    /\ Known(id)
    /\ LinkFits(records[id].facets, mod)
    /\ goalLinks' = Persisted(goalLinks, s,
          [material |-> id, goal |-> g, accom_mod |-> mod, deleted |-> FALSE])
    /\ UNCHANGED <<records, studentLinks>>

DetachMaterialFromGoal(s) ==
    /\ s \in ListGoalSupports
    /\ goalLinks' = Tombstoned(goalLinks, s)
    /\ UNCHANGED <<records, studentLinks>>

(* The material is not looked up: it may be retired, or unknown.            *)
AttachMaterialToStudent(s, id, student) ==
    /\ s \notin DOMAIN studentLinks
    /\ studentLinks' = Persisted(studentLinks, s,
          [material |-> id, student |-> student, deleted |-> FALSE])
    /\ UNCHANGED <<records, goalLinks>>

DetachMaterialFromStudent(s) ==
    /\ s \in ListStudentSupports
    /\ studentLinks' = Tombstoned(studentLinks, s)
    /\ UNCHANGED <<records, goalLinks>>

-----------------------------------------------------------------------------
(* The views.                                                               *)
LibraryOrder(a, b) ==
    \/ records[a].created > records[b].created
    \/ records[a].created = records[b].created /\ a < b

Active(id) == records[id].active
BuildMaterialLibrary == SetToSortSeq({id \in DOMAIN records : Active(id)}, LibraryOrder)

Scalars == {"access_band", "accom_mod", "origin"}
FacetValues(f, facet) ==
    IF facet \in Scalars THEN {f[facet]}
    ELSE IF facet = "myp_criteria" THEN f.myp_criteria \ Absent ELSE f[facet]

(* Any of the values of a facet (OR); no values, no constraint.             *)
Matches(f, facet, values) == values = {} \/ FacetValues(f, facet) \cap values # {}

(* Every facet of the filter (AND).                                         *)
MatchesFilter(id, filter) ==
    \A facet \in DOMAIN filter : Matches(records[id].facets, facet, filter[facet])

QueryMaterials(filter, includeRetired) ==
    SetToSortSeq({id \in DOMAIN records :
                    (includeRetired \/ Active(id)) /\ MatchesFilter(id, filter)}, LibraryOrder)

(* By the material, and the links of one material by their identifiers.     *)
SupportOrder(s, t) ==
    LET a == goalLinks[s].material  b == goalLinks[t].material
    IN  LibraryOrder(a, b) \/ (a = b /\ s < t)

\* Mutant: a retired material is still offered.
BuildGoalSupports_Retired(g) ==
    SetToSortSeq({s \in ListGoalSupports : goalLinks[s].goal = g}, SupportOrder)
BuildGoalSupports(g) ==
    SetToSortSeq({s \in ListGoalSupports :
                    goalLinks[s].goal = g /\ Active(goalLinks[s].material)}, SupportOrder)

(* A target is the set of materials it selects: those of a standard, or     *)
(* those linked to a goal; each counts once, and only while it is active.   *)
SelectByStandard(code) ==
    {id \in DOMAIN records : Active(id) /\ code \in records[id].facets.standard_codes}
SelectByGoal(g) ==
    {id \in DOMAIN records :
        Active(id) /\ \E s \in ListGoalSupports : goalLinks[s].goal = g /\ goalLinks[s].material = id}

(* A template for the standard replaces the default, whole.                 *)
ResolveTemplate(code) ==
    LET For(c) == {t \in Template : c \in t.appliesTo}
    IN  CHOOSE t \in Template : t \in (IF For(code) # {} THEN For(code) ELSE For("*"))

FoundCount(selected, r) ==
    Cardinality({id \in selected :
        FacetValues(records[id].facets, r.facet) \cap r.anyOf # {}})

(* The requirements, by their places in the template, in order of priority. *)
BuildScaffoldCompleteness(selected, template) ==
    LET Need(i) == template.requirements[i]
        First(i, j) == \/ Need(i).priority < Need(j).priority
                       \/ Need(i).priority = Need(j).priority /\ i < j
        results == SetToSortSeq(DOMAIN template.requirements, First)
        IsCovered(i) == FoundCount(selected, Need(i)) >= Need(i).minCount
    IN  [covered |-> SelectSeq(results, IsCovered),
         gaps |-> SelectSeq(results, LAMBDA i : ~IsCovered(i))]

-----------------------------------------------------------------------------
MaterialsInit == records = <<>> /\ goalLinks = <<>> /\ studentLinks = <<>>

Edits ==
    \E id \in Material :
        \/ \E input \in Input, when \in Time : CreateMaterial(id, input, when)
        \/ \E seed \in CatalogSeed, mod \in AccomMods, when \in Time :
              ImportSeed(id, seed, mod, when)
        \/ \E patch \in Patch : EditMaterial(id, patch)
        \/ \E patch \in Patch : RetagMaterial(id, patch)
        \/ RetireMaterial(id)

Attaches ==
    \E s \in Support, id \in Material :
        \/ \E g \in SupportedGoal, mod \in AccomMods : AttachMaterialToGoal(s, id, g, mod)
        \/ \E student \in Student : AttachMaterialToStudent(s, id, student)

Detaches == \E s \in Support : DetachMaterialFromGoal(s) \/ DetachMaterialFromStudent(s)

MaterialsNext == (Writes < MaxWrites /\ (Edits \/ Attaches)) \/ Detaches

MaterialsSpec == MaterialsInit /\ [][MaterialsNext]_materialVars

-----------------------------------------------------------------------------
(***************************************************************************)
(* MaterialStore.#commit: the revisions of a material are a chain from the *)
(* material as it was made to the material as it is, through materials     *)
(* that all keep the rules, with one creation, and once retired for good.  *)
(***************************************************************************)
RevisionsExplainMaterials ==
    \A id \in DOMAIN records :
        LET m == records[id]
            n == Len(m.revisions)
            State(i) == IF i = n + 1 THEN Snapshot(m) ELSE m.revisions[i].old
        IN  /\ State(1).active
            /\ \A i \in 1 .. n + 1 :
                  /\ Accepted(State(i).facets)
                  /\ State(i).created = m.created
                  /\ i > 1 => m.revisions[i - 1].new = State(i)
                  /\ i > 1 => (State(i).active => State(i - 1).active)

(***************************************************************************)
(* The views of one library agree: the query without facets is the library *)
(* and each facet only narrows it; what a goal shows are materials of the  *)
(* library in its order; and the completeness of a goal or a standard is   *)
(* that of the materials the goal shows, or the query for it finds.        *)
(***************************************************************************)
Offered(g) ==
    LET links == BuildGoalSupports(g)
    IN  [i \in DOMAIN links |-> goalLinks[links[i]].material]

QueryNarrowsTheLibrary ==
    /\ QueryMaterials(<<>>, FALSE) = BuildMaterialLibrary
    /\ ToSet(QueryMaterials(<<>>, TRUE)) = DOMAIN records
    /\ \A filter \in Filter : \A facet \in DOMAIN filter :
          LET Found(f) == ToSet(QueryMaterials(f, FALSE))
              wider == [k \in DOMAIN filter \ {facet} |-> filter[k]]
          IN  /\ Found(filter) \subseteq Found(wider)
              /\ Found(filter) =
                    UNION {Found([filter EXCEPT ![facet] = {v}]) : v \in filter[facet]}

GoalsShowTheLibrary ==
    \A g \in SupportedGoal :
        /\ ToSet(Offered(g)) \subseteq ToSet(BuildMaterialLibrary)
        /\ ToSet(Offered(g)) = SelectByGoal(g)
        /\ \A i, j \in DOMAIN Offered(g) :
              i < j => ~LibraryOrder(Offered(g)[j], Offered(g)[i])

CompletenessCountsTheQuery ==
    \A code \in UNION {f.standard_codes : f \in Input} \cup {"other"} :
        LET template == ResolveTemplate(code)
            done == BuildScaffoldCompleteness(SelectByStandard(code), template)
        IN  \A i \in DOMAIN template.requirements :
              LET r == template.requirements[i]
                  filter == ("standard_codes" :> {code}) @@ (r.facet :> r.anyOf)
              IN  i \in ToSet(done.covered) <=>
                    Len(QueryMaterials(filter, FALSE)) >= r.minCount

ViewsAgree == QueryNarrowsTheLibrary /\ GoalsShowTheLibrary /\ CompletenessCountsTheQuery
===============================================================================
