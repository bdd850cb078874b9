------------------------------- MODULE MCDomain -------------------------------
(* The records of two devices, the figures of one goal and the library of    *)
(* materials: they share no state here, and a behaviour is about one of      *)
(* them.  A goal's weeks are of two days; there are three weeks, the first   *)
(* two of them one month.                                                    *)
EXTENDS MCRecords, Reports, Materials

(* Day 3 is always probed under another condition than the others.           *)
Kind(day, state, value, basis, reason) ==
    [entry |-> 0, day |-> day, state |-> state, value |-> value, basis |-> basis,
     reason |-> reason,
     condition |-> IF state # "scored" THEN Nothing ELSE IF day = 3 THEN "aloud" ELSE "paper"]
ScoreOn(days, values, bases) ==
    {Kind(d, "scored", v, b, Nothing) : d \in days, v \in values, b \in bases}
NoDataOn(days, reasons) == {Kind(d, "no_data", 0, "on", r) : d \in days, r \in reasons}
QueuedOn(days) == {Kind(d, "queued", 0, "on", Nothing) : d \in days}

MCRoom == [mastery |-> 4, statement |-> 4, weeks |-> 3, materials |-> 0]
MCPalette ==
    [mastery |-> ScoreOn({1, 4}, {40, 90}, {"on"}) \cup ScoreOn({2}, {90}, {"counted", "pending"}),
     statement |-> ScoreOn({1, 5}, {40, 90}, {"on"})
                 \cup ScoreOn({3}, {40}, {"counted", "excluded"}) \cup NoDataOn({4}, {"no_time"}),
     weeks |-> ScoreOn({1, 4}, {40, 90}, {"on"}) \cup NoDataOn({2, 5}, {"absent"})
                 \cup NoDataOn({1}, {"behavior"}) \cup QueuedOn({4}),
     materials |-> {}]
MCCalendar == [mastery |-> {{}}, statement |-> {{}, {2}}, weeks |-> SUBSET {1, 2, 3},
               materials |-> {{}}]
MCGoals ==
    LET AGoal(f, r) == [status |-> "active", frequency |-> f, revisions |-> r,
                       model |-> "percent", baselined |-> TRUE, iepEnd |-> 6]
        Plain == AGoal("weekly", {})
        With(changes) == {AGoal("weekly", r) : r \in changes}
    IN  [mastery |-> {[Plain EXCEPT !.model = "rubric"]} \cup With(
            {{}, {[day |-> 2, key |-> "criterion_level"], [day |-> 4, key |-> "goal_label"]}}),
         statement |-> {[Plain EXCEPT !.iepEnd = d] : d \in {Nothing, Malformed}} \cup With(
            {{}, {[day |-> 3, key |-> "criterion_level"], [day |-> 1, key |-> "denominator_model"]}}),
         weeks |-> {AGoal(f, {}) : f \in {"weekly", "monthly", "twice_monthly"}}
                     \cup {[Plain EXCEPT !.status = "proposed"], [Plain EXCEPT !.baselined = FALSE]},
         materials |-> {Plain}]
MCPeriodOf == [monthly |-> <<1, 1, 2>>, twice_monthly |-> <<1, 2, 3>>]

MCFacets(content, types, band, mod, criteria) ==
    [content |-> content, standard_codes |-> {"6.RP.3"},
     tags |-> {"i_do"}, support_types |-> types, access_band |-> band, accom_mod |-> mod,
     myp_criteria |-> criteria, origin |-> "teacher_authored"]
Modified == {"modified_assessment"}
MCInput ==
    {MCFacets("link", {}, "on_grade", "none", Absent),
     MCFacets("link", {}, "foundational_bridge", "none", Absent),
     MCFacets("file", {}, "on_grade", "none", Absent),
     MCFacets("text", Modified, "foundational_bridge", "accommodation", {"A"}),
     MCFacets("text", Modified, "foundational_bridge", "modification", {"A"}),
     MCFacets("text", Modified, "foundational_bridge", "modification", {}),
     MCFacets("text", Modified, "foundational_bridge", "modification", Absent)}
MCCatalogSeed == {MCFacets("link", {}, "foundational_bridge", "none", Absent)}
MCPatch ==
    {[access_band |-> "foundational_bridge"], [accom_mod |-> "modification"],
     [content |-> "file"], [support_types |-> {}],
     [support_types |-> {}, myp_criteria |-> Absent],
     [support_types |-> Modified, myp_criteria |-> {"A"}],
     [standard_codes |-> {}, tags |-> {"we_do"}]}
MCFilter ==
    {[support_types |-> {"modified_assessment", "guided_notes"}, origin |-> {"imported_seed"}],
     [access_band |-> {"foundational_bridge", "on_grade"}, accom_mod |-> {"none", "modification"}],
     [myp_criteria |-> {"A", "B"}],
     [tags |-> {"i_do", "we_do"}, standard_codes |-> {"6.RP.3"}]}
MCTemplate ==
    LET Need(priority, facet, anyOf, n) ==
            [priority |-> priority, facet |-> facet, anyOf |-> anyOf, minCount |-> n]
    IN  {[appliesTo |-> {"*"}, requirements |->
             <<Need(2, "tags", {"i_do"}, 1), Need(1, "access_band", {"foundational_bridge"}, 1)>>],
         [appliesTo |-> {"6.RP.3"}, requirements |->
             <<Need(1, "access_band", {"foundational_bridge", "on_grade"}, 2),
               Need(1, "support_types", {"modified_assessment"}, 1)>>]}

DomainBound == MCBound @@ [figures |-> Bounds({}, 0, 0, 0, {})]

MCInit ==
    /\ Init /\ ReportsInit /\ MaterialsInit
    /\ topic = "figures" \/ subject = "materials"
MCNext ==
    \/ RecordsNext /\ UNCHANGED <<reportVars, materialVars>>
    \/ topic = "figures" /\ ReportsNext /\ UNCHANGED <<vars, materialVars>>
    \/ topic = "figures" /\ subject = "materials"
          /\ MaterialsNext /\ UNCHANGED <<vars, reportVars>>
MCSpec == MCInit /\ [][MCNext]_<<vars, reportVars, materialVars>>
===============================================================================
