------------------------------ MODULE MCRecords ------------------------------
(* Two devices of a teacher and a probe of five items.                     *)
EXTENDS Caseload

MCScore == {<<3, 5>>, <<2, 4>>}

Bounds(devices, points, w, j, e) ==
    [devices |-> devices, points |-> points, writes |-> w, jobs |-> j, elections |-> e]

MCBound == [baseline |-> Bounds({1, 2}, 0, 2, 1, {}),
            scoring |-> Bounds({1, 2}, 2, 2, 2, {"counted"}),
            para |-> Bounds({1}, 2, 2, 1, {}),
            caseload |-> Bounds({1, 2}, 2, 3, 1, {})]

FixBound == [para |-> Bounds({1}, 2, 2, 1, {})]
LockBound == [baseline |-> Bounds({1, 2}, 0, 2, 1, {})]

Typed(path, label, baseline) ==
    [path |-> path, initials |-> "AB", label |-> label, gaps |-> {}, tool |-> TRUE,
     baseline |-> baseline]
MCForm ==
    {Typed("adopt", "1", "20"), Typed("adopt", "1", "x"), Typed("adopt", None, "20"),
     Typed("draft", None, None), Typed("draft", "1", "20"), Typed("draft", "#1", None),
     [Typed("adopt", "1", "20") EXCEPT !.gaps = {"criterion_consistency"}],
     [Typed("adopt", "1", "20") EXCEPT !.initials = None]}
==============================================================================
