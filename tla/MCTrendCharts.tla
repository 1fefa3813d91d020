--------------------------- MODULE MCTrendCharts ---------------------------
(***************************************************************************)
(* Two metrics, runs 1 to 5, four categories, three heatmaps. The scenes:  *)
(* switches and tabs; axis bounds; the pills of many notes; heatmap cells; *)
(* notes and categories, beside a second user; tooltips.                   *)
(***************************************************************************)
EXTENDS TrendCharts

Point(run, v, target, base) == [run |-> run, value |-> v, target |-> target, base |-> base]
Note(run, cat, group, w) == [run |-> run, cat |-> cat, group |-> group, hidden |-> FALSE, width |-> w]
Cat(name, system) == [name |-> name, show |-> TRUE, system |-> system]
Eval(a, slot, name, result, note) ==
    [asset |-> a, slot |-> slot, name |-> name, result |-> result, note |-> note]

StartCats == <<Cat("info", FALSE), Cat("deploy", FALSE), Cat("re-evaluation", TRUE)>>
OneTab == [m \in {"cpu"} |-> "host"]
TwoTabs == [m \in {"cpu", "gc"} |-> IF m = "cpu" THEN "host" ELSE "jvm"]
Ungrouped == [m \in {"cpu", "gc"} |-> IF m = "cpu" THEN NULL ELSE "jvm"]
Five == [i \in 1..5 |-> Point(i, 10000, NULL, NULL)]

Still ==
    [acts |-> {}, moves |-> 0, cats |-> StartCats, notes |-> << >>, ev |-> OneTab, trend |-> << >>,
     evs |-> {}, tabs |-> {}, trends |-> {}, bounds |-> {}, widths |-> {}, evals |-> {}, runs |-> {},
     pills |-> {}, maps |-> {}]

Switching ==
    [Still EXCEPT !.acts = {"switch"}, !.moves = 6, !.evs = {OneTab, TwoTabs, Ungrouped},
       !.tabs = {"all", "host", "jvm"}, !.ev = TwoTabs]

Axes ==
    [Still EXCEPT !.acts = {"axis"}, !.moves = 4, !.bounds = {NULL, 0, 20000, 90000},
       !.trends = {<<Point(1, u, t, NULL), Point(2, v, t, b)>> :
                      u, v \in {-30000, 0, 99000, 100000}, t \in {NULL, 0, 70000},
                      b \in {NULL, 250000}}]

\* Nearly flat series of large values: a bound keeps four digits of them.
NearlyFlat ==
    [Axes EXCEPT !.moves = 3, !.bounds = {NULL, 99999000},
       !.trends = {<<Point(1, u, NULL, NULL), Point(2, v, NULL, NULL)>> :
                      u \in {100000000, 100100000}, v \in {100000000, 100001000, 100600000}}
                  \union {<<Point(1, -100300000 - v, NULL, NULL), Point(2, -100300000, NULL, NULL)>> :
                      v \in {0, 50000, 300000, 500000, 600000}}]

Pills(ws) ==
    [Still EXCEPT !.acts = {"label", "switch"}, !.moves = 3, !.trend = Five,
       !.notes = [i \in 1..5 |-> Note(i, 1 + (i % 2), NULL, ws[i])],
       !.trends = {<<Five[1]>>, SubSeq(Five, 1, 3), SubSeq(Five, 2, 5)}, !.widths = {72, 150, 260, 500}]

Cells ==
    [Still EXCEPT !.acts = {"label"}, !.moves = 4,
       !.evals = {Eval("a", 1, "n", "pass", TRUE), Eval("a", 1, "n", "fail", FALSE),
                  Eval("a", 1, "n", "invalidated", FALSE), Eval("a", 2, "n", "error", FALSE),
                  Eval("b", 1, "n", "warning", FALSE), Eval("b", 1, "m", "pass", TRUE)}]

Writing ==
    [Still EXCEPT !.acts = {"note", "category"}, !.moves = 6, !.runs = {1, 2}, !.pills = {40},
       !.notes = <<Note(1, 2, NULL, 40)>>]

Pointing == [Still EXCEPT !.acts = {"pointer"}, !.moves = 7, !.maps = Maps]

AllPills == {Pills(ws) : ws \in [1..5 -> {20, 60, 160}]}
MCScenes == {Switching, Axes, NearlyFlat, Cells, Writing, Pointing} \union AllPills
=============================================================================
