--------------------------- MODULE MCRegistryPage ---------------------------
(***************************************************************************)
(* Two SLIs, a standard SLO, a template and the two SLOs it generates. The *)
(* scenes: the wizard beside a second user; the SLI form; SLO groups;      *)
(* assignments.                                                            *)
(***************************************************************************)
EXTENDS RegistryPage

Content(mode, inds) == [mode |-> mode, inds |-> inds]
One == [i \in {"cpu"} |-> 1]
Both == [i \in {"cpu", "mem"} |-> 1]

Cpu == <<"cpu", "">>
Mem == <<"mem", "">>
Row(sli, ver, objs, kind) ==
    [version |-> 1, sli |-> sli, ver |-> ver, objs |-> objs, kind |-> kind, group |-> NULL, tag |-> NULL,
     active |-> TRUE, cfv |-> 1]
Post(name, sli, ver, objs, kind) ==
    [name |-> name, sli |-> sli, ver |-> ver, objs |-> objs, kind |-> kind, group |-> NULL, tag |-> NULL]

StartSlis == [s \in {"host", "jvm"} |->
    IF s = "host" THEN <<SliRow("raw", Both, 0)>> ELSE <<SliRow("raw", One, 0)>>]
Mixed == [StartSlis EXCEPT !["jvm"] = <<SliRow("aggregated", << >>, 0)>>]
NoSlos == [n \in {"slo", "tmpl", "gen1", "gen2"} |-> << >>]

MCMember == [g \in {"all", "web"} |-> IF g = "web" THEN {"a1", "a2"} ELSE {"a1"}]
MCSubgroups == [g \in {"all", "web"} |-> IF g = "all" THEN {"web"} ELSE {}]
MCGenName == [t \in {"tmpl", "slo", "gen1", "gen2"} |->
    [r \in {1, 2} |-> IF t # "tmpl" THEN t ELSE IF r = 1 THEN "gen1" ELSE "gen2"]]

Wizards ==
    [contents |-> {Content("raw", One), Content("aggregated", One)}, groups |-> << >>, acts |-> {"wizard", "fetch", "select", "other", "lose"}, moves |-> 6, names |-> {"slo"}, others |-> {"slo"},
     slis |-> StartSlis, posts |-> {Post("slo", "host", 1, {Cpu}, "standard")},
     slos |-> [NoSlos EXCEPT !["slo"] = <<Row("host", 1, {Cpu, Mem}, "standard")>>]]

Unbound ==
    [Wizards EXCEPT !.contents = {Content("raw", One)}, !.slis = Mixed, !.acts = {"wizard", "fetch", "other"},
       !.slos = [NoSlos EXCEPT !["slo"] = <<Row(NULL, NULL, {Cpu, Mem}, "template")>>]]

SliForms ==
    [Wizards EXCEPT !.acts = {"sli", "wizard", "fetch"}, !.moves = 7,
       !.contents = {Content("raw", One), Content("aggregated", << >>)}]

SloGroups ==
    [contents |-> {Content("raw", One)}, groups |-> << >>, acts |-> {"group", "other", "select"}, moves |-> 6, names |-> {"tmpl"}, others |-> {"gen1"},
     slis |-> StartSlis, posts |-> {Post("gen1", "host", 1, {Mem}, "standard"),
                                    Post("tmpl", "host", 2, {Cpu}, "template")},
     slos |-> [NoSlos EXCEPT !["tmpl"] = <<Row("host", 1, {Cpu, Mem}, "template")>>]]

Assignments ==
    [contents |-> {}, acts |-> {"link", "fetch", "wizard", "group"}, moves |-> 6, names |-> {"slo", "gen1"}, others |-> {},
     slis |-> StartSlis, posts |-> {},
     groups |-> <<[name |-> "g", tmpl |-> [name |-> "tmpl", ver |-> 1], rows |-> {1}, active |-> TRUE]>>,
     slos |-> [NoSlos EXCEPT !["tmpl"] = <<Row("host", 1, {Cpu, Mem}, "template")>>,
                             !["gen1"] = <<[Row("host", 1, {Cpu, Mem}, "standard") EXCEPT !.group = 1, !.tag = "g"]>>,
                             !["slo"] = <<Row("host", 1, {Cpu}, "standard")>>]]

MCScenes == {Wizards, Unbound, SliForms, SloGroups, Assignments}
=============================================================================
