-------------------------- MODULE MCNavigatorPages --------------------------
(***************************************************************************)
(* Two assets with the same display name, one of them in a group; two      *)
(* tabs. The scenes: ranges in two tabs; the lists and links of the        *)
(* navigator; the explorer; the triage of change points.                   *)
(***************************************************************************)
EXTENDS NavigatorPages

CONSTANTS tab1, tab2

Now(n) == [kind |-> "now-", n |-> n]
Date(n) == [kind |-> "date", n |-> n]
Junk == [kind |-> "junk", n |-> 0]
At(loc, from, to) == [loc EXCEPT !.from = from, !.to = to]
Asset(a) == [Bare("/navigator") EXCEPT !.asset = a]

MCEvals ==
    {[id |-> 1, asset |-> 1, name |-> "load", date |-> 1, tags |-> {"env"}],
     [id |-> 2, asset |-> 1, name |-> "smoke", date |-> 2, tags |-> {}],
     [id |-> 3, asset |-> 2, name |-> "load", date |-> 2, tags |-> {}]}

MCMembers == [g \in {"g"} |-> {1}]
MCLabel == [a \in {1, 2} |-> "shop"]
MCMetrics ==
    [a \in {1, 2} |-> IF a = 1 THEN {{<<"s1", "m">>}, {<<"s1", "m">>, <<"s2", "m">>}}
                      ELSE {{<<"s2", "m">>, <<"s2", "n">>}}]

Ranges ==
    [tabs |-> {tab1, tab2}, moves |-> 4, acts |-> {"open", "range", "history", "follow"},
     links |-> {Bare("/navigator"), At(Asset(1), Date(1), Date(2)), At(Asset(2), Junk, NULL),
                At(Bare("/navigator"), Date(3), Date(1))}]

Lists ==
    [tabs |-> {tab1}, moves |-> 6, acts |-> {"open", "select", "tree", "filter", "drill", "history"},
     links |-> {Bare("/navigator"), [Asset(2) EXCEPT !.eval = 3]}]

Explorer ==
    [tabs |-> {tab1}, moves |-> 8, acts |-> {"open", "explore", "history", "drill", "tree"},
     links |-> {[Bare("/explorer") EXCEPT !.asset = 1]}]

Triage ==
    [tabs |-> {tab1}, moves |-> 7, acts |-> {"open", "triage"},
     links |-> {Bare("/change-points")}]

MCScenes == {Ranges, Lists, Explorer, Triage}
=============================================================================
