--------------------------- MODULE NavigatorPages ---------------------------
(***************************************************************************)
(* The pages a tab shows, on top of the locations and ranges of TimeRange: *)
(* the navigator with its lists of evaluations (all, or of a group) and    *)
(* the link into an asset's panel, the metric explorer, and the triage of  *)
(* change points. The state of a page lives while its component is         *)
(* mounted; what a page reads from the server is answered at any time.     *)
(***************************************************************************)
EXTENDS TimeRange

CONSTANTS
    Evals,          \* evaluations: records with asset, name, date and tags
    Members,        \* the assets of each group
    Label,          \* the display name of each asset
    RequiredCols,   \* columns of the table that cannot be hidden
    Metrics,        \* the heatmaps an asset may be answered with: sets of <<SLO, metric>>
    Points,         \* change points
    PageSize,       \* change points on a page
    Scenes          \* what the viewer does: tabs, links opened, kinds of action, moves

\* The routes the pages and the header link to.
Paths == {"/navigator", "/explorer", "/evaluations", "/change-points", "/slos"}

Locations ==
    [path: Paths, group: DOMAIN Members \union {NULL}, asset: DOMAIN Label \union {NULL},
     eval: {e.id : e \in Evals} \union {NULL}, from: Tokens \union {NULL}, to: Tokens \union {NULL},
     doc: Nat]

\* The evaluation a location names is one of its asset.
OwnEval(loc) ==
    loc.eval # NULL => \E e \in Evals : e.id = loc.eval /\ e.asset = loc.asset

\* Links from outside name an evaluation only together with its asset, as the
\* addresses do that the pages produce. Assets are numbered in their order.
ASSUME PagesAssumption ==
    /\ PageSize \in Nat \ {0}
    /\ Points \subseteq Nat
    /\ DOMAIN Label \subseteq Nat
    /\ \A e \in Evals : e.asset \in DOMAIN Label
    /\ \A a \in DOMAIN Label : \A heat \in Metrics[a] : \A m \in heat : m = <<m[1], m[2]>>
    /\ \A s \in Scenes :
         /\ s.tabs \subseteq Tabs /\ s.moves \in Nat
         /\ \A loc \in s.links : loc \in Locations /\ OwnEval(loc)

VARIABLES
    pane,       \* the page on screen in each tab
    status,     \* change points: their triage status on the server
    ticked,     \* history: the change points ticked since the last bulk triage
    scene,      \* the scene of this behaviour
    moves       \* moves so far

pageVars == <<pane, status, ticked, scene, moves>>
vars == <<timeVars, pageVars>>

Statuses == {"unprocessed", "acknowledged", "hidden"}
Targets == {"acknowledged", "hidden"}

-----------------------------------------------------------------------------
(* Lists of evaluations.                                                   *)

EvalsOf(group) ==
    IF group = NULL THEN Evals ELSE {e \in Evals : e.asset \in Members[group]}

\* The answer to useEvaluations: the chips filter by name.
Listed(group, names) ==
    {e \in EvalsOf(group) : names = NULL \/ e.name \in names}

NamesOf(group) == {e.name : e \in EvalsOf(group)}

\* useDynamicColumns: a column for every tag that some evaluation has.
DynamicCols(evals) == UNION {e.tags : e \in evals}

\* The effect of useColumnVisibility: columns that are not visible are added
\* whenever the columns of the answer are computed anew.
AutoShown(visible, evals) == visible \union DynamicCols(evals)

ToggledColumn(visible, col) ==
    IF col \in RequiredCols THEN visible
    ELSE IF col \in visible THEN visible \ {col} ELSE visible \union {col}

ToggledName(names, n) ==
    IF names = NULL THEN {n}
    ELSE IF n \in names THEN (IF Cardinality(names) <= 1 THEN names ELSE names \ {n})
    ELSE names \union {n}

ListPane(group) ==
    [kind |-> "list", names |-> NULL, date |-> NULL,
     visible |-> AutoShown(RequiredCols, EvalsOf(group))]

-----------------------------------------------------------------------------
(* The metric explorer.                                                    *)

ExplorerPane ==
    [kind |-> "explorer", heat |-> NULL, enabled |-> {}]

MultiSlo(heat) == heat # NULL /\ Cardinality({m[1] : m \in heat}) > 1

\* An indicator is known by its metric alone while there is one SLO.
IndicatorKey(heat, m) == IF MultiSlo(heat) THEN m ELSE <<m[2]>>

Indicators(heat) == IF heat = NULL THEN {} ELSE {IndicatorKey(heat, m) : m \in heat}

TabGroup(heat, m) == IF MultiSlo(heat) THEN m[1] ELSE "Other"

\* metricSloMap and apiMetricMap.
SloOf(heat, key) ==
    IF key \in Indicators(heat)
    THEN (CHOOSE m \in heat : IndicatorKey(heat, m) = key)[1] ELSE NULL

ApiMetric(heat, key) ==
    IF MultiSlo(heat) /\ key \in Indicators(heat) THEN key[2]
    ELSE IF Len(key) = 1 THEN key[1] ELSE key

\* useEnabledTrends: only metrics with a known SLO are asked for.
TrendsAsked(p) ==
    {<<SloOf(p.heat, key), ApiMetric(p.heat, key)>> :
        key \in {k \in p.enabled : SloOf(p.heat, k) # NULL}}

-----------------------------------------------------------------------------
(* The page of change points.                                              *)

\* The list is in order of detection; page n of the change points with the status
\* asked for.
PageOf(filter, page) ==
    LET all == {c \in Points : filter = NULL \/ status[c] = filter}
        rank(c) == Cardinality({x \in all : x < c})
    IN  [c \in {x \in all : rank(x) \div PageSize = page} |-> status[c]]

\* The rows are NULL while they are loading. A page that is left forgets the answer
\* to its request.
TriagePane ==
    [kind |-> "triage", filter |-> "unprocessed", page |-> 0, rows |-> NULL,
     selected |-> {}, sent |-> NULL]

\* toggleSelectAll compares sizes.
AllToggled(p) ==
    IF Cardinality(p.selected) = Cardinality(DOMAIN p.rows) THEN {} ELSE DOMAIN p.rows

Toggled(p, c) == IF c \in p.selected THEN p.selected \ {c} ELSE p.selected \union {c}

-----------------------------------------------------------------------------
(* Mounting: a page's state is new unless its component stays.             *)

\* AssetPanel starts with the evaluation of the URL, and its effect on mount
\* clears it.
AssetPane(loc) == [kind |-> "asset", asset |-> loc.asset, eval |-> NULL]

Mounted(loc) ==
    CASE PanelKey(loc)[1] = "asset" -> AssetPane(loc)
      [] PanelKey(loc)[1] \in {"all", "group"} -> ListPane(loc.group)
      [] loc.path = "/explorer" -> ExplorerPane
      [] loc.path = "/change-points" -> TriagePane
      [] OTHER -> [kind |-> "other"]

\* The list of another group in the same panel shows its columns too; the explorer
\* of another asset or range waits for its heatmap.
Kept(p, old, loc) ==
    CASE p.kind = "list" -> [p EXCEPT !.visible = AutoShown(@, Listed(loc.group, p.names))]
      [] p.kind = "explorer" /\ <<old.asset, old.from, old.to>> # <<loc.asset, loc.from, loc.to>> ->
           [p EXCEPT !.heat = NULL]
      [] OTHER -> p

\* After a step that loads the page of tab t anew, or navigates it.
Loaded(t) == pane' = [pane EXCEPT ![t] = Mounted(tabs'[t].hist[tabs'[t].pos])]

Shown(t) ==
    LET loc == tabs'[t].hist[tabs'[t].pos]
    IN  pane' = [pane EXCEPT ![t] =
                   IF loc.doc = Loc(t).doc /\ PanelKey(loc) = PanelKey(Loc(t))
                   THEN Kept(pane[t], Loc(t), loc)
                   ELSE Mounted(loc)]

Unticked(t) ==
    ticked' = IF pane'[t].kind = "triage" THEN ticked ELSE [ticked EXCEPT ![t] = {}]

-----------------------------------------------------------------------------
(* The navigator's own navigation keeps the range of the URL.              *)

\* Mutant: the evaluation of the asset that was shown stays in the URL.
AssetLocation_StaleEval(loc, asset, group, eval) ==
    [loc EXCEPT !.group = IF group # NULL THEN group ELSE @,
                !.asset = asset, !.eval = IF eval # NULL THEN eval ELSE @]

\* selectAsset: without a group the selected one is kept.
AssetLocation(loc, asset, group, eval) ==
    [loc EXCEPT !.group = IF group # NULL THEN group ELSE @,
                !.asset = asset, !.eval = eval]

GroupLocation(loc, group) ==
    [loc EXCEPT !.group = group, !.asset = NULL, !.eval = NULL]

\* A move of the viewer in a tab.
Move(t, act) ==
    /\ t \in scene.tabs /\ act \in scene.acts
    /\ moves < scene.moves
    /\ moves' = moves + 1
    /\ UNCHANGED scene

NavigateTo(t, loc) ==
    Navigate(t, loc) /\ Shown(t) /\ Unticked(t) /\ UNCHANGED status

\* The links in the header carry no range.
FollowLink(t) ==
    /\ Move(t, "follow")
    /\ tabs[t].pos # 0
    /\ \E path \in {"/navigator", "/change-points", "/slos"} : NavigateTo(t, Bare(path))

\* Nor do the explorer's button on an asset panel and the links back.
DrillLink(t) ==
    /\ Move(t, "drill")
    /\ tabs[t].pos # 0
    /\ \/ /\ pane[t].kind = "asset"
          /\ NavigateTo(t, [Bare("/explorer") EXCEPT !.asset = Loc(t).asset])
       \/ /\ pane[t].kind = "explorer"
          /\ NavigateTo(t, IF Loc(t).asset # NULL
                           THEN [Bare("/navigator") EXCEPT !.asset = Loc(t).asset]
                           ELSE [Bare("/navigator") EXCEPT !.group = Loc(t).group])
       \/ /\ Loc(t).path = "/evaluations"
          /\ NavigateTo(t, Bare("/navigator"))

\* A click in the tree, which lists an asset under its groups or under none.
TreeSelect(t) ==
    /\ Move(t, "tree")
    /\ tabs[t].pos # 0 /\ Loc(t).path = "/navigator"
    /\ \/ \E group \in DOMAIN Members \union {NULL} : NavigateTo(t, GroupLocation(Loc(t), group))
       \/ \E asset \in DOMAIN Label, group \in DOMAIN Members \union {NULL} :
            /\ group # NULL => asset \in Members[group]
            /\ NavigateTo(t, AssetLocation(Loc(t), asset, group, NULL))

\* Of the assets with one display name the first is meant, whichever row it was.
AssetOfRow(evals, asset) ==
    LET same == {e.asset : e \in {x \in evals : Label[x.asset] = Label[asset]}}
    IN  CHOOSE a \in same : \A b \in same : a <= b

\* A cell of the list's heatmap: the first click selects its date, the second its
\* asset, with the evaluation of that date when the list is a group's.
ClickCell(t) ==
    /\ Move(t, "select")
    /\ tabs[t].pos # 0 /\ pane[t].kind = "list"
    /\ LET evals == Listed(Loc(t).group, pane[t].names)
           date == pane[t].date
       IN  \E row \in {e.asset : e \in evals}, slot \in {e.date : e \in evals} :
             \/ /\ slot # date
                /\ pane' = [pane EXCEPT ![t].date = slot]
                /\ UNCHANGED <<timeVars, status, ticked>>
             \/ /\ slot = date
                /\ LET asset == AssetOfRow(evals, row)
                       match == {e \in evals : e.asset = asset /\ e.date = date}
                   IN  \E eval \in IF Loc(t).group # NULL /\ match # {}
                                   THEN {e.id : e \in match} ELSE {NULL} :
                         NavigateTo(t, AssetLocation(Loc(t), asset, Loc(t).group, eval))

\* A row of the list's table: its evaluation, its asset, or its details.
ClickRow(t) ==
    /\ Move(t, "select")
    /\ tabs[t].pos # 0 /\ pane[t].kind = "list"
    /\ \E e \in Listed(Loc(t).group, pane[t].names) :
         /\ pane[t].date # NULL => e.date = pane[t].date
         /\ \/ \E eval \in {e.id, NULL} :
                 NavigateTo(t, AssetLocation(Loc(t), e.asset, Loc(t).group, eval))
            \/ NavigateTo(t, [Bare("/evaluations") EXCEPT !.asset = e.asset, !.eval = e.id])

FilterList(t) ==
    /\ Move(t, "filter")
    /\ tabs[t].pos # 0 /\ pane[t].kind = "list"
    /\ \E names \in {NULL} \union {ToggledName(pane[t].names, n) : n \in NamesOf(Loc(t).group)} :
         pane' = [pane EXCEPT ![t].names = names,
                              ![t].visible = AutoShown(@, Listed(Loc(t).group, names))]
    /\ UNCHANGED <<timeVars, status, ticked>>

ToggleColumn(t) ==
    /\ Move(t, "filter")
    /\ tabs[t].pos # 0 /\ pane[t].kind = "list"
    /\ \E col \in RequiredCols \union DynamicCols(Listed(Loc(t).group, pane[t].names)) :
         pane' = [pane EXCEPT ![t].visible = ToggledColumn(@, col)]
    /\ UNCHANGED <<timeVars, status, ticked>>

-----------------------------------------------------------------------------
(* The explorer.                                                           *)

ReceiveHeatmap(t) ==
    /\ tabs[t].pos # 0 /\ pane[t].kind = "explorer" /\ Loc(t).asset # NULL
    /\ Move(t, "explore")
    /\ \E answer \in Metrics[Loc(t).asset] : pane' = [pane EXCEPT ![t].heat = answer]
    /\ UNCHANGED <<timeVars, status, ticked>>

\* A label, the All and None of a group of labels, or of the whole section.
EnableMetrics(t) ==
    LET p == pane[t]
    IN  /\ Move(t, "explore")
        /\ tabs[t].pos # 0 /\ p.kind = "explorer" /\ p.heat # NULL
        /\ \/ \E k \in Indicators(p.heat) :
                pane' = [pane EXCEPT ![t].enabled = IF k \in @ THEN @ \ {k} ELSE @ \union {k}]
           \/ \E g \in {TabGroup(p.heat, m) : m \in p.heat} :
                LET keys == {IndicatorKey(p.heat, m) : m \in {x \in p.heat : TabGroup(p.heat, x) = g}}
                IN  \/ pane' = [pane EXCEPT ![t].enabled = @ \union keys]
                    \/ pane' = [pane EXCEPT ![t].enabled = @ \ keys]
           \/ pane' = [pane EXCEPT ![t].enabled = Indicators(p.heat)]
           \/ pane' = [pane EXCEPT ![t].enabled = {}]
        /\ UNCHANGED <<timeVars, status, ticked>>

-----------------------------------------------------------------------------
(* Change points.                                                          *)

OnTriage(t) == tabs[t].pos # 0 /\ pane[t].kind = "triage"

FetchPoints(t) ==
    /\ OnTriage(t)
    /\ pane' = [pane EXCEPT ![t].rows = PageOf(pane[t].filter, pane[t].page)]
    /\ UNCHANGED <<timeVars, status, ticked, scene, moves>>

\* Another page or filter: its rows are asked for, the selection stays.
Paging(p) ==
    LET At(filter, page) == [p EXCEPT !.filter = filter, !.page = page, !.rows = NULL]
    IN  {At(f, 0) : f \in Statuses \union {NULL}}
        \union {At(p.filter, n) : n \in {x \in {p.page - 1} : p.rows # NULL /\ p.page > 0}}
        \union {At(p.filter, n) :
                 n \in {x \in {p.page + 1} : p.rows # NULL /\ Cardinality(DOMAIN p.rows) >= PageSize}}

PageThrough(t) ==
    /\ Move(t, "triage") /\ OnTriage(t)
    /\ \E p \in Paging(pane[t]) : pane' = [pane EXCEPT ![t] = p]
    /\ UNCHANGED <<timeVars, status, ticked>>

Tick(t) ==
    LET p == pane[t]
    IN  /\ Move(t, "triage") /\ OnTriage(t)
        /\ p.rows # NULL /\ DOMAIN p.rows # {}
        /\ \E selected \in {AllToggled(p)} \union {Toggled(p, c) : c \in DOMAIN p.rows} :
             /\ pane' = [pane EXCEPT ![t].selected = selected]
             /\ ticked' = [ticked EXCEPT ![t] = @ \union (selected \ p.selected)]
        /\ UNCHANGED <<timeVars, status>>

\* One row's own buttons are there while it is listed as unprocessed.
TriageOne(t) ==
    /\ Move(t, "triage") /\ OnTriage(t)
    /\ pane[t].rows # NULL
    /\ \E c \in DOMAIN pane[t].rows, to \in Targets :
         /\ pane[t].rows[c] = "unprocessed"
         /\ status' = [status EXCEPT ![c] = to]
    /\ UNCHANGED <<timeVars, pane, ticked>>

BulkTriage(t) ==
    /\ Move(t, "triage") /\ OnTriage(t)
    /\ pane[t].selected # {} /\ pane[t].sent = NULL
    /\ \E to \in Targets :
         pane' = [pane EXCEPT ![t].sent = [ids |-> pane[t].selected, to |-> to, done |-> FALSE]]
    /\ UNCHANGED <<timeVars, status, ticked>>

\* bulk_triage sets the status of every id, whatever it was.
ServeBulk(t) ==
    /\ OnTriage(t) /\ pane[t].sent # NULL /\ ~pane[t].sent.done
    /\ status' = [c \in Points |-> IF c \in pane[t].sent.ids THEN pane[t].sent.to ELSE status[c]]
    /\ pane' = [pane EXCEPT ![t].sent.done = TRUE]
    /\ UNCHANGED <<timeVars, ticked, scene, moves>>

\* Mutant: the selection outlives the triage.
AfterBulk_Kept(p) == [p EXCEPT !.sent = NULL]

AfterBulk(p) == [p EXCEPT !.sent = NULL, !.selected = {}]

\* The answer clears the selection; a request that fails leaves it.
BulkAnswered(t) ==
    /\ OnTriage(t) /\ pane[t].sent # NULL
    /\ \/ /\ pane[t].sent.done
          /\ pane' = [pane EXCEPT ![t] = AfterBulk(@)]
          /\ ticked' = [ticked EXCEPT ![t] = {}]
       \/ /\ pane' = [pane EXCEPT ![t].sent = NULL]
          /\ UNCHANGED ticked
    /\ UNCHANGED <<timeVars, status, scene, moves>>

-----------------------------------------------------------------------------

Init ==
    /\ TimeInit
    /\ pane = [t \in Tabs |-> [kind |-> "none"]]
    /\ status = [c \in Points |-> "unprocessed"]
    /\ ticked = [t \in Tabs |-> {}]
    /\ scene \in Scenes
    /\ moves = 0

Open(t) ==
    /\ Move(t, "open")
    /\ \E loc \in scene.links : OpenLink(t, loc)
    /\ Loaded(t) /\ UNCHANGED status /\ Unticked(t)

GoBack(t) ==
    /\ Move(t, "history")
    /\ Traverse(t)
    /\ Shown(t) /\ UNCHANGED status /\ Unticked(t)

Range(t) ==
    /\ Move(t, "range")
    /\ HandlePreset(t) \/ HandleApply(t) \/ SelectDate(t)
    /\ UNCHANGED <<pane, status, ticked>>

DayPasses == Midnight /\ "range" \in scene.acts /\ UNCHANGED pageVars

Next ==
    \/ DayPasses
    \/ \E t \in Tabs :
         \/ Open(t) \/ GoBack(t) \/ Range(t) \/ FollowLink(t) \/ DrillLink(t)
         \/ TreeSelect(t) \/ ClickCell(t) \/ ClickRow(t) \/ FilterList(t) \/ ToggleColumn(t)
         \/ ReceiveHeatmap(t) \/ EnableMetrics(t)
         \/ FetchPoints(t) \/ PageThrough(t) \/ Tick(t) \/ TriageOne(t)
         \/ BulkTriage(t) \/ ServeBulk(t) \/ BulkAnswered(t)

Spec == Init /\ [][Next]_vars

-----------------------------------------------------------------------------

\* What a page asks for belongs to the asset on screen, however the viewer came
\* there. An evaluation in the URL is one of the asset in the URL: another selection
\* in the tree or the lists drops the old `eval`. A trend of the explorer is one the
\* asset has: labels that were enabled for another asset, or before a second SLO
\* changed the labels' keys, ask for nothing.
AskedOfAsset ==
    \A t \in Tabs :
        /\ tabs[t].pos # 0 => OwnEval(Loc(t))
        /\ pane[t].kind = "explorer" =>
              TrendsAsked(pane[t]) \subseteq (IF pane[t].heat = NULL THEN {} ELSE pane[t].heat)

\* A bulk triage is about change points the viewer ticked since the last one that
\* succeeded, whatever pages, filters and answers came in between.
OnlyTickedTriaged ==
    \A t \in Tabs : pane[t].kind = "triage" => pane[t].selected \subseteq ticked[t]
=============================================================================
