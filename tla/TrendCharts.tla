---------------------------- MODULE TrendCharts ----------------------------
(***************************************************************************)
(* The charts of an evaluation: trend charts with their notes, thresholds, *)
(* axis bounds and the switches for all charts, and stacked heatmaps, whose *)
(* tooltips a watchdog of the page keeps apart. Notes come from RunNotes.  *)
(***************************************************************************)
EXTENDS NoteLabels, RunNotes

CONSTANTS
    Maps,           \* heatmaps of the page
    Scenes          \* the start, the kinds of action and their inputs

\* Values in ten-thousandths are multiples of a tenth: whole ticks frame them.
Tenths == {v \in Int : v % 1000 = 0}
Points == [run : Nat, value : Tenths, target : Tenths \union {NULL}, base : Tenths \union {NULL}]

\* A scene starts from tables that requests could have left, the system's category
\* among them, as the seeding migration inserts it.
ASSUME ScenesAssumption ==
    /\ NULL \notin BOOLEAN \union Int \union Maps
    /\ \A s \in Scenes :
          /\ s.moves \in Nat
          /\ s.maps \subseteq Maps
          /\ s.bounds \subseteq Int \union {NULL}
          /\ s.trends \union {s.trend} \subseteq Seq(Points)
          /\ SoundTables(s.cats, s.notes)
          /\ \A i \in DOMAIN s.notes : s.notes[i].width \in Nat
          /\ s.pills \union s.widths \subseteq Nat
          /\ \A e \in s.evals : e.result \in DOMAIN RESULT_RANK /\ e.note \in BOOLEAN

VARIABLES
    prefs,      \* the switches of the page: [notes, type], and their generations
    stored,     \* local storage
    ev,         \* the evaluation: the tab group of each of its metrics
    tab,        \* the tab that was clicked last
    blocks,     \* the mounted trend charts
    trend,      \* the points of the trend: [run, value, target, base]
    width,      \* the measured width of the chart containers
    evals,      \* the evaluations of the group heatmap
    tips,       \* [shown, active, attached]: visible tooltips, and the watchdog
    mouse,      \* [at, settled, tracked]: the pointer, and maps that had a tooltip
    popover,    \* [hover, open, timer]: the popover of a note icon
    clicks,     \* history: the last click that concerned each switch of each chart
    scene, moves

chartVars == <<prefs, stored, ev, tab, blocks, trend, width, evals, clicks>>
pointerVars == <<tips, mouse, popover>>
vars == <<noteVars, chartVars, pointerVars, scene, moves>>

Act(kind) == kind \in scene.acts /\ moves < scene.moves /\ moves' = moves + 1 /\ UNCHANGED scene

-----------------------------------------------------------------------------
(* Switches: one for all charts, and one on each chart.                    *)

Switches == {"notes", "type"}

FreshBlock(gen) ==
    [over |-> [s \in Switches |-> NULL], gen |-> gen, target |-> TRUE, base |-> FALSE,
     min |-> NULL, max |-> NULL]

\* While rendering, a chart drops its own setting when the generation moved on.
Synced(block, gen) ==
    [block EXCEPT !.over = [s \in Switches |-> IF block.gen[s] = gen[s] THEN @[s] ELSE NULL],
                  !.gen = gen]

Effective(m, s) == IF blocks[m].over[s] = NULL THEN prefs.on[s] ELSE blocks[m].over[s]

\* The clicked tab, unless the evaluation has no such group.
ResolvedTab(metrics, t) == IF t \in {metrics[m] : m \in DOMAIN metrics} THEN t ELSE "all"

TabIndicators(metrics, t) ==
    LET shown == ResolvedTab(metrics, t)
    IN  {m \in DOMAIN metrics : shown = "all" \/ metrics[m] = shown}

\* Charts are keyed by metric: those of the tab stay mounted, others start anew.
Rendered(metrics, t, gen) ==
    [m \in TabIndicators(metrics, t) |->
        IF m \in DOMAIN blocks THEN Synced(blocks[m], gen) ELSE FreshBlock(gen)]

\* The history of clicks: where a switch was put, on the page ("all") or on the
\* chart ("own"), or on a chart that was on the screen then and left it ("lost").
Metrics == DOMAIN scene.ev \union UNION {DOMAIN metrics : metrics \in scene.evs}

ClicksLeft(shown) ==
    [m \in DOMAIN clicks |-> [s \in Switches |->
        IF m \notin shown /\ clicks[m][s].by = "own"
        THEN [on |-> clicks[m][s].on, by |-> "lost"] ELSE clicks[m][s]]]

ShowEvaluation(metrics) ==
    /\ ev' = metrics
    /\ blocks' = Rendered(metrics, tab, prefs.gen)
    /\ clicks' = ClicksLeft(DOMAIN blocks')
    /\ UNCHANGED <<prefs, stored, tab, trend, width, evals>>

ClickTab(t) ==
    /\ t \in {"all"} \union ({ev[m] : m \in DOMAIN ev} \ {NULL})
    /\ tab' = t
    /\ blocks' = Rendered(ev, t, prefs.gen)
    /\ clicks' = ClicksLeft(DOMAIN blocks')
    /\ UNCHANGED <<prefs, stored, ev, trend, width, evals>>

NextGeneration_Shared(s) == [t \in Switches |-> prefs.gen[t] + 1]

NextGeneration(s) == [prefs.gen EXCEPT ![s] = @ + 1]

\* A switch for all charts is flipped, and remembered by the browser.
ToggleMaster(s) ==
    /\ prefs' = [on |-> [prefs.on EXCEPT ![s] = ~@], gen |-> NextGeneration(s)]
    /\ stored' = prefs'.on
    /\ blocks' = Rendered(ev, tab, prefs'.gen)
    /\ clicks' = [m \in DOMAIN clicks |-> [clicks[m] EXCEPT ![s] = [on |-> prefs'.on[s], by |-> "all"]]]
    /\ UNCHANGED <<ev, tab, trend, width, evals>>

\* A chart's own switch.
ToggleOwn(m, s) ==
    /\ blocks' = [blocks EXCEPT ![m].over[s] = ~Effective(m, s)]
    /\ clicks' = [clicks EXCEPT ![m][s] = [on |-> ~Effective(m, s), by |-> "own"]]
    /\ UNCHANGED <<prefs, stored, ev, tab, trend, width, evals>>

\* The page is loaded again.
Reload ==
    /\ prefs' = [on |-> stored, gen |-> [s \in Switches |-> 0]]
    /\ tab' = "all"
    /\ blocks' = [m \in DOMAIN ev |-> FreshBlock(prefs'.gen)]
    /\ clicks' = ClicksLeft({})
    /\ UNCHANGED <<stored, ev, trend, width, evals>>

-----------------------------------------------------------------------------
(* Thresholds and axis bounds.                                             *)

FetchTrend(points) ==
    /\ trend' = points
    /\ UNCHANGED <<prefs, stored, ev, tab, blocks, width, evals, clicks>>

\* Lines with a switch: a threshold that is not zero everywhere, the baseline.
HasTarget == \E i \in DOMAIN trend : trend[i].target \notin {NULL, 0}
HasBase == \E i \in DOMAIN trend : trend[i].base # NULL

ToggleLine(m, line) ==
    /\ line = "target" => HasTarget
    /\ line = "base" => HasBase
    /\ blocks' = [blocks EXCEPT ![m][line] = ~@]
    /\ UNCHANGED <<prefs, stored, ev, tab, trend, width, evals, clicks>>

SetBound(m, side, v) ==
    /\ blocks' = [blocks EXCEPT ![m][side] = v]
    /\ UNCHANGED <<prefs, stored, ev, tab, trend, width, evals, clicks>>

\* Everything the chart library draws on the value axis.
Drawn(m) ==
    LET lines == {"value"} \union (IF blocks[m].target /\ HasTarget THEN {"target"} ELSE {})
                           \union (IF blocks[m].base THEN {"base"} ELSE {})
    IN  {trend[i][line] : i \in DOMAIN trend, line \in lines} \ {NULL}

\* Typed bounds win, one by one; both are dropped when they are inverted.
Typed(m) ==
    LET b == blocks[m]
    IN  IF b.min # NULL /\ b.max # NULL /\ b.min >= b.max
        THEN [min |-> NULL, max |-> NULL] ELSE [min |-> b.min, max |-> b.max]

Axis(m) ==
    LET auto == PaddedAxis(Min(Drawn(m)), Max(Drawn(m)))
    IN  [side \in {"min", "max"} |-> IF Typed(m)[side] = NULL THEN auto[side] ELSE Typed(m)[side]]

-----------------------------------------------------------------------------
(* Notes on the charts.                                                    *)

\* The pill of a run: its first visible note, and how many more there are.
LabelWidth(run) ==
    LET visible == {k \in DOMAIN seenNotes : seenNotes[k].run = run /\ seenNotes[k].show}
    IN  IF visible = {} THEN 0
        ELSE Min({160, seenNotes[Min(visible)].width + (IF Cardinality(visible) > 1 THEN 24 ELSE 0)})

Labels(m) ==
    IF ~Effective(m, "notes") \/ seenCats = NULL THEN << >>
    ELSE PrepareLabels([i \in DOMAIN trend |-> LabelWidth(trend[i].run)], Len(trend), width)

Resize(w) ==
    /\ width' = w
    /\ UNCHANGED <<prefs, stored, ev, tab, blocks, trend, evals, clicks>>

AddEvaluation(e) ==
    /\ evals' = Append(evals, e)
    /\ UNCHANGED <<prefs, stored, ev, tab, blocks, trend, width, clicks>>

-----------------------------------------------------------------------------
(* Tooltips of the heatmaps. A pointermove always reaches the document; a  *)
(* browser may skip the boundary events of a fast movement.                *)

HideActive(t) ==
    IF t.active = NULL THEN t
    ELSE [shown |-> t.shown \ {t.active}, active |-> NULL, attached |-> FALSE]

HandlePointerMove(t, to) == IF t.attached /\ t.active # to THEN HideActive(t) ELSE t

TrackTooltip(t, map) ==
    LET rest == IF t.active # map THEN HideActive(t) ELSE t
    IN  [shown |-> rest.shown \union {map}, active |-> map, attached |-> TRUE]

ReleaseTooltip_Any(t, map) == [t EXCEPT !.active = NULL, !.attached = FALSE]

ReleaseTooltip(t, map) ==
    IF t.active = map THEN [t EXCEPT !.active = NULL, !.attached = FALSE] ELSE t

\* The map that was left hides its own tooltip when it is told.
HandleMouseLeave(t, to, skipped) ==
    IF skipped \/ mouse.at = to THEN t ELSE [t EXCEPT !.shown = @ \ {mouse.at}]

Hovers(t, to, shows) == IF shows /\ to \in scene.maps THEN TrackTooltip(t, to) ELSE t

PointerMove(to, skipped, shows) ==
    /\ tips' = Hovers(HandleMouseLeave(HandlePointerMove(tips, to), to, skipped), to, shows)
    /\ mouse' = [at |-> to, settled |-> TRUE, tracked |-> mouse.tracked \union tips'.shown]
    /\ UNCHANGED popover

\* The layout moves another map below the pointer, or none: no pointermove, and
\* perhaps an event for the map.
Slide(to, shows) ==
    /\ tips' = Hovers(tips, to, shows)
    /\ mouse' = [at |-> to, settled |-> FALSE, tracked |-> mouse.tracked \union tips'.shown]
    /\ UNCHANGED popover

\* The pointer leaves the page, or the window loses the focus.
PointerGone ==
    /\ tips' = IF tips.attached THEN HideActive(tips) ELSE tips
    /\ mouse' = [mouse EXCEPT !.at = "away", !.settled = TRUE]
    /\ UNCHANGED popover

\* A map is unmounted with its tooltip, and mounted again by a later render.
Remount(map) ==
    /\ tips' = LET t == [tips EXCEPT !.shown = @ \ {map}]
               IN  IF map \in mouse.tracked THEN ReleaseTooltip(t, map) ELSE t
    /\ mouse' = [mouse EXCEPT !.tracked = @ \ {map}]
    /\ UNCHANGED popover

Show == [hover |-> TRUE, open |-> TRUE, timer |-> FALSE]

EnterIcon == ~popover.hover /\ popover' = Show /\ UNCHANGED <<tips, mouse>>

LeaveIcon ==
    /\ popover.hover
    /\ popover' = [popover EXCEPT !.hover = FALSE, !.timer = TRUE]
    /\ UNCHANGED <<tips, mouse>>

HideTimer ==
    /\ popover.timer
    /\ popover' = [popover EXCEPT !.timer = FALSE, !.open = FALSE]
    /\ UNCHANGED <<tips, mouse>>

-----------------------------------------------------------------------------

Init ==
    /\ scene \in Scenes
    /\ moves = 0
    /\ categories = scene.cats
    /\ notes = scene.notes
    /\ deleting = NULL
    /\ seenCats = scene.cats
    /\ seenNotes = ListNotes
    /\ section = [run |-> 1, form |-> NoForm, hiding |-> {}]
    /\ catPage = [creating |-> NULL, editing |-> NULL]
    /\ stored = [s \in Switches |-> TRUE]
    /\ prefs = [on |-> stored, gen |-> [s \in Switches |-> 0]]
    /\ ev = scene.ev
    /\ tab = "all"
    /\ blocks = [m \in DOMAIN ev |-> FreshBlock(prefs.gen)]
    /\ clicks = [m \in Metrics |-> [s \in Switches |-> [on |-> TRUE, by |-> "all"]]]
    /\ trend = scene.trend
    /\ width = 0
    /\ evals = << >>
    /\ tips = [shown |-> {}, active |-> NULL, attached |-> FALSE]
    /\ mouse = [at |-> "page", settled |-> TRUE, tracked |-> {}]
    /\ popover = [hover |-> FALSE, open |-> FALSE, timer |-> FALSE]

SwitchNext ==
    \/ \E metrics \in scene.evs : ShowEvaluation(metrics)
    \/ \E t \in scene.tabs : ClickTab(t)
    \/ \E s \in Switches : ToggleMaster(s) \/ \E m \in DOMAIN blocks : ToggleOwn(m, s)
    \/ Reload

AxisNext ==
    \/ \E points \in scene.trends : FetchTrend(points)
    \/ \E m \in DOMAIN blocks :
          \/ \E line \in {"target", "base"} : ToggleLine(m, line)
          \/ \E side \in {"min", "max"}, v \in scene.bounds : SetBound(m, side, v)

LabelNext ==
    \/ \E points \in scene.trends : FetchTrend(points)
    \/ \E w \in scene.widths : Resize(w)
    \/ \E e \in scene.evals : AddEvaluation(e)

NoteNext ==
    \/ FetchNotes \/ FetchCategories \/ ToggleForm \/ EndDelete
    \/ \E run \in scene.runs, b \in BOOLEAN : ShowRun(run, b)
    \/ \E w \in scene.pills : TypeNote(w) \/ \E run \in scene.runs : ReEvaluationNote(run, "g", w)
    \/ \E lost \in BOOLEAN : SaveNote(lost)
    \/ \E k \in DOMAIN seenNotes : AskHide(k)
    \/ \E id \in section.hiding : ConfirmHide(id)

CategoryNext ==
    \/ AddCategory \/ SubmitEdit \/ CancelCategory
    \/ \E c \in CatIds : \/ PickCategory(c) \/ BeginDelete(c) \/ ToggleShow(c)
                         \/ EditCategory(c) \/ SubmitCreate(c)
                         \/ \E i \in DOMAIN notes : UpdateNote(i, c)
    \/ \E n \in Names, b \in BOOLEAN : EnterFields([name |-> n, show |-> b])

PointerNext ==
    \/ \E to \in scene.maps \union {"page"}, skipped, shows \in BOOLEAN : PointerMove(to, skipped, shows)
    \/ \E to \in scene.maps \union {"page"}, shows \in BOOLEAN : Slide(to, shows)
    \/ PointerGone \/ EnterIcon \/ LeaveIcon \/ HideTimer
    \/ \E map \in scene.maps : Remount(map)

Next ==
    \/ /\ \/ Act("switch") /\ SwitchNext
          \/ Act("axis") /\ AxisNext
          \/ Act("label") /\ LabelNext
       /\ UNCHANGED <<noteVars, pointerVars>>
    \/ /\ \/ Act("note") /\ NoteNext
          \/ Act("category") /\ CategoryNext
       /\ UNCHANGED <<chartVars, pointerVars>>
    \/ Act("pointer") /\ PointerNext /\ UNCHANGED <<noteVars, chartVars>>

Spec == Init /\ [][Next]_vars

-----------------------------------------------------------------------------
(* Properties.                                                             *)

\* Each chart on the screen follows the last click that concerned it, on its own
\* switch or on the switch for all charts, and neither switch disturbs the other
\* one. A click on a chart's own switch lasts while the chart is mounted: once a tab,
\* an evaluation or a reload took the chart away (the override is state of the
\* mounted chart, useMasterOverride), it follows the switch for all charts again.
ChartShowsLastChoice ==
    \A m \in DOMAIN blocks, s \in Switches :
        LET last == clicks[m][s]
        IN  Effective(m, s) = IF last.by = "lost" THEN prefs.on[s] ELSE last.on

\* An automatic bound leaves room beyond everything drawn, and two of them give the
\* data at least half of the height, as long as the data span more than five units of
\* the last digit that rounding the bounds keeps. Flatter data may lose their frame
\* (both bounds may even coincide), but none is cut by more than half of that unit.
\* Bounds typed for both sides are never inverted.
AxisFramesData ==
    \A m \in DOMAIN blocks : trend # << >> =>
        LET lo == Min(Drawn(m))
            hi == Max(Drawn(m))
            unit == [side \in {"min", "max"} |-> Unit(Beyond(lo, hi)[side])]
            auto == {side \in {"min", "max"} : Typed(m)[side] = NULL}
        IN  /\ "min" \in auto => 2 * (Axis(m).min - lo) < unit.min
            /\ "max" \in auto => 2 * (hi - Axis(m).max) < unit.max
            /\ auto = {} => Axis(m).min < Axis(m).max
            /\ 5 * unit.min < Span(lo, hi) /\ 5 * unit.max < Span(lo, hi) =>
                  /\ "min" \in auto => Axis(m).min < lo
                  /\ "max" \in auto => Axis(m).max > hi
                  /\ auto = {"min", "max"} /\ lo < hi =>
                        2 * (hi - lo) >= Axis(m).max - Axis(m).min

Overlap(a, b) == LeftEdge(a) < RightEdge(b) /\ LeftEdge(b) < RightEdge(a)

\* Two pills of one row overlap only when some pill is too close to as many
\* earlier ones as there are rows. A pill lies above the plot, and inside of a
\* container that is wide enough for it.
LabelsLegible ==
    \A m \in DOMAIN blocks :
        LET items == Labels(m)
            rows == PackRows(items)
            near(i) == {j \in 1..i - 1 : LeftEdge(items[i]) - RightEdge(items[j]) < 2 * MIN_LABEL_GAP}
        IN  /\ \A i, j \in DOMAIN items : i < j /\ rows[i] = rows[j] /\ Overlap(items[i], items[j]) =>
                  \E k \in DOMAIN items : Cardinality(near(k)) >= MAX_ROWS
            /\ \A i \in DOMAIN items :
                  /\ RowTop(rows[i]) + ROW_HEIGHT <= 16 + BandPx(rows)
                  /\ items[i].w + 2 * LABEL_EDGE_INSET <= width =>
                        LeftEdge(items[i]) >= 0 /\ RightEdge(items[i]) <= 2 * width

\* A cell has the worst result of the evaluations that fall into it, in any
\* order of the list, and each position of the grid has a cell.
CellsWorst ==
    LET data == BuildData(evals)
        mine(k) == {i \in DOMAIN evals : KeyOf(evals[i]) = k}
    IN  /\ \A k \in DOMAIN data.cells :
              /\ \A i \in mine(k) : RESULT_RANK[evals[i].result] <= RESULT_RANK[data.cells[k].result]
              /\ \E i \in mine(k) : evals[i].result = data.cells[k].result
              /\ data.cells[k].note <=> \E i \in mine(k) : evals[i].note
        /\ \A i, j \in DOMAIN evals :
              \/ <<evals[i].asset, evals[j].slot>> \in data.gaps
              \/ \E k \in DOMAIN data.cells : <<k[1], k[2]>> = <<evals[i].asset, evals[j].slot>>

\* At most one tooltip is visible on the page; after a movement of the pointer
\* it can only be the one of the map below it, also when the browser skipped
\* the events of leaving a map and when maps came and went. The popover of notes
\* is open while the pointer is on its icon, and is about to close otherwise: a
\* timer of an earlier visit never closes it.
HoverFollowsPointer ==
    /\ Cardinality(tips.shown) <= 1
    /\ mouse.settled => tips.shown \subseteq {mouse.at}
    /\ IF popover.hover THEN popover.open ELSE popover.open => popover.timer
=============================================================================
