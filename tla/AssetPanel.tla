----------------------------- MODULE AssetPanel -----------------------------
(***************************************************************************)
(* The asset panel of the web UI: which evaluation and column it shows,    *)
(* the SLOs an action is meant for, and the five action forms, on top of   *)
(* the rows and commands of EvaluationSeries. Its data comes from two      *)
(* queries, the list of evaluations and the heatmap, that are answered     *)
(* independently; another user gives commands of their own.                *)
(*                                                                         *)
(* React's effects run before the user can act again, so one step is an    *)
(* event and everything the re-rendering after it does (Render). SLOs are  *)
(* numbered in the order the server lists them.                            *)
(***************************************************************************)
EXTENDS EvaluationSeries

CONSTANTS
    mine, theirs,   \* the transactions of this user's forms and of the other user
    Windows,        \* the time ranges and name filters: sets of columns
    Sessions        \* bounds of a behaviour: the forms opened, the other user's commands,
                    \* and how many clicks select, change the range or remount

Kinds == {"invalidate", "restore", "override", "baseline", "re-evaluate"}

ASSUME PanelAssumption ==
    /\ Txns = {mine, theirs} /\ mine # theirs
    /\ \A s \in Sessions : s.forms \subseteq Kinds /\ s.others \subseteq Ops /\ s.clicks \in Nat

VARIABLES
    published,  \* columns of completed runs
    list,       \* answer to useAssetEvaluations
    heat,       \* answer to useMetricHeatmap
    panel,      \* the panel's own state
    scope,      \* useSloScope
    form,       \* the open action form
    done,       \* history: the rows the last command of a form has changed
    clicks,     \* clicks so far
    session     \* the session of this behaviour

panelVars == <<published, list, heat, panel, scope, form, done, clicks, session>>
vars == <<seriesVars, panelVars>>

Columns == {Column(r) : r \in Rows}
Slos == {Slo(r) : r \in Rows}

Answered(window) == {r \in Rows : Column(r) \in published \cap window}

\* The list of evaluations: which there are and which are not invalidated. While
\* it is loading it is empty.
NoList == [all |-> {}, valid |-> {}]

ListAnswer(window) ==
    [all |-> Answered(window),
     valid |-> {r \in Answered(window) : ~row[r].invalidated}]

\* The heatmap: of every row, whether it is invalidated or what its result is.
NoHeat == [ready |-> FALSE, out |-> [r \in {} |-> NULL]]

HeatAnswer(window) ==
    [ready |-> TRUE,
     out |-> [r \in Answered(window) |->
                IF row[r].invalidated THEN "invalidated" ELSE row[r].result]]

\* column is history: the column the user last chose for the form.
FreshForm(kind) ==
    [kind |-> kind, step |-> "edit", conflict |-> FALSE,
     column |-> NULL, results |-> [s \in {} |-> NULL]]

PanelTypeOK ==
    /\ SeriesTypeOK
    /\ published \subseteq Columns
    /\ list.valid \subseteq list.all /\ list.all \subseteq Rows
    /\ heat.ready \in BOOLEAN /\ DOMAIN heat.out \subseteq Rows
    /\ panel.eval \in Rows \union {NULL}
    /\ panel.slot \in Columns \union {NULL}
    /\ panel.single \in Rows \union {NULL}
    /\ panel.window \in Windows
    /\ scope.selected \subseteq Slos
    /\ form.kind \in Kinds \union {NULL}
    /\ form.step \in {"edit", "sending", "results"}
    /\ done \subseteq Rows

-----------------------------------------------------------------------------
(* What the panel derives from its state p and the answers l and h.        *)

\* The newest evaluation that is not invalidated, or the newest.
DefaultEval(l) ==
    LET pool == IF l.valid # {} THEN l.valid ELSE l.all
        Before(r, x) == Column(r) > Column(x) \/ (Column(r) = Column(x) /\ Slo(r) <= Slo(x))
    IN  IF pool = {} THEN NULL ELSE CHOOSE r \in pool : \A x \in pool : Before(r, x)

EffectiveEval(p, l) == IF p.eval # NULL THEN p.eval ELSE DefaultEval(l)

RowsOfColumn(h, c) == {r \in DOMAIN h.out : Column(r) = c}

ShownColumn(p, l, h) ==
    IF p.slot # NULL THEN p.slot
    ELSE IF EffectiveEval(p, l) \in DOMAIN h.out THEN Column(EffectiveEval(p, l)) ELSE NULL

\* The column is selected for good once it is known to hold several SLOs.
AutoSlot(p, l, h) ==
    LET e == EffectiveEval(p, l)
    IN  IF p.slot = NULL /\ e \in DOMAIN h.out /\ Cardinality(RowsOfColumn(h, Column(e))) > 1
        THEN [p EXCEPT !.slot = Column(e)] ELSE p

\* columnInfo, effectiveEvalId and selectedColumnEvalId are there: the header
\* offers actions, and an open form is on screen.
ActionsShown(p, l, h) ==
    h.ready /\ EffectiveEval(p, l) # NULL /\ ShownColumn(p, l, h) # NULL

\* useSloScope without a filter: the SLOs of the column that have a result.
AvailableSlos(p, l, h) ==
    {Slo(r) : r \in {x \in RowsOfColumn(h, ShownColumn(p, l, h)) : h.out[x] # NULL}}

\* resolveScopeInitialMode and defaultSelection: a click on an SLO's cell asks
\* for that SLO.
DefaultSelection(p, h, available) ==
    IF p.single \in DOMAIN h.out /\ Slo(p.single) \in available THEN {Slo(p.single)} ELSE available

\* Mutant: the selection survives a change of the column's rows.
SelectionKey_NoRows(p, l, h) == <<ShownColumn(p, l, h), {}>>

SelectionKey(p, l, h) == <<ShownColumn(p, l, h), AvailableSlos(p, l, h)>>

\* The selection is seeded again when its key changes, and when another cell,
\* or a whole column, has been clicked. retried is history: since it was last
\* seeded the selection was replaced by what failed in an earlier command.
Rescope(p, l, h, s) ==
    LET available == AvailableSlos(p, l, h)
        key == SelectionKey(p, l, h)
        seeded == IF key # scope.key THEN DefaultSelection(p, h, available) ELSE s.selected
        hinted == IF p.single \notin DOMAIN h.out THEN available
                  ELSE IF Slo(p.single) \in available THEN {Slo(p.single)} ELSE seeded
    IN  [selected |-> IF p.single # scope.single THEN hinted ELSE seeded,
         key |-> key, single |-> p.single, retried |-> key = scope.key /\ s.retried]

\* Mutant: a form stays open whatever is selected.
Leaves_Never(before, after) == FALSE

\* An open form is closed when another evaluation is in effect.
Leaves(before, after) == before # after

\* The next render, with panel state p, answers l and h, selection s and form f:
\* a form that is not on screen loses its state.
Render(p, l, h, s, f) ==
    LET next == AutoSlot(p, l, h)
        sc == Rescope(p, l, h, s)
        closed == Leaves(EffectiveEval(panel, list), EffectiveEval(p, l))
    IN  /\ panel' = next
        /\ list' = l
        /\ heat' = h
        /\ scope' = sc
        /\ form' = CASE closed \/ f.kind = NULL -> FreshForm(NULL)
                       [] ~closed /\ f.kind # NULL /\ ~ActionsShown(p, l, h) ->
                            [FreshForm(f.kind) EXCEPT !.column = f.column]
                       [] OTHER -> f

Init ==
    /\ SeriesInit
    /\ published \in {{c \in Columns : c <= n} : n \in Columns}
    /\ list = NoList
    /\ heat = NoHeat
    /\ \E w \in Windows :
        panel = [eval |-> NULL, slot |-> NULL, single |-> NULL, window |-> w]
    /\ scope = [selected |-> {}, key |-> <<NULL, {}>>, single |-> NULL,
                retried |-> FALSE]
    /\ form = FreshForm(NULL)
    /\ done = {}
    /\ clicks = 0
    /\ session \in Sessions

-----------------------------------------------------------------------------
(* The data, and the panel's own controls.                                 *)

\* A run completes.
Publish(c) ==
    /\ c \notin published
    /\ published' = published \union {c}
    /\ UNCHANGED <<seriesVars, list, heat, panel, scope, form, done, clicks, session>>

Rerender(p, l, h, s, f) ==
    /\ Render(p, l, h, s, f)
    /\ UNCHANGED <<seriesVars, published, done, clicks, session>>

Click(p, l, h, f) ==
    /\ clicks < session.clicks
    /\ clicks' = clicks + 1
    /\ Render(p, l, h, scope, f)
    /\ UNCHANGED <<seriesVars, published, done, session>>

ReceiveList ==
    /\ list # ListAnswer(panel.window)
    /\ Rerender(panel, ListAnswer(panel.window), heat, scope, form)

ReceiveHeat ==
    /\ heat # HeatAnswer(panel.window)
    /\ Rerender(panel, list, HeatAnswer(panel.window), scope, form)

\* Another range or filter: its answers may be in the cache.
SetWindow(w) ==
    /\ w # panel.window
    /\ \E l \in {NoList, ListAnswer(w)}, h \in {NoHeat, HeatAnswer(w)} :
        Click([panel EXCEPT !.window = w], l, h, form)

FirstOf(rows) == CHOOSE r \in rows : \A x \in rows : Slo(r) <= Slo(x)

\* handleSlotSelect, from a cell of an SLO (single) or of a whole column.
SelectSlot(c, single) ==
    [panel EXCEPT !.slot = c, !.eval = FirstOf(RowsOfColumn(heat, c)), !.single = single]

\* A click that leaves the effective evaluation as it is takes an open form
\* along to its column.
Taken(c) == IF form.kind = NULL THEN form ELSE [form EXCEPT !.column = c]

ClickCell(r) ==
    /\ r \in DOMAIN heat.out
    /\ \E single \in {NULL, r} :
        Click(SelectSlot(Column(r), single), list, heat, Taken(Column(r)))

\* handleTrendClick: a point whose evaluation the heatmap does not have selects
\* the evaluation alone.
ClickTrend(r) ==
    /\ Column(r) \in published
    /\ IF r \in DOMAIN heat.out
       THEN Click(SelectSlot(Column(r), NULL), list, heat, Taken(Column(r)))
       ELSE Click([panel EXCEPT !.eval = r], list, heat, form)

\* The panel of another asset replaces this one and comes back.
Remount ==
    /\ panel.eval # NULL \/ form.kind # NULL
    /\ Click([panel EXCEPT !.eval = NULL, !.slot = NULL, !.single = NULL], list, heat,
             FreshForm(NULL))

-----------------------------------------------------------------------------
(* The action forms.                                                       *)

Shown == ActionsShown(panel, list, heat)
Column_ == ShownColumn(panel, list, heat)
Available == AvailableSlos(panel, list, heat)

\* getActions, over the rows of the column.
Offered(kind) ==
    LET rows == RowsOfColumn(heat, Column_)
    IN  CASE kind = "invalidate" -> rows = {} \/ \E r \in rows : heat.out[r] # "invalidated"
          [] kind = "restore"    -> \E r \in rows : heat.out[r] = "invalidated"
          [] OTHER               -> TRUE

OnlyForm(s, f) == Rerender(panel, list, heat, s, f)

OpenForm(kind) ==
    /\ Shown
    /\ kind \in session.forms
    /\ Offered(kind)
    /\ form.kind # kind
    /\ OnlyForm(scope, [FreshForm(kind) EXCEPT !.column = Column_])

\* Cancel, Close or Escape. A request under way is not taken back.
CloseForm ==
    /\ form.kind # NULL
    /\ OnlyForm(scope, FreshForm(NULL))

Editing == form.kind # NULL /\ Shown /\ form.step = "edit"

\* SloScopeModal: toggles, select all and clear change a draft, which Confirm
\* makes the selection. A selection that is seeded meanwhile replaces the draft.
PickSlos ==
    /\ Editing
    /\ \E some \in SUBSET Available, gone \in {{}, scope.selected \ Available} :
        OnlyForm([scope EXCEPT !.selected = some \union gone], form)

RowOf(s) == <<Column_, s>>

\* Rows at the target already are skipped, by what the heatmap last said.
Skipped(to) ==
    IF form.kind = "override"
    THEN {s \in scope.selected \cap Available : heat.out[RowOf(s)] = to}
    ELSE {}

\* The result to override with.
OverrideTargets == IF form.kind = "override" THEN Outcomes ELSE {NULL}

MayConfirm == Editing /\ ~form.conflict /\ scope.selected # {}

CommandOf(kind) ==
    CASE kind = "invalidate" -> "invalidate" [] kind = "restore" -> "restore"
      [] kind = "override" -> "override" [] kind = "baseline" -> "pin"

\* handleConfirm of the batch forms. A selected SLO without a row in the column
\* has no id: the request is refused as a whole. With nothing left to apply no
\* request is made.
Unknown == scope.selected \ Available

ConfirmBatch(to) ==
    LET sent == scope.selected \ Skipped(to)
    IN  /\ MayConfirm
        /\ form.kind # "re-evaluate"
        /\ Unknown = {}
        /\ sent # {}
        /\ Begin(mine, CommandOf(form.kind), {RowOf(s) : s \in sent}, to)
        /\ form' = [form EXCEPT !.step = "sending",
                                !.results = [s \in scope.selected |->
                                    IF s \in sent THEN "sent" ELSE "skipped"]]
        /\ done' = {}
        /\ UNCHANGED <<published, list, heat, panel, scope, clicks, session>>

ConfirmLocally(to) ==
    /\ MayConfirm
    /\ form.kind # "re-evaluate"
    /\ Unknown # {} \/ scope.selected = Skipped(to)
    /\ form' = [form EXCEPT !.step = "results",
                            !.results = [s \in scope.selected |->
                                IF s \in Skipped(to) THEN "skipped" ELSE "failed"]]
    /\ UNCHANGED <<seriesVars, published, list, heat, panel, scope, done, clicks, session>>

\* submitReEval: from a date or from the baseline; after a conflict with a
\* strategy, which only asks that there is a selection to send.
ConfirmReEvaluate ==
    /\ Editing
    /\ form.kind = "re-evaluate"
    /\ scope.selected # {}
    /\ \E op \in IF form.conflict THEN {"rescoreFromPin", "rescoreIgnoringPin"}
                 ELSE {"rescore", "rescoreFromBaseline"},
          from \in Columns, to \in Outcomes :
        LET ids == {r \in Rows : Slo(r) \in scope.selected /\ Column(r) >= from}
        IN  /\ ids # {}
            /\ Begin(mine, op, ids, to)
    /\ form' = [form EXCEPT !.step = "sending", !.conflict = FALSE,
                            !.results = [s \in scope.selected |-> "sent"]]
    /\ done' = {}
    /\ UNCHANGED <<published, list, heat, panel, scope, clicks, session>>

\* Mutant: the response leaves before the transaction commits.
Replied_Early == txn[mine].step \in {"written", "committed", "failed", "refused"}

Replied == txn[mine].step \in {"committed", "failed", "refused"}

\* runBatch: what the response names has succeeded, all else has failed.
Reported(succeeded) ==
    [s \in DOMAIN form.results |->
        IF form.results[s] = "skipped" THEN "skipped"
        ELSE IF s \in succeeded THEN "success" ELSE "failed"]

\* Where the form goes with a response; a re-evaluation that fails stays open
\* for correction.
AfterReply(succeeded) ==
    IF form.kind = "re-evaluate" /\ txn[mine].step \in {"failed", "refused"}
    THEN [form EXCEPT !.step = "edit", !.conflict = (txn[mine].step = "refused"),
                      !.results = [s \in {} |-> NULL]]
    ELSE [form EXCEPT !.step = "results", !.results = Reported(succeeded)]

Respond ==
    /\ form.step = "sending"
    /\ Replied
    /\ form' = AfterReply({Slo(r) : r \in txn[mine].chosen})
    /\ txn' = [txn EXCEPT ![mine] = IF txn[mine].step = "written" THEN @ ELSE IdleTxn]
    /\ UNCHANGED <<row, scored, commands, published, list, heat, panel, scope, done, clicks, session>>

\* The response is lost, or the request: every row counts as failed.
LoseResponse ==
    /\ form.step = "sending"
    /\ form' = IF form.kind = "re-evaluate"
               THEN [form EXCEPT !.step = "edit", !.results = [s \in {} |-> NULL]]
               ELSE [form EXCEPT !.step = "results", !.results = Reported({})]
    /\ UNCHANGED <<seriesVars, published, list, heat, panel, scope, done, clicks, session>>

Failed == {s \in DOMAIN form.results : form.results[s] = "failed"}

RetryFailed ==
    /\ form.step = "results"
    /\ Failed # {}
    /\ form.kind # "re-evaluate"
    /\ OnlyForm([scope EXCEPT !.selected = Failed, !.retried = TRUE],
                [form EXCEPT !.step = "edit", !.results = [s \in {} |-> NULL]])

-----------------------------------------------------------------------------
(* The server.                                                             *)

\* The statements of a form's command; what a form that is gone has asked for
\* ends unheard.
ServeMine ==
    /\ Statement(mine) \/ (form.step # "sending" /\ End(mine))
    /\ done' = IF txn[mine].step = "written" /\ txn'[mine].step = "committed"
               THEN txn[mine].chosen ELSE done
    /\ UNCHANGED <<published, list, heat, panel, scope, form, clicks, session>>

Other ==
    /\ Command(theirs, session.others) \/ Statement(theirs) \/ End(theirs)
    /\ UNCHANGED panelVars

PanelStep ==
    \/ ReceiveList \/ ReceiveHeat \/ Remount \/ CloseForm \/ PickSlos
    \/ \E to \in OverrideTargets : ConfirmBatch(to) \/ ConfirmLocally(to)
    \/ ConfirmReEvaluate
    \/ Respond \/ LoseResponse \/ RetryFailed
    \/ \E c \in Columns : Publish(c)
    \/ \E w \in Windows : SetWindow(w)
    \/ \E r \in Rows : ClickCell(r) \/ ClickTrend(r)
    \/ \E kind \in Kinds : OpenForm(kind)

Next == PanelStep \/ ServeMine \/ Other

Spec == Init /\ [][Next]_vars

-----------------------------------------------------------------------------
(* Properties.                                                             *)

\* An action form that is on screen acts on the column it was opened on or the
\* user has clicked since, whatever the queries answer meanwhile and whichever of
\* them answers first: the default evaluation moves to a new run or away from an
\* invalidated one, and the range leaves the column out, without another column
\* under an open form (AssetPanel.tsx:290, which closes it).
FormKeepsItsColumn == form.kind # NULL /\ Shown => Column_ = form.column

\* A row reported as a success is a row the command has committed
\* (run-batch.ts:15-19; the session commits before the response is sent).
SuccessMeansCommitted ==
    form.step = "results" /\ form.kind # "re-evaluate" =>
        \A s \in DOMAIN form.results :
            form.results[s] = "success" => \E r \in done : Slo(r) = s

\* What an action would be sent for are SLOs of the column on screen, although
\* the selection outlives forms, columns and refetches: only "Retry failed" can
\* bring back an SLO that has left the data since, for which the forms submit an
\* empty id (useSloScope.ts:84-94; the forms' sloEvaluationId ?? '').
SelectionFitsColumn == scope.selected \subseteq Available \/ scope.retried
=============================================================================
