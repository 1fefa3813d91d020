-------------------------- MODULE EvaluationSeries --------------------------
(***************************************************************************)
(* The finished evaluations of one asset and the commands that change them *)
(* afterwards: invalidate, restore, override, restore the override, pin,   *)
(* unpin and re-evaluate, each a transaction of several statements against *)
(* PostgreSQL at READ COMMITTED. A statement sees what is committed when   *)
(* it runs and what its own transaction wrote; an UPDATE waits for rows    *)
(* another transaction has written.                                        *)
(*                                                                         *)
(* A row is a pair of a column (a run, numbered by period) and an SLO; the *)
(* rows of one SLO are a series and share one baseline pin.                *)
(***************************************************************************)
EXTENDS Integers, FiniteSets

CONSTANTS
    Rows,         \* pairs <<column, SLO>> that were evaluated
    Outcomes,     \* results
    NULL,         \* SQL's
    Txns,         \* transactions
    Ops,          \* the commands that are given
    MaxCommands   \* bound: commands

\* Commands of the endpoints for one evaluation, which read the row into the
\* process first, and other families of commands.
Single == {"overrideOne", "restoreOverrideOne", "pinOne"}
Restoring == {"restoreOverride", "restoreOverrideOne"}
Pinning == {"pin", "pinOne"}

\* Re-evaluations differ in what they make of a pin: by default one after the
\* first column is a conflict, pin_strategy skips to it or ignores it,
\* from_baseline demands one.
Rescoring == {"rescore", "rescoreFromPin", "rescoreIgnoringPin", "rescoreFromBaseline"}

Commands ==
    {"invalidate", "restore", "override", "unpin"}
    \union Single \union Restoring \union Pinning \union Rescoring

ASSUME SeriesAssumption ==
    /\ Ops \subseteq Commands
    /\ \A r \in Rows : r = <<r[1], r[2]>> /\ r[1] \in Nat \ {NULL}
    /\ NULL \notin Outcomes \union Commands
    /\ MaxCommands \in Nat

VARIABLES
    row,        \* row[r]: the committed columns of slo_evaluations
    txn,        \* txn[t]: the transaction's command and its progress
    scored,     \* history: scored[r] are the results the engine has given r
    commands    \* commands so far

seriesVars == <<row, txn, scored, commands>>

Column(r) == r[1]
Slo(r) == r[2]

\* pin: baseline_pinned_at and baseline_unpinned_at, by what they say together
RowState == [result: Outcomes \union {NULL}, original: Outcomes \union {NULL},
             invalidated: BOOLEAN, pin: {"never", "active", "removed"}]

Steps == {"idle", "begun", "selected", "unpinned", "written", "committed", "failed", "refused"}

NoWrites == [r \in {} |-> NULL]

IdleTxn == [op |-> NULL, ids |-> {}, to |-> NULL, step |-> "idle", chosen |-> {},
            seen |-> NULL, writes |-> NoWrites]

SeriesTypeOK ==
    /\ row \in [Rows -> RowState]
    /\ \A t \in Txns :
        /\ txn[t].step \in Steps
        /\ txn[t].op \in Commands \union {NULL}
        /\ txn[t].ids \subseteq Rows
        /\ txn[t].chosen \subseteq Rows
        /\ \A r \in DOMAIN txn[t].writes : txn[t].writes[r] \in RowState
    /\ scored \in [Rows -> SUBSET Outcomes]
    /\ commands \in 0..MaxCommands

SeriesInit ==
    /\ \E result \in Outcomes :
        /\ row = [r \in Rows |-> [result |-> result, original |-> NULL,
                                  invalidated |-> FALSE, pin |-> "never"]]
        /\ scored = [r \in Rows |-> {result}]
    /\ txn = [t \in Txns |-> IdleTxn]
    /\ commands = 0

-----------------------------------------------------------------------------
(* Transactions.                                                           *)

View(t, r) == IF r \in DOMAIN txn[t].writes THEN txn[t].writes[r] ELSE row[r]

Unlocked(t, ids) == \A u \in Txns \ {t} : DOMAIN txn[u].writes \cap ids = {}

\* The transaction's writes after an UPDATE of ids that makes row x F(x).
Written(t, ids, F(_)) ==
    [r \in DOMAIN txn[t].writes \union ids |->
        IF r \in ids THEN F(View(t, r)) ELSE txn[t].writes[r]]

Begin(t, op, ids, to) ==
    /\ txn[t].step = "idle"
    /\ commands < MaxCommands
    /\ commands' = commands + 1
    /\ txn' = [txn EXCEPT ![t] = [IdleTxn EXCEPT !.op = op, !.ids = ids, !.to = to,
                                                 !.step = "begun"]]
    /\ UNCHANGED <<row, scored>>

Active(ids) == {r \in ids : row[r].pin = "active"}
Series(ids) == {r \in Rows : \E x \in ids : Slo(x) = Slo(r)}

\* pin_baseline_many keeps the newest eligible row of each series.
PinTargets(ids) ==
    LET eligible == {r \in ids : ~row[r].invalidated}
    IN  {r \in eligible : \A x \in eligible : Slo(x) = Slo(r) => Column(x) <= Column(r)}

From(ids) == CHOOSE c \in {Column(r) : r \in ids} : \A x \in ids : c <= Column(x)

\* get_active_pin raises if a series has two.
PinsReadable(ids) == \A r \in ids : Cardinality(Active(Series({r}))) <= 1

LaterPins(ids) == {p \in Active(Series(ids)) : From(ids) < Column(p)}

\* load_evaluations_for_reeval leaves invalidated rows out, pinned or not.
Anchors(r) == {p \in Active(Series({r})) : ~row[p].invalidated}

\* What becomes of a re-evaluation before it loads the rows: ValueError and a
\* second pin fail it, a conflict refuses it (409).
RescoreStep(op, ids) ==
    CASE op = "rescoreFromBaseline" /\ (\E r \in ids : Anchors(r) = {}) -> "failed"
      [] op # "rescoreFromBaseline" /\ ~PinsReadable(ids)               -> "failed"
      [] op = "rescore" /\ LaterPins(ids) # {}                          -> "refused"
      [] OTHER                                                          -> "selected"

\* The first column to score again, per series.
RescoreFrom(op, ids, r) ==
    LET later == LaterPins(ids) \cap Series({r})
    IN  CASE op = "rescoreFromBaseline"          -> Column(CHOOSE p \in Anchors(r) :
                                                        \A x \in Anchors(r) : Column(x) <= Column(p))
          [] op = "rescoreFromPin" /\ later # {} -> From(later)
          [] OTHER                              -> From(ids)

\* The rows a command's first SELECT returns.
Selected(op, ids) ==
    CASE op \in Restoring -> {r \in ids : row[r].original # NULL}
      [] op = "pin"       -> PinTargets(ids)
      [] op \in Rescoring -> {r \in Series(ids) : ~row[r].invalidated
                                                /\ Column(r) >= RescoreFrom(op, ids, r)}
      [] OTHER            -> ids

Select(t) ==
    /\ txn[t].step = "begun"
    /\ txn[t].op \in {"override"} \union Single \union Restoring \union Pinning \union Rescoring
    /\ LET op == txn[t].op
           ids == txn[t].ids
           outcome == IF op \in Rescoring THEN RescoreStep(op, ids) ELSE "selected"
           chosen == IF outcome = "selected" THEN Selected(op, ids) ELSE {}
       IN  txn' = [txn EXCEPT
            ![t].step = IF outcome = "selected" /\ chosen = {} THEN "written" ELSE outcome,
            ![t].chosen = chosen,
            ![t].seen = IF op \in Single THEN [r \in chosen |-> row[r]] ELSE NULL]
    /\ UNCHANGED <<row, scored, commands>>

\* pin_baseline_many: the UPDATE that ends the pins the series have.
Unpin(t) ==
    /\ txn[t].step = "selected"
    /\ txn[t].op \in Pinning
    /\ LET old == Active(Series(txn[t].chosen))
       IN  /\ Unlocked(t, old)
           /\ txn' = [txn EXCEPT ![t].step = "unpinned",
                        ![t].writes = Written(t, old, LAMBDA x : [x EXCEPT !.pin = "removed"])]
    /\ UNCHANGED <<row, scored, commands>>

\* Mutant: every override records the result it replaces.
Overridden_Again(x, to) == [x EXCEPT !.result = to, !.original = x.result]

\* COALESCE(original_result, result): the first override wins.
Overridden(x, to) ==
    [x EXCEPT !.result = to, !.original = IF x.original = NULL THEN x.result ELSE x.original]

\* override_status decides from the row it has read.
OverriddenAsRead(x, to, read) ==
    [x EXCEPT !.result = to,
              !.original = IF read.original = NULL THEN read.result ELSE x.original]

\* What the command's UPDATE makes of row r with content x.
Changed(t, r, x) ==
    CASE txn[t].op = "invalidate"      -> [x EXCEPT !.invalidated = TRUE]
      [] txn[t].op = "restore"         -> [x EXCEPT !.invalidated = FALSE]
      [] txn[t].op = "override"        -> Overridden(x, txn[t].to)
      [] txn[t].op = "overrideOne"     -> OverriddenAsRead(x, txn[t].to, txn[t].seen[r])
      [] txn[t].op = "restoreOverride" -> [x EXCEPT !.result = x.original, !.original = NULL]
      [] txn[t].op = "restoreOverrideOne" ->
            [x EXCEPT !.result = txn[t].seen[r].original, !.original = NULL]
      [] txn[t].op \in Pinning         -> [x EXCEPT !.pin = "active"]
      [] txn[t].op = "unpin"           -> [x EXCEPT !.pin = "removed"]
      [] txn[t].op \in Rescoring       -> [x EXCEPT !.result = txn[t].to]

\* The command's UPDATE, of the rows it selected or simply of the ids given.
Ready(t) ==
    CASE txn[t].op \in {"invalidate", "restore", "unpin"} -> txn[t].step = "begun"
      [] txn[t].op \in Pinning                            -> txn[t].step = "unpinned"
      [] OTHER                                            -> txn[t].step = "selected"

Update(t) ==
    /\ txn[t].op # NULL
    /\ Ready(t)
    /\ LET ids == IF txn[t].step = "begun" THEN txn[t].ids ELSE txn[t].chosen
       IN  /\ Unlocked(t, ids)
           /\ txn' = [txn EXCEPT
                ![t].step = "written",
                ![t].chosen = ids,
                ![t].writes = [r \in DOMAIN txn[t].writes \union ids |->
                    IF r \in ids THEN Changed(t, r, View(t, r)) ELSE txn[t].writes[r]]]
    /\ UNCHANGED <<row, scored, commands>>

\* SessionMiddleware commits; the response names the rows in chosen.
CommitTxn(t) ==
    /\ txn[t].step = "written"
    /\ row' = [r \in Rows |-> View(t, r)]
    /\ scored' = [r \in Rows |->
        IF txn[t].op \in Rescoring /\ r \in txn[t].chosen THEN scored[r] \union {txn[t].to}
        ELSE scored[r]]
    /\ txn' = [txn EXCEPT ![t].step = "committed", ![t].writes = NoWrites]
    /\ UNCHANGED commands

\* An error, or a deadlock that run_with_deadlock_retry gave up on.
AbortTxn(t) ==
    /\ txn[t].step \in {"begun", "selected", "unpinned", "written"}
    /\ txn' = [txn EXCEPT ![t].step = "failed", ![t].chosen = {}, ![t].writes = NoWrites]
    /\ UNCHANGED <<row, scored, commands>>

End(t) ==
    /\ txn[t].step \in {"committed", "failed", "refused"}
    /\ txn' = [txn EXCEPT ![t] = IdleTxn]
    /\ UNCHANGED <<row, scored, commands>>

\* A command of any user: rows of one column, or for a re-evaluation the rows
\* of some series from one column on.
Targets(op) ==
    IF op \in Rescoring
    THEN {{r \in Rows : Slo(r) \in slos /\ Column(r) >= from} :
            slos \in SUBSET {Slo(r) : r \in Rows}, from \in {Column(r) : r \in Rows}} \ {{}}
    ELSE UNION {SUBSET {r \in Rows : Column(r) = c} : c \in {Column(r) : r \in Rows}} \ {{}}

Command(t, ops) ==
    \E op \in ops :
        \E ids \in Targets(op) :
            \E to \in IF op \in {"override", "overrideOne"} \union Rescoring
                       THEN Outcomes ELSE {NULL} :
                /\ op \in Single => Cardinality(ids) = 1
                /\ Begin(t, op, ids, to)

Statement(t) == Select(t) \/ Unpin(t) \/ Update(t) \/ CommitTxn(t) \/ AbortTxn(t)

SeriesNext == \E t \in Txns : Command(t, Ops) \/ Statement(t) \/ End(t)

SeriesSpec == SeriesInit /\ [][SeriesNext]_seriesVars

-----------------------------------------------------------------------------
(* Properties.                                                             *)

\* What the engine said of a row is never lost to overrides, whoever overrides
\* it how often and however a lost response makes a form repeat them: the row
\* shows an engine's result or keeps one as its original
\* (evaluation.py:678, "first override wins").
EngineResultKept ==
    \A r \in Rows : row[r].result \in scored[r] \/ row[r].original \in scored[r]

\* The docstring at evaluation.py:749: "at most one active pin survives per
\* group".
OneActivePin == \A r \in Rows : Cardinality(Active(Series({r}))) <= 1
=============================================================================
