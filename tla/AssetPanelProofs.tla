-------------------------- MODULE AssetPanelProofs --------------------------
(***************************************************************************)
(* Proofs about AssetPanel for any rows, SLOs, time ranges and sessions:   *)
(* the form, the selection and the report of a command are always about    *)
(* what is on screen and what was committed, and the engine's results      *)
(* survive the forms.                                                      *)
(***************************************************************************)
EXTENDS AssetPanel, TLAPS

-----------------------------------------------------------------------------
(* The rows: their inductive invariant.                                    *)

Contents == UNION {[ids -> RowState] : ids \in SUBSET Rows}

TxnState ==
    [op: Commands \union {NULL}, ids: SUBSET Rows, to: Outcomes \union {NULL}, step: Steps,
     chosen: SUBSET Rows, seen: Contents \union {NULL}, writes: Contents]

SeriesShape ==
    /\ row \in [Rows -> RowState]
    /\ txn \in [Txns -> TxnState]
    /\ scored \in [Rows -> SUBSET Outcomes]
    /\ commands \in 0..MaxCommands

(* A row with content x has kept one of the results said.                  *)
Keeps(x, said) == x.original \in said \/ (x.original = NULL /\ x.result \in said)

(* The result a finished re-evaluation will add to those of row r.         *)
Adding(t, r) ==
    IF txn[t].step = "written" /\ txn[t].op \in Rescoring /\ r \in txn[t].chosen
    THEN {txn[t].to} ELSE {}

RowsKeep == \A r \in Rows : Keeps(row[r], scored[r])

(* What a transaction has written and not committed keeps a result, and    *)
(* does not take back that the row is overridden.                          *)
WritesKeep ==
    \A t \in Txns : \A r \in DOMAIN txn[t].writes :
        /\ Keeps(txn[t].writes[r], scored[r] \union Adding(t, r))
        /\ row[r].original # NULL => txn[t].writes[r].original # NULL

(* A row is written by one transaction at a time.                          *)
RowsLocked ==
    \A t, u \in Txns : t # u => DOMAIN txn[t].writes \cap DOMAIN txn[u].writes = {}

(* What override_status has read may be old, but what it calls overridden  *)
(* still is.                                                               *)
ReadsKeep ==
    \A t \in Txns : txn[t].op = "overrideOne" /\ txn[t].step = "selected" =>
        /\ txn[t].seen \in [txn[t].chosen -> RowState]
        /\ \A r \in txn[t].chosen :
            /\ Keeps(txn[t].seen[r], scored[r])
            /\ txn[t].seen[r].original # NULL => row[r].original # NULL

(* Nobody restores an override, and a re-evaluation has a result to give.  *)
CommandsPlain ==
    \A t \in Txns : /\ txn[t].op \notin Restoring
                    /\ txn[t].op \in Rescoring => txn[t].to \in Outcomes

KeptInv ==
    /\ SeriesShape
    /\ RowsKeep
    /\ WritesKeep
    /\ RowsLocked
    /\ ReadsKeep
    /\ CommandsPlain

-----------------------------------------------------------------------------
(* Contents of rows.                                                       *)

LEMMA ContentsElim ==
  ASSUME NEW f \in Contents
  PROVE  DOMAIN f \in SUBSET Rows /\ f \in [DOMAIN f -> RowState]
  BY DEF Contents

LEMMA ContentsIntro ==
  ASSUME NEW ids \in SUBSET Rows, NEW f \in [ids -> RowState]
  PROVE  f \in Contents
  BY DEF Contents

LEMMA NoWritesTyped == NoWrites \in Contents /\ DOMAIN NoWrites = {}
<1>1. NoWrites \in [{} -> RowState]
  BY DEF NoWrites
<1> QED
  BY <1>1, ContentsIntro

LEMMA IdleTxnTyped == IdleTxn \in TxnState /\ IdleTxn.writes = NoWrites
  BY NoWritesTyped DEF IdleTxn, TxnState, Steps

LEMMA ViewTyped ==
  ASSUME SeriesShape, NEW t \in Txns, NEW r \in Rows
  PROVE  View(t, r) \in RowState
<1>1. txn[t].writes \in Contents
  BY DEF SeriesShape, TxnState
<1> QED
  BY <1>1, ContentsElim DEF View, SeriesShape

-----------------------------------------------------------------------------
(* Steps.                                                                  *)

\* A step of transaction t that writes no row, in the transaction or for good.
LEMMA WritelessStep ==
  ASSUME KeptInv, NEW t \in Txns, SeriesShape',
         UNCHANGED <<row, scored>>,
         \A u \in Txns \ {t} : txn'[u] = txn[u],
         \/ DOMAIN txn'[t].writes = {}
         \/ txn'[t].writes = txn[t].writes /\ txn[t].step # "written",
         txn'[t].op \notin Restoring,
         txn'[t].op \in Rescoring => txn'[t].to \in Outcomes,
         txn'[t].op = "overrideOne" /\ txn'[t].step = "selected" =>
            txn'[t].seen = [r \in txn'[t].chosen |-> row[r]]
  PROVE  KeptInv'
<1>1. RowsKeep'
  BY DEF KeptInv, RowsKeep
<1>2. WritesKeep'
  <2> SUFFICES ASSUME NEW u \in Txns, NEW r \in DOMAIN txn'[u].writes
               PROVE  /\ Keeps(txn'[u].writes[r], scored[r] \union Adding(u, r)')
                      /\ row[r].original # NULL => txn'[u].writes[r].original # NULL
    BY DEF WritesKeep
  <2>1. CASE u # t
    BY <2>1 DEF KeptInv, WritesKeep, Adding
  <2>2. CASE u = t
    <3>1. txn'[t].writes = txn[t].writes /\ txn[t].step # "written"
      BY <2>2
    <3>2. Keeps(txn[t].writes[r], scored[r] \union {})
      BY <2>2, <3>1 DEF KeptInv, WritesKeep, Adding
    <3> QED
      BY <2>2, <3>1, <3>2 DEF KeptInv, WritesKeep, Keeps
  <2> QED
    BY <2>1, <2>2
<1>3. RowsLocked'
  BY DEF KeptInv, RowsLocked
<1>4. ReadsKeep'
  <2> SUFFICES ASSUME NEW u \in Txns, txn'[u].op = "overrideOne", txn'[u].step = "selected"
               PROVE  /\ txn'[u].seen \in [txn'[u].chosen -> RowState]
                      /\ \A r \in txn'[u].chosen :
                            /\ Keeps(txn'[u].seen[r], scored[r])
                            /\ txn'[u].seen[r].original # NULL => row[r].original # NULL
    BY DEF ReadsKeep
  <2>1. CASE u # t
    BY <2>1 DEF KeptInv, ReadsKeep
  <2>2. CASE u = t
    <3>1. txn'[t].chosen \in SUBSET Rows
      BY DEF SeriesShape, TxnState
    <3> QED
      BY <2>2, <3>1 DEF KeptInv, RowsKeep, SeriesShape
  <2> QED
    BY <2>1, <2>2
<1>5. CommandsPlain'
  BY DEF KeptInv, CommandsPlain
<1> QED
  BY <1>1, <1>2, <1>3, <1>4, <1>5 DEF KeptInv

LEMMA BeginKeeps ==
  ASSUME KeptInv, NEW t \in Txns, NEW op \in Commands \ Restoring, NEW ids \in SUBSET Rows,
         NEW to \in Outcomes \union {NULL}, op \in Rescoring => to \in Outcomes,
         Begin(t, op, ids, to)
  PROVE  KeptInv'
<1>1. /\ [IdleTxn EXCEPT !.op = op, !.ids = ids, !.to = to, !.step = "begun"] \in TxnState
      /\ [IdleTxn EXCEPT !.op = op, !.ids = ids, !.to = to, !.step = "begun"].writes = NoWrites
      /\ [IdleTxn EXCEPT !.op = op, !.ids = ids, !.to = to, !.step = "begun"].op = op
      /\ [IdleTxn EXCEPT !.op = op, !.ids = ids, !.to = to, !.step = "begun"].to = to
      /\ [IdleTxn EXCEPT !.op = op, !.ids = ids, !.to = to, !.step = "begun"].step = "begun"
  BY NoWritesTyped DEF IdleTxn, TxnState, Steps
<1>2. SeriesShape'
  BY <1>1, SeriesAssumption DEF Begin, KeptInv, SeriesShape
<1> QED
  BY <1>1, <1>2, WritelessStep, NoWritesTyped DEF Begin, KeptInv, SeriesShape

LEMMA EndKeeps ==
  ASSUME KeptInv, NEW t \in Txns, End(t)
  PROVE  KeptInv'
<1>0. NULL \notin Restoring \union Rescoring
  BY SeriesAssumption DEF Commands
<1>1. SeriesShape'
  BY IdleTxnTyped DEF End, KeptInv, SeriesShape
<1> QED
  BY <1>0, <1>1, IdleTxnTyped, WritelessStep, NoWritesTyped DEF End, KeptInv, SeriesShape, IdleTxn

LEMMA AbortKeeps ==
  ASSUME KeptInv, NEW t \in Txns, AbortTxn(t)
  PROVE  KeptInv'
<1> DEFINE x == [txn[t] EXCEPT !.step = "failed", !.chosen = {}, !.writes = NoWrites]
<1>1. x \in TxnState /\ x.writes = NoWrites /\ x.op = txn[t].op /\ x.to = txn[t].to
      /\ x.step = "failed"
  BY NoWritesTyped DEF KeptInv, SeriesShape, TxnState, Steps
<1>2. txn' = [txn EXCEPT ![t] = x]
  BY DEF AbortTxn
<1> HIDE DEF x
<1>3. SeriesShape'
  BY <1>1, <1>2 DEF AbortTxn, KeptInv, SeriesShape
<1>4. txn'[t] = x /\ \A u \in Txns \ {t} : txn'[u] = txn[u]
  BY <1>2 DEF KeptInv, SeriesShape
<1>5. UNCHANGED <<row, scored>>
  BY DEF AbortTxn
<1>6. x.op \notin Restoring /\ (x.op \in Rescoring => x.to \in Outcomes)
  BY <1>1 DEF KeptInv, CommandsPlain
<1> QED
  BY <1>1, <1>3, <1>4, <1>5, <1>6, WritelessStep, NoWritesTyped

LEMMA SelectKeeps ==
  ASSUME KeptInv, NEW t \in Txns, Select(t)
  PROVE  KeptInv'
<1> DEFINE outcome == IF txn[t].op \in Rescoring THEN RescoreStep(txn[t].op, txn[t].ids)
                      ELSE "selected"
           chosen == IF outcome = "selected" THEN Selected(txn[t].op, txn[t].ids) ELSE {}
           step == IF outcome = "selected" /\ chosen = {} THEN "written" ELSE outcome
           seen == IF txn[t].op \in Single THEN [r \in chosen |-> row[r]] ELSE NULL
           x == [txn[t] EXCEPT !.step = step, !.chosen = chosen, !.seen = seen]
<1>1. step \in Steps
  BY DEF RescoreStep, Steps
<1>2. chosen \in SUBSET Rows
  <2>1. txn[t].ids \in SUBSET Rows
    BY DEF KeptInv, SeriesShape, TxnState
  <2> QED
    BY <2>1 DEF Selected, PinTargets, Series
<1>3. seen \in Contents \union {NULL}
  BY <1>2, ContentsIntro DEF KeptInv, SeriesShape
<1>4. txn' = [txn EXCEPT ![t] = x] /\ UNCHANGED <<row, scored, commands>>
  BY DEF Select
<1> HIDE DEF outcome, chosen, step
<1>5. /\ x \in TxnState /\ x.writes = txn[t].writes /\ x.op = txn[t].op /\ x.to = txn[t].to
      /\ x.step = step /\ x.chosen = chosen /\ x.seen = seen
  BY <1>1, <1>2, <1>3 DEF KeptInv, SeriesShape, TxnState
<1> HIDE DEF x
<1>6. SeriesShape'
  BY <1>4, <1>5 DEF KeptInv, SeriesShape
<1>7. txn[t].op = "overrideOne" => seen = [r \in chosen |-> row[r]]
  BY DEF Single
<1> HIDE DEF seen
<1>8. txn[t].step # "written"
  BY DEF Select
<1> QED
  BY <1>4, <1>5, <1>6, <1>7, <1>8, WritelessStep DEF KeptInv, SeriesShape, CommandsPlain

\* A statement of transaction t that writes the rows ids in the transaction,
\* which no other transaction has written.
LEMMA WritingStep ==
  ASSUME KeptInv, NEW t \in Txns, SeriesShape', NEW ids \in SUBSET Rows,
         UNCHANGED <<row, scored>>,
         Unlocked(t, ids),
         \A u \in Txns \ {t} : txn'[u] = txn[u],
         txn[t].step # "written",
         txn'[t].op = txn[t].op, txn'[t].to = txn[t].to,
         txn'[t].step = "selected" => txn[t].op # "overrideOne",
         DOMAIN txn'[t].writes = DOMAIN txn[t].writes \union ids,
         \A r \in DOMAIN txn[t].writes \ ids : txn'[t].writes[r] = txn[t].writes[r],
         \A r \in ids :
            /\ Keeps(txn'[t].writes[r], scored[r] \union Adding(t, r)')
            /\ View(t, r).original # NULL => txn'[t].writes[r].original # NULL
  PROVE  KeptInv'
<1>1. RowsKeep'
  BY DEF KeptInv, RowsKeep
<1>2. WritesKeep'
  <2> SUFFICES ASSUME NEW u \in Txns, NEW r \in DOMAIN txn'[u].writes
               PROVE  /\ Keeps(txn'[u].writes[r], scored[r] \union Adding(u, r)')
                      /\ row[r].original # NULL => txn'[u].writes[r].original # NULL
    BY DEF WritesKeep
  <2>1. CASE u # t
    BY <2>1 DEF KeptInv, WritesKeep, Adding
  <2>2. CASE u = t /\ r \in ids
    <3>1. row[r].original # NULL => View(t, r).original # NULL
      BY <2>2 DEF KeptInv, WritesKeep, View
    <3> QED
      BY <2>2, <3>1
  <2>3. CASE u = t /\ r \notin ids
    <3>1. r \in DOMAIN txn[t].writes /\ txn'[t].writes[r] = txn[t].writes[r]
      BY <2>3
    <3>2. Keeps(txn[t].writes[r], scored[r] \union {})
      BY <3>1 DEF KeptInv, WritesKeep, Adding
    <3> QED
      BY <2>3, <3>1, <3>2 DEF KeptInv, WritesKeep, Keeps
  <2> QED
    BY <2>1, <2>2, <2>3
<1>3. RowsLocked'
  <2>1. \A u \in Txns \ {t} : DOMAIN txn[u].writes \cap ids = {}
    BY DEF Unlocked
  <2> QED
    BY <2>1 DEF KeptInv, RowsLocked
<1>4. ReadsKeep'
  BY DEF KeptInv, ReadsKeep
<1>5. CommandsPlain'
  BY DEF KeptInv, CommandsPlain
<1> QED
  BY <1>1, <1>2, <1>3, <1>4, <1>5 DEF KeptInv

\* What a transaction sees of a row before it is done has kept a result.
LEMMA ViewKeeps ==
  ASSUME KeptInv, NEW t \in Txns, NEW r \in Rows, txn[t].step # "written"
  PROVE  Keeps(View(t, r), scored[r])
<1>1. CASE r \in DOMAIN txn[t].writes
  <2>1. Keeps(txn[t].writes[r], scored[r] \union {})
    BY <1>1 DEF KeptInv, WritesKeep, Adding
  <2> QED
    BY <1>1, <2>1 DEF View, Keeps
<1>2. CASE r \notin DOMAIN txn[t].writes
  BY <1>2 DEF KeptInv, RowsKeep, View
<1> QED
  BY <1>1, <1>2

LEMMA UnpinKeeps ==
  ASSUME KeptInv, NEW t \in Txns, Unpin(t)
  PROVE  KeptInv'
<1> DEFINE old == Active(Series(txn[t].chosen))
           writes == [r \in DOMAIN txn[t].writes \union old |->
                        IF r \in old THEN [View(t, r) EXCEPT !.pin = "removed"]
                        ELSE txn[t].writes[r]]
           x == [txn[t] EXCEPT !.step = "unpinned", !.writes = writes]
<1>1. old \in SUBSET Rows
  BY DEF Active, Series
<1>2. Unlocked(t, old) /\ txn[t].step = "selected" /\ UNCHANGED <<row, scored, commands>>
  BY DEF Unpin
<1>3. txn' = [txn EXCEPT ![t] = x]
  BY DEF Unpin, Written
<1> HIDE DEF old
<1>4. txn[t].writes \in Contents /\ txn[t] \in TxnState
  BY DEF KeptInv, SeriesShape, TxnState
<1>5. \A r \in old : /\ [View(t, r) EXCEPT !.pin = "removed"] \in RowState
                     /\ [View(t, r) EXCEPT !.pin = "removed"].original = View(t, r).original
                     /\ [View(t, r) EXCEPT !.pin = "removed"].result = View(t, r).result
  BY <1>1, ViewTyped DEF RowState, KeptInv
<1>6. writes \in Contents
  <2>1. DOMAIN txn[t].writes \union old \in SUBSET Rows
    BY <1>1, <1>4, ContentsElim
  <2>2. writes \in [DOMAIN txn[t].writes \union old -> RowState]
    BY <1>4, <1>5, ContentsElim
  <2> QED
    BY <2>1, <2>2, ContentsIntro
<1>7. \A r \in old : /\ Keeps(writes[r], scored[r])
                     /\ View(t, r).original # NULL => writes[r].original # NULL
  BY <1>1, <1>2, <1>5, ViewKeeps DEF Keeps
<1>8. /\ DOMAIN writes = DOMAIN txn[t].writes \union old
      /\ \A r \in DOMAIN txn[t].writes \ old : writes[r] = txn[t].writes[r]
  OBVIOUS
<1> HIDE DEF writes
<1>9. x \in TxnState /\ x.writes = writes /\ x.op = txn[t].op /\ x.to = txn[t].to
      /\ x.step = "unpinned"
  BY <1>4, <1>6 DEF TxnState, Steps
<1> HIDE DEF x
<1>10. SeriesShape'
  BY <1>2, <1>3, <1>9 DEF KeptInv, SeriesShape
<1>11. txn'[t] = x /\ \A u \in Txns \ {t} : txn'[u] = txn[u]
  BY <1>3 DEF KeptInv, SeriesShape
<1>12. \A r \in old : Keeps(writes[r], scored[r] \union Adding(t, r)')
  BY <1>7 DEF Keeps
<1> QED
  BY <1>1, <1>2, <1>7, <1>8, <1>9, <1>10, <1>11, <1>12, WritingStep

\* What a command's UPDATE makes of a row keeps a result, the new one of a
\* re-evaluation included, and leaves an overridden row overridden.
LEMMA ChangedKeeps ==
  ASSUME KeptInv, NEW t \in Txns, NEW r \in Rows, NEW x \in RowState,
         Keeps(x, scored[r]), row[r].original # NULL => x.original # NULL,
         txn[t].op \in Commands,
         txn[t].op = "overrideOne" =>
            /\ txn[t].seen[r] \in RowState
            /\ Keeps(txn[t].seen[r], scored[r])
            /\ txn[t].seen[r].original # NULL => row[r].original # NULL
  PROVE  /\ Changed(t, r, x) \in RowState
         /\ Keeps(Changed(t, r, x), scored[r] \union (IF txn[t].op \in Rescoring
                                                      THEN {txn[t].to} ELSE {}))
         /\ x.original # NULL => Changed(t, r, x).original # NULL
<1> USE DEF Keeps
<1>1. /\ txn[t].to \in Outcomes \union {NULL} /\ NULL \notin scored[r]
      /\ txn[t].op \notin Restoring
  BY SeriesAssumption DEF KeptInv, SeriesShape, TxnState, CommandsPlain
<1>2. CASE txn[t].op \in {"invalidate", "restore"} \union Pinning \union {"unpin"}
  <2>1. \/ Changed(t, r, x) = [x EXCEPT !.invalidated = TRUE]
        \/ Changed(t, r, x) = [x EXCEPT !.invalidated = FALSE]
        \/ Changed(t, r, x) = [x EXCEPT !.pin = "active"]
        \/ Changed(t, r, x) = [x EXCEPT !.pin = "removed"]
    <3>1. CASE txn[t].op = "invalidate"
      BY <3>1 DEF Changed, Pinning, Rescoring
    <3>2. CASE txn[t].op = "restore"
      BY <3>2 DEF Changed, Pinning, Rescoring
    <3>3. CASE txn[t].op \in Pinning
      BY <3>3 DEF Changed, Pinning, Rescoring
    <3>4. CASE txn[t].op = "unpin"
      BY <3>4 DEF Changed, Pinning, Rescoring
    <3> QED
      BY <1>2, <3>1, <3>2, <3>3, <3>4
  <2>2. /\ Changed(t, r, x) \in RowState /\ Changed(t, r, x).original = x.original
        /\ Changed(t, r, x).result = x.result
    BY <2>1 DEF RowState
  <2> QED
    BY <2>2
<1>3. CASE txn[t].op = "override"
  <2>1. Changed(t, r, x) = Overridden(x, txn[t].to)
    BY <1>3 DEF Changed, Pinning, Rescoring
  <2>2. /\ Overridden(x, txn[t].to) \in RowState
        /\ Overridden(x, txn[t].to).original = IF x.original = NULL THEN x.result ELSE x.original
    BY <1>1 DEF Overridden, RowState
  <2> QED
    BY <1>1, <2>1, <2>2
<1>4. CASE txn[t].op = "overrideOne"
  <2> DEFINE read == txn[t].seen[r]
  <2>1. Changed(t, r, x) = OverriddenAsRead(x, txn[t].to, read)
    BY <1>4 DEF Changed, Pinning, Rescoring
  <2>2. read \in RowState /\ Keeps(read, scored[r])
        /\ (read.original # NULL => row[r].original # NULL)
    BY <1>4
  <2> HIDE DEF read
  <2>3. /\ OverriddenAsRead(x, txn[t].to, read) \in RowState
        /\ OverriddenAsRead(x, txn[t].to, read).original
                = IF read.original = NULL THEN read.result ELSE x.original
    BY <1>1, <2>2 DEF OverriddenAsRead, RowState
  <2> QED
    BY <1>1, <2>1, <2>2, <2>3
<1>5. CASE txn[t].op \in Rescoring
  <2>1. Changed(t, r, x) = [x EXCEPT !.result = txn[t].to]
    BY <1>5 DEF Changed, Rescoring, Pinning
  <2>2. /\ [x EXCEPT !.result = txn[t].to] \in RowState
        /\ [x EXCEPT !.result = txn[t].to].original = x.original
        /\ [x EXCEPT !.result = txn[t].to].result = txn[t].to
    BY <1>1 DEF RowState
  <2> QED
    BY <1>5, <2>1, <2>2
<1> QED
  BY <1>1, <1>2, <1>3, <1>4, <1>5 DEF Commands, Single, Restoring, Pinning

LEMMA UpdateKeeps ==
  ASSUME KeptInv, NEW t \in Txns, Update(t)
  PROVE  KeptInv'
<1> DEFINE ids == IF txn[t].step = "begun" THEN txn[t].ids ELSE txn[t].chosen
           writes == [r \in DOMAIN txn[t].writes \union ids |->
                        IF r \in ids THEN Changed(t, r, View(t, r)) ELSE txn[t].writes[r]]
           x == [txn[t] EXCEPT !.step = "written", !.chosen = ids, !.writes = writes]
<1>1. ids \in SUBSET Rows /\ txn[t] \in TxnState /\ txn[t].writes \in Contents
  BY DEF KeptInv, SeriesShape, TxnState
<1>2. /\ Unlocked(t, ids) /\ UNCHANGED <<row, scored, commands>>
      /\ txn' = [txn EXCEPT ![t] = x]
  BY DEF Update
<1>3. txn[t].op \in Commands /\ txn[t].step \in {"begun", "selected", "unpinned"}
      /\ (txn[t].op = "overrideOne" => txn[t].step = "selected")
  BY DEF Update, Ready, KeptInv, SeriesShape, TxnState, Pinning
<1>4. ASSUME NEW r \in ids
      PROVE  /\ Changed(t, r, View(t, r)) \in RowState
             /\ Keeps(Changed(t, r, View(t, r)), scored[r] \union
                        (IF txn[t].op \in Rescoring THEN {txn[t].to} ELSE {}))
             /\ View(t, r).original # NULL => Changed(t, r, View(t, r)).original # NULL
  <2>1. View(t, r) \in RowState /\ Keeps(View(t, r), scored[r]) /\ r \in Rows
    BY <1>1, <1>3, ViewTyped, ViewKeeps DEF KeptInv
  <2>2. row[r].original # NULL => View(t, r).original # NULL
    BY DEF View, KeptInv, WritesKeep
  <2>3. txn[t].op = "overrideOne" =>
            /\ txn[t].seen[r] \in RowState
            /\ Keeps(txn[t].seen[r], scored[r])
            /\ txn[t].seen[r].original # NULL => row[r].original # NULL
    BY <1>3 DEF KeptInv, ReadsKeep
  <2> QED
    BY <1>3, <2>1, <2>2, <2>3, ChangedKeeps
<1> HIDE DEF ids
<1>5. writes \in Contents
  <2>1. DOMAIN txn[t].writes \union ids \in SUBSET Rows
    BY <1>1, ContentsElim
  <2>2. writes \in [DOMAIN txn[t].writes \union ids -> RowState]
    BY <1>1, <1>4, ContentsElim
  <2> QED
    BY <2>1, <2>2, ContentsIntro
<1>6. \A r \in ids : /\ Keeps(writes[r], scored[r] \union
                            (IF txn[t].op \in Rescoring THEN {txn[t].to} ELSE {}))
                     /\ View(t, r).original # NULL => writes[r].original # NULL
  BY <1>4
<1>7. /\ DOMAIN writes = DOMAIN txn[t].writes \union ids
      /\ \A r \in DOMAIN txn[t].writes \ ids : writes[r] = txn[t].writes[r]
  OBVIOUS
<1> HIDE DEF writes
<1>8. /\ x \in TxnState /\ x.writes = writes /\ x.op = txn[t].op /\ x.to = txn[t].to
      /\ x.step = "written" /\ x.chosen = ids
  BY <1>1, <1>5 DEF TxnState, Steps
<1> HIDE DEF x
<1>9. SeriesShape'
  BY <1>2, <1>8 DEF KeptInv, SeriesShape
<1>10. txn'[t] = x /\ \A u \in Txns \ {t} : txn'[u] = txn[u]
  BY <1>2 DEF KeptInv, SeriesShape
<1>11. \A r \in ids : Keeps(writes[r], scored[r] \union Adding(t, r)')
  BY <1>6, <1>8, <1>10 DEF Adding
<1>12. txn[t].step # "written" /\ txn'[t].step = "written"
  BY <1>3, <1>8, <1>10
<1>13. txn'[t].op = txn[t].op /\ txn'[t].to = txn[t].to /\ txn'[t].writes = writes
  BY <1>8, <1>10
<1>14. \A r \in ids :
        /\ Keeps(txn'[t].writes[r], scored[r] \union Adding(t, r)')
        /\ View(t, r).original # NULL => txn'[t].writes[r].original # NULL
  BY <1>6, <1>11, <1>13
<1>15. \A u \in Txns \ {t} : txn'[u] = txn[u]
  BY <1>10
<1> QED
  BY <1>1, <1>2, <1>7, <1>9, <1>12, <1>13, <1>14, <1>15, WritingStep

LEMMA CommitKeeps ==
  ASSUME KeptInv, NEW t \in Txns, CommitTxn(t)
  PROVE  KeptInv'
<1> DEFINE x == [txn[t] EXCEPT !.step = "committed", !.writes = NoWrites]
<1>1. /\ x \in TxnState /\ x.writes = NoWrites /\ x.op = txn[t].op /\ x.to = txn[t].to
      /\ x.step = "committed"
  BY NoWritesTyped DEF KeptInv, SeriesShape, TxnState, Steps
<1>2. txn' = [txn EXCEPT ![t] = x] /\ txn[t].step = "written" /\ UNCHANGED commands
  BY DEF CommitTxn
<1> HIDE DEF x
<1>3. \A r \in Rows : row'[r] = View(t, r) /\ scored'[r] = scored[r] \union Adding(t, r)
  BY <1>2 DEF CommitTxn, Adding, KeptInv, SeriesShape
<1>4. SeriesShape'
  <2>1. row' \in [Rows -> RowState]
    BY ViewTyped DEF CommitTxn, KeptInv
  <2>2. \A r \in Rows : Adding(t, r) \in SUBSET Outcomes
    BY DEF Adding, KeptInv, CommandsPlain
  <2>3. scored' \in [Rows -> SUBSET Outcomes]
    BY <1>3, <2>2 DEF CommitTxn, KeptInv, SeriesShape
  <2> QED
    BY <1>1, <1>2, <2>1, <2>3 DEF KeptInv, SeriesShape
<1>5. txn'[t] = x /\ \A u \in Txns \ {t} : txn'[u] = txn[u]
  BY <1>2 DEF KeptInv, SeriesShape
<1>6. \A r \in Rows : row[r].original # NULL => row'[r].original # NULL
  BY <1>3 DEF View, KeptInv, WritesKeep
<1>7. RowsKeep'
  <2> SUFFICES ASSUME NEW r \in Rows PROVE Keeps(row'[r], scored'[r])
    BY DEF RowsKeep
  <2>1. CASE r \in DOMAIN txn[t].writes
    BY <1>3, <2>1 DEF View, KeptInv, WritesKeep
  <2>2. CASE r \notin DOMAIN txn[t].writes
    BY <1>3, <2>2 DEF View, Keeps, KeptInv, RowsKeep
  <2> QED
    BY <2>1, <2>2
<1>8. WritesKeep'
  <2> SUFFICES ASSUME NEW u \in Txns, NEW r \in DOMAIN txn'[u].writes
               PROVE  /\ Keeps(txn'[u].writes[r], scored'[r] \union Adding(u, r)')
                      /\ row'[r].original # NULL => txn'[u].writes[r].original # NULL
    BY DEF WritesKeep
  <2>1. u # t /\ txn'[u] = txn[u]
    BY <1>1, <1>5, NoWritesTyped
  <2>2. r \in Rows /\ r \notin DOMAIN txn[t].writes
    BY <2>1, ContentsElim DEF KeptInv, SeriesShape, TxnState, RowsLocked
  <2>3. Adding(u, r)' = Adding(u, r)
    BY <2>1 DEF Adding
  <2>4. Keeps(txn[u].writes[r], scored[r] \union Adding(u, r))
        /\ (row[r].original # NULL => txn[u].writes[r].original # NULL)
    BY <2>1 DEF KeptInv, WritesKeep
  <2> QED
    BY <1>3, <2>1, <2>2, <2>3, <2>4 DEF View, Keeps
<1>9. RowsLocked'
  BY <1>1, <1>5, NoWritesTyped DEF KeptInv, RowsLocked
<1>10. ReadsKeep'
  <2> SUFFICES ASSUME NEW u \in Txns, txn'[u].op = "overrideOne", txn'[u].step = "selected"
               PROVE  /\ txn'[u].seen \in [txn'[u].chosen -> RowState]
                      /\ \A r \in txn'[u].chosen :
                            /\ Keeps(txn'[u].seen[r], scored'[r])
                            /\ txn'[u].seen[r].original # NULL => row'[r].original # NULL
    BY DEF ReadsKeep
  <2>1. txn'[u] = txn[u] /\ txn[u].chosen \in SUBSET Rows
    BY <1>1, <1>5 DEF KeptInv, SeriesShape, TxnState
  <2>2. \A r \in txn[u].chosen : Keeps(txn[u].seen[r], scored[r])
                /\ (txn[u].seen[r].original # NULL => row[r].original # NULL)
    BY <2>1 DEF KeptInv, ReadsKeep
  <2>3. txn[u].seen \in [txn[u].chosen -> RowState]
    BY <2>1 DEF KeptInv, ReadsKeep
  <2> QED
    BY <1>3, <1>6, <2>1, <2>2, <2>3 DEF Keeps
<1>11. CommandsPlain'
  BY <1>1, <1>5 DEF KeptInv, CommandsPlain
<1> QED
  BY <1>4, <1>7, <1>8, <1>9, <1>10, <1>11 DEF KeptInv

-----------------------------------------------------------------------------
(* The theorem.                                                            *)

LEMMA SeriesKeptInit == SeriesInit => KeptInv
<1> SUFFICES ASSUME SeriesInit PROVE KeptInv
  OBVIOUS
<1>1. PICK result \in Outcomes :
        /\ row = [r \in Rows |-> [result |-> result, original |-> NULL,
                                  invalidated |-> FALSE, pin |-> "never"]]
        /\ scored = [r \in Rows |-> {result}]
  BY DEF SeriesInit
<1>2. txn = [t \in Txns |-> IdleTxn] /\ commands = 0
  BY DEF SeriesInit
<1>3. row \in [Rows -> RowState] /\ scored \in [Rows -> SUBSET Outcomes] /\ RowsKeep
  BY <1>1 DEF RowState, RowsKeep, Keeps
<1>4. SeriesShape
  BY <1>2, <1>3, IdleTxnTyped, SeriesAssumption DEF SeriesShape
<1>5. NULL \notin Commands /\ IdleTxn.op = NULL /\ IdleTxn.step = "idle"
  BY SeriesAssumption DEF IdleTxn
<1>6. WritesKeep /\ RowsLocked /\ ReadsKeep /\ CommandsPlain
  BY <1>2, <1>5, IdleTxnTyped, NoWritesTyped
  DEF WritesKeep, RowsLocked, ReadsKeep, CommandsPlain, Commands
<1> QED
  BY <1>3, <1>4, <1>6 DEF KeptInv

LEMMA CommandKeeps ==
  ASSUME KeptInv, NEW t \in Txns, NEW ops \in SUBSET (Commands \ Restoring), Command(t, ops)
  PROVE  KeptInv'
<1> PICK op \in ops : \E ids \in Targets(op),
         to \in IF op \in {"override", "overrideOne"} \union Rescoring THEN Outcomes ELSE {NULL} :
            Begin(t, op, ids, to)
  BY DEF Command
<1> PICK ids \in Targets(op),
         to \in IF op \in {"override", "overrideOne"} \union Rescoring THEN Outcomes ELSE {NULL} :
            Begin(t, op, ids, to)
  OBVIOUS
<1>1. ids \in SUBSET Rows
  BY DEF Targets
<1> QED
  BY <1>1, BeginKeeps

LEMMA StatementKeeps ==
  ASSUME KeptInv, NEW t \in Txns, Statement(t)
  PROVE  KeptInv'
  BY SelectKeeps, UnpinKeeps, UpdateKeeps, CommitKeeps, AbortKeeps DEF Statement

LEMMA KeptStutter == KeptInv /\ UNCHANGED seriesVars => KeptInv'
  BY DEF seriesVars, KeptInv, SeriesShape, RowsKeep, WritesKeep, Adding, RowsLocked,
         ReadsKeep, CommandsPlain

LEMMA KeptMeansEngineResultKept == KeptInv => EngineResultKept
  BY DEF KeptInv, RowsKeep, Keeps, EngineResultKept

(* With any number of concurrent transactions that invalidate, override,   *)
(* pin and re-evaluate, and none that restores an override, a row shows a  *)
(* result of the engine or keeps one as its original: the COALESCE of      *)
(* override_many and the stale decision of override_status both leave the  *)
(* first override's original in place (repositories/evaluation.py).        *)
THEOREM EngineResultsKept ==
  ASSUME Ops \cap Restoring = {}
  PROVE  SeriesSpec => []EngineResultKept
<1>1. KeptInv /\ [SeriesNext]_seriesVars => KeptInv'
  <2>1. Ops \in SUBSET (Commands \ Restoring)
    BY SeriesAssumption
  <2> QED
    BY <2>1, CommandKeeps, StatementKeeps, EndKeeps, KeptStutter DEF SeriesNext
<1> QED
  BY <1>1, SeriesKeptInit, KeptMeansEngineResultKept, PTL DEF SeriesSpec

-----------------------------------------------------------------------------
(* The panel: its inductive invariant.                                     *)

(* The variables that are records have their fields.                       *)
TxnShaped(x) ==
    x \in [op: {x.op}, ids: {x.ids}, to: {x.to}, step: {x.step}, chosen: {x.chosen},
           seen: {x.seen}, writes: {x.writes}]

TxnShape == txn = [t \in Txns |-> txn[t]] /\ \A t \in Txns : TxnShaped(txn[t])

PanelShaped(p) ==
    p \in [eval: {p.eval}, slot: {p.slot}, single: {p.single}, window: {p.window}]

FormShaped(f) ==
    f \in [kind: {f.kind}, step: {f.step}, conflict: {f.conflict}, column: {f.column},
           results: {f.results}]

ScopeShaped(s) ==
    s \in [selected: {s.selected}, key: {s.key}, single: {s.single}, retried: {s.retried}]

Shape == TxnShape /\ PanelShaped(panel) /\ FormShaped(form) /\ ScopeShaped(scope)

(* The column of the panel's slot, or of the evaluation in effect: the one *)
(* an action is about, whether or not the heatmap shows it now.            *)
Anchor(p, l) == IF p.slot # NULL THEN p.slot ELSE Column(EffectiveEval(p, l))

FormAnchored == form.kind # NULL => form.column = Anchor(panel, list)

(* The selection was last seeded for the rows on screen.                   *)
SelectionSeeded == scope.key = SelectionKey(panel, list, heat)

(* What the server has done when its response arrives.                     *)
ResponsesTrue ==
    /\ txn[mine].step = "committed" => done = txn[mine].chosen
    /\ txn[mine].step \in {"failed", "refused"} => txn[mine].chosen = {}

(* A report of success is about the last command, which is over.           *)
ReportsTrue ==
    form.step = "results" =>
        \A s \in DOMAIN form.results :
            form.results[s] = "success" =>
                txn[mine].step = "idle" /\ \E r \in done : Slo(r) = s

PanelInv ==
    /\ Shape
    /\ FormAnchored
    /\ SelectionSeeded
    /\ SelectionFitsColumn
    /\ ResponsesTrue
    /\ ReportsTrue

-----------------------------------------------------------------------------
(* Rendering.                                                              *)

LEMMA AutoSlotShaped ==
  ASSUME NEW p, PanelShaped(p), NEW l, NEW h
  PROVE  /\ PanelShaped(AutoSlot(p, l, h))
         /\ AutoSlot(p, l, h).eval = p.eval
         /\ \/ AutoSlot(p, l, h).slot = p.slot
            \/ /\ p.slot = NULL /\ EffectiveEval(p, l) \in DOMAIN h.out
               /\ AutoSlot(p, l, h).slot = Column(EffectiveEval(p, l))
<1> DEFINE c == Column(EffectiveEval(p, l))
<1>1. CASE AutoSlot(p, l, h) = p
  BY <1>1
<1>2. CASE AutoSlot(p, l, h) = [p EXCEPT !.slot = c] /\ p.slot = NULL
           /\ EffectiveEval(p, l) \in DOMAIN h.out
  <2> HIDE DEF c
  <2>1. [p EXCEPT !.slot = c] = [eval |-> p.eval, slot |-> c, single |-> p.single, window |-> p.window]
    BY DEF PanelShaped
  <2> QED
    BY <1>2, <2>1 DEF PanelShaped, c
<1> QED
  BY <1>1, <1>2 DEF AutoSlot

\* Selecting the column for good changes nothing on screen.
LEMMA AutoSlotSilent ==
  ASSUME NEW p, PanelShaped(p), NEW l, NEW h
  PROVE  /\ EffectiveEval(AutoSlot(p, l, h), l) = EffectiveEval(p, l)
         /\ Anchor(AutoSlot(p, l, h), l) = Anchor(p, l)
         /\ ShownColumn(AutoSlot(p, l, h), l, h) = ShownColumn(p, l, h)
         /\ SelectionKey(AutoSlot(p, l, h), l, h) = SelectionKey(p, l, h)
         /\ AvailableSlos(AutoSlot(p, l, h), l, h) = AvailableSlos(p, l, h)
<1>1. EffectiveEval(AutoSlot(p, l, h), l) = EffectiveEval(p, l)
  BY AutoSlotShaped DEF EffectiveEval
<1>2. Anchor(AutoSlot(p, l, h), l) = Anchor(p, l)
  BY <1>1, AutoSlotShaped DEF Anchor
<1>3. ShownColumn(AutoSlot(p, l, h), l, h) = ShownColumn(p, l, h)
  BY <1>1, AutoSlotShaped DEF ShownColumn
<1> QED
  BY <1>1, <1>2, <1>3 DEF SelectionKey, AvailableSlos

LEMMA RescopeFits ==
  ASSUME SelectionSeeded, NEW p, NEW l, NEW h, NEW s,
         s.selected \subseteq Available \/ s.retried
  PROVE  /\ ScopeShaped(Rescope(p, l, h, s))
         /\ Rescope(p, l, h, s).key = SelectionKey(p, l, h)
         /\ \/ Rescope(p, l, h, s).selected \subseteq AvailableSlos(p, l, h)
            \/ Rescope(p, l, h, s).retried
<1> DEFINE available == AvailableSlos(p, l, h)
           key == SelectionKey(p, l, h)
           seeded == IF key # scope.key THEN DefaultSelection(p, h, available) ELSE s.selected
           hinted == IF p.single \notin DOMAIN h.out THEN available
                     ELSE IF Slo(p.single) \in available THEN {Slo(p.single)} ELSE seeded
           sc == [selected |-> IF p.single # scope.single THEN hinted ELSE seeded,
                  key |-> key, single |-> p.single, retried |-> key = scope.key /\ s.retried]
<1>1. Rescope(p, l, h, s) = sc
  BY DEF Rescope
<1>2. key = scope.key => available = Available
  BY DEF SelectionSeeded, SelectionKey, Available
<1>3. DefaultSelection(p, h, available) \subseteq available
  BY DEF DefaultSelection
<1>4. seeded \subseteq available \/ (key = scope.key /\ s.retried)
  BY <1>2, <1>3
<1>5. hinted \subseteq available \/ (key = scope.key /\ s.retried)
  BY <1>4
<1> HIDE DEF available, key, seeded, hinted
<1>6. /\ ScopeShaped(sc) /\ sc.key = key
      /\ sc.selected \subseteq available \/ sc.retried
  BY <1>4, <1>5 DEF ScopeShaped
<1> QED
  BY <1>1, <1>6 DEF available, key

LEMMA FreshFormShaped ==
  ASSUME NEW kind
  PROVE  /\ FormShaped(FreshForm(kind)) /\ FreshForm(kind).kind = kind
         /\ FreshForm(kind).step = "edit"
  BY DEF FreshForm, FormShaped

LEMMA MovedFormShaped ==
  ASSUME NEW kind, NEW c
  PROVE  /\ FormShaped([FreshForm(kind) EXCEPT !.column = c])
         /\ [FreshForm(kind) EXCEPT !.column = c].kind = kind
         /\ [FreshForm(kind) EXCEPT !.column = c].step = "edit"
         /\ [FreshForm(kind) EXCEPT !.column = c].column = c
<1> DEFINE f == FreshForm(kind)
<1>1. FormShaped(f) /\ f.kind = kind /\ f.step = "edit"
  BY FreshFormShaped
<1> HIDE DEF f
<1>2. [f EXCEPT !.column = c] = [kind |-> f.kind, step |-> f.step, conflict |-> f.conflict,
                                 column |-> c, results |-> f.results]
  BY <1>1 DEF FormShaped
<1> QED
  BY <1>1, <1>2 DEF FormShaped, f

\* A render keeps the invariant if what it starts from does: the selection is
\* sound or a retry's, the form is about the panel's column unless the render
\* closes it, and no report appears.
LEMMA RenderKeeps ==
  ASSUME PanelInv, NEW p, NEW l, NEW h, NEW s, NEW f, Render(p, l, h, s, f),
         PanelShaped(p), FormShaped(f),
         s.selected \subseteq Available \/ s.retried,
         f.kind # NULL /\ EffectiveEval(p, l) = EffectiveEval(panel, list) =>
            f.column = Anchor(p, l),
         f.step = "results" => form.step = "results" /\ f.results = form.results,
         UNCHANGED <<txn, done>>
  PROVE  PanelInv'
<1>1. /\ panel' = AutoSlot(p, l, h) /\ list' = l /\ heat' = h
      /\ scope' = Rescope(p, l, h, s)
  BY DEF Render
<1>2. \/ form' = FreshForm(NULL)
      \/ /\ EffectiveEval(p, l) = EffectiveEval(panel, list) /\ f.kind # NULL
         /\ form' = [FreshForm(f.kind) EXCEPT !.column = f.column] \/ form' = f
  BY DEF Render, Leaves
<1>3. Shape'
  <2>1. FormShaped(form')
    BY <1>2, FreshFormShaped, MovedFormShaped
  <2>2. PanelShaped(panel')
    BY <1>1, AutoSlotShaped
  <2>3. ScopeShaped(scope')
    BY <1>1, RescopeFits DEF PanelInv
  <2>4. TxnShape'
    BY DEF PanelInv, Shape, TxnShape
  <2> QED
    BY <2>1, <2>2, <2>3, <2>4 DEF Shape, PanelShaped, FormShaped, ScopeShaped
<1>4. FormAnchored'
  <2>1. Anchor(panel', list') = Anchor(p, l)
    BY <1>1, AutoSlotSilent
  <2>2. form'.kind # NULL => form'.column = Anchor(p, l)
    <3>1. CASE form' = FreshForm(NULL)
      BY <3>1, FreshFormShaped
    <3>2. CASE form' # FreshForm(NULL) /\ form' = [FreshForm(f.kind) EXCEPT !.column = f.column]
      BY <1>2, <3>2, MovedFormShaped
    <3>3. CASE form' # FreshForm(NULL) /\ form' = f
      BY <1>2, <3>3
    <3> QED
      BY <1>2, <3>1, <3>2, <3>3
  <2> QED
    BY <2>1, <2>2 DEF FormAnchored, Anchor, EffectiveEval
<1>5. SelectionSeeded'
  <2>1. scope'.key = SelectionKey(panel', list', heat')
    <3>1. SelectionKey(panel', list', heat') = SelectionKey(p, l, h)
      BY <1>1, AutoSlotSilent
    <3>2. scope'.key = SelectionKey(p, l, h)
      BY <1>1, RescopeFits DEF PanelInv
    <3> QED
      BY <3>1, <3>2
  <2> QED
    BY <2>1 DEF SelectionSeeded, SelectionKey, ShownColumn, AvailableSlos
<1>6. SelectionFitsColumn'
  <2>1. scope'.selected \subseteq AvailableSlos(panel', list', heat') \/ scope'.retried
    BY <1>1, AutoSlotSilent, RescopeFits DEF PanelInv
  <2> QED
    BY <2>1 DEF SelectionFitsColumn, Available, AvailableSlos, ShownColumn
<1>7. ResponsesTrue'
  BY DEF PanelInv, ResponsesTrue
<1>8. ReportsTrue'
  <2>1. form'.step = "results" => form.step = "results" /\ form'.results = form.results
    <3>1. CASE form' = FreshForm(NULL)
      BY <3>1, FreshFormShaped
    <3>2. CASE form' # FreshForm(NULL) /\ form' = [FreshForm(f.kind) EXCEPT !.column = f.column]
      BY <1>2, <3>2, MovedFormShaped
    <3>3. CASE form' # FreshForm(NULL) /\ form' = f
      BY <1>2, <3>3
    <3> QED
      BY <1>2, <3>1, <3>2, <3>3
  <2> QED
    BY <2>1 DEF PanelInv, ReportsTrue
<1> QED
  BY <1>3, <1>4, <1>5, <1>6, <1>7, <1>8 DEF PanelInv

-----------------------------------------------------------------------------
(* The panel's steps.                                                      *)

LEMMA AnchorKept ==
  ASSUME NEW p, NEW l, p.slot = panel.slot, EffectiveEval(p, l) = EffectiveEval(panel, list)
  PROVE  Anchor(p, l) = Anchor(panel, list)
  BY DEF Anchor

\* Renders that take the form along as it is and leave the slot.
LEMMA QuietRender ==
  ASSUME PanelInv, NEW p, NEW l, NEW h, Render(p, l, h, scope, form),
         PanelShaped(p), p.slot = panel.slot, UNCHANGED <<txn, done>>
  PROVE  PanelInv'
<1>1. scope.selected \subseteq Available \/ scope.retried
  BY DEF PanelInv, SelectionFitsColumn
<1>2. form.kind # NULL /\ EffectiveEval(p, l) = EffectiveEval(panel, list) =>
        form.column = Anchor(p, l)
  BY AnchorKept DEF PanelInv, FormAnchored
<1> QED
  BY <1>1, <1>2, RenderKeeps DEF PanelInv, Shape

LEMMA DataKeeps ==
  ASSUME PanelInv, ReceiveList \/ ReceiveHeat \/ \E w \in Windows : SetWindow(w)
  PROVE  PanelInv'
<1>1. CASE ReceiveList \/ ReceiveHeat
  BY <1>1, QuietRender DEF ReceiveList, ReceiveHeat, Rerender, seriesVars, PanelInv, Shape
<1>2. ASSUME NEW w \in Windows, SetWindow(w) PROVE PanelInv'
  <2> DEFINE p == [panel EXCEPT !.window = w]
  <2>1. PanelShaped(p) /\ p.slot = panel.slot
    BY DEF PanelInv, Shape, PanelShaped
  <2>2. \E l, h : Render(p, l, h, scope, form) /\ UNCHANGED <<txn, done>>
    BY <1>2 DEF SetWindow, Click, seriesVars
  <2> HIDE DEF p
  <2> QED
    BY <2>1, <2>2, QuietRender
<1> QED
  BY <1>1, <1>2

LEMMA SlotClickKeeps ==
  ASSUME PanelInv, NEW r \in Rows, NEW single,
         Click(SelectSlot(Column(r), single), list, heat, Taken(Column(r)))
  PROVE  PanelInv'
<1> DEFINE c == Column(r)
           p == SelectSlot(c, single)
           f == Taken(c)
<1>1. Render(p, list, heat, scope, f) /\ UNCHANGED <<txn, done>>
  BY DEF Click, seriesVars
<1>2. c # NULL
  BY SeriesAssumption DEF Column
<1> HIDE DEF c
<1>3. PanelShaped(p) /\ p.slot = c
  <2>1. PanelShaped(panel)
    BY DEF PanelInv, Shape
  <2> QED
    BY <2>1 DEF PanelShaped, SelectSlot
<1>4. FormShaped(f) /\ (f.kind # NULL => f.column = c) /\ f.step = form.step
      /\ f.results = form.results
  BY DEF PanelInv, Shape, FormShaped, Taken
<1>5. scope.selected \subseteq Available \/ scope.retried
  BY DEF PanelInv, SelectionFitsColumn
<1> HIDE DEF p, f
<1>6. Anchor(p, list) = c
  BY <1>2, <1>3 DEF Anchor
<1> QED
  BY <1>1, <1>3, <1>4, <1>5, <1>6, RenderKeeps

LEMMA ClicksKeep ==
  ASSUME PanelInv, NEW r \in Rows, ClickCell(r) \/ ClickTrend(r)
  PROVE  PanelInv'
<1>1. CASE ClickCell(r)
  BY <1>1, SlotClickKeeps DEF ClickCell
<1>2. CASE ClickTrend(r) /\ r \in DOMAIN heat.out
  BY <1>2, SlotClickKeeps DEF ClickTrend
<1>3. CASE ClickTrend(r) /\ r \notin DOMAIN heat.out
  <2> DEFINE p == [panel EXCEPT !.eval = r]
  <2>1. PanelShaped(p) /\ p.slot = panel.slot
    BY DEF PanelInv, Shape, PanelShaped
  <2>2. Render(p, list, heat, scope, form) /\ UNCHANGED <<txn, done>>
    BY <1>3 DEF ClickTrend, Click, seriesVars
  <2> HIDE DEF p
  <2> QED
    BY <2>1, <2>2, QuietRender
<1> QED
  BY <1>1, <1>2, <1>3

LEMMA CloseKeeps ==
  ASSUME PanelInv, Remount \/ CloseForm
  PROVE  PanelInv'
<1> DEFINE f == FreshForm(NULL)
           away == [panel EXCEPT !.eval = NULL, !.slot = NULL, !.single = NULL]
<1>1. \E p \in {panel, away} : Render(p, list, heat, scope, f)
  BY DEF Remount, CloseForm, Click, OnlyForm, Rerender
<1>2. UNCHANGED <<txn, done>>
  BY DEF Remount, CloseForm, Click, OnlyForm, Rerender, seriesVars
<1>3. FormShaped(f) /\ f.kind = NULL /\ f.step # "results"
  BY FreshFormShaped
<1>4. PanelShaped(panel) /\ PanelShaped(away)
  <2>1. PanelShaped(panel)
    BY DEF PanelInv, Shape
  <2> QED
    BY <2>1 DEF PanelShaped
<1>5. scope.selected \subseteq Available \/ scope.retried
  BY DEF PanelInv, SelectionFitsColumn
<1> HIDE DEF f, away
<1> QED
  BY <1>1, <1>2, <1>3, <1>4, <1>5, RenderKeeps

LEMMA OpenKeeps ==
  ASSUME PanelInv, NEW kind \in Kinds, OpenForm(kind)
  PROVE  PanelInv'
<1> DEFINE f == [FreshForm(kind) EXCEPT !.column = Column_]
<1>1. Render(panel, list, heat, scope, f) /\ UNCHANGED <<txn, done>> /\ Shown
  BY DEF OpenForm, OnlyForm, Rerender, seriesVars
<1>2. FormShaped(f) /\ f.column = Column_ /\ f.step # "results"
  BY MovedFormShaped
<1>3. Column_ = Anchor(panel, list)
  BY <1>1 DEF Shown, ActionsShown, Column_, ShownColumn, Anchor
<1>4. scope.selected \subseteq Available \/ scope.retried
  BY DEF PanelInv, SelectionFitsColumn
<1> HIDE DEF f
<1> QED
  BY <1>1, <1>2, <1>3, <1>4, RenderKeeps DEF PanelInv, Shape

LEMMA PickKeeps ==
  ASSUME PanelInv, PickSlos
  PROVE  PanelInv'
<1> PICK some \in SUBSET Available, gone \in {{}, scope.selected \ Available} :
        OnlyForm([scope EXCEPT !.selected = some \union gone], form)
  BY DEF PickSlos
<1> DEFINE s == [scope EXCEPT !.selected = some \union gone]
<1>1. Render(panel, list, heat, s, form) /\ UNCHANGED <<txn, done>>
  BY DEF OnlyForm, Rerender, seriesVars
<1>2. s.selected = some \union gone /\ s.retried = scope.retried
  BY DEF PanelInv, Shape, ScopeShaped
<1>3. s.selected \subseteq Available \/ s.retried
  BY <1>2 DEF PanelInv, SelectionFitsColumn
<1> HIDE DEF s
<1>4. form.kind # NULL => form.column = Anchor(panel, list)
  BY DEF PanelInv, FormAnchored
<1> QED
  BY <1>1, <1>3, <1>4, RenderKeeps DEF PanelInv, Shape

LEMMA RetryKeeps ==
  ASSUME PanelInv, RetryFailed
  PROVE  PanelInv'
<1> DEFINE s == [scope EXCEPT !.selected = Failed, !.retried = TRUE]
           none == [x \in {} |-> NULL]
           f == [form EXCEPT !.step = "edit", !.results = none]
<1>1. Render(panel, list, heat, s, f) /\ UNCHANGED <<txn, done>>
  BY DEF RetryFailed, OnlyForm, Rerender, seriesVars
<1>2. s.retried
  BY DEF PanelInv, Shape, ScopeShaped
<1> HIDE DEF s, none
<1>3. FormShaped(f) /\ f.step = "edit" /\ f.kind = form.kind /\ f.column = form.column
  <2>1. FormShaped(form)
    BY DEF PanelInv, Shape
  <2> QED
    BY <2>1 DEF FormShaped
<1> HIDE DEF f
<1>4. form.kind # NULL => form.column = Anchor(panel, list)
  BY DEF PanelInv, FormAnchored
<1> QED
  BY <1>1, <1>2, <1>3, <1>4, RenderKeeps DEF PanelInv, Shape

-----------------------------------------------------------------------------
(* Commands, their transactions and responses.                             *)

\* Steps that leave what is on screen, its column and the selection.
LEMMA StillScreen ==
  ASSUME PanelInv, UNCHANGED <<list, heat, panel, scope>>, Shape',
         form'.kind = form.kind, form'.column = form.column,
         ResponsesTrue', ReportsTrue'
  PROVE  PanelInv'
  BY DEF PanelInv, FormAnchored, Anchor, EffectiveEval, SelectionSeeded, SelectionKey,
         SelectionFitsColumn, Available, AvailableSlos, ShownColumn

LEMMA IdleTxnShaped == TxnShaped(IdleTxn) /\ IdleTxn.step = "idle"
  BY DEF TxnShaped, IdleTxn

LEMMA ReplacedTxn ==
  ASSUME TxnShape, NEW t \in Txns, NEW x, TxnShaped(x), txn' = [txn EXCEPT ![t] = x]
  PROVE  TxnShape' /\ txn'[t] = x /\ \A u \in Txns \ {t} : txn'[u] = txn[u]
<1>1. txn'[t] = x /\ \A u \in Txns \ {t} : txn'[u] = txn[u]
  BY DEF TxnShape
<1>2. txn' = [u \in Txns |-> txn'[u]]
  BY DEF TxnShape
<1>3. \A u \in Txns : TxnShaped(txn'[u])
  BY <1>1 DEF TxnShape
<1> QED
  BY <1>1, <1>2, <1>3 DEF TxnShape, TxnShaped

LEMMA BegunTxn ==
  ASSUME TxnShape, NEW t \in Txns, NEW op, NEW ids, NEW to, Begin(t, op, ids, to)
  PROVE  /\ TxnShape' /\ txn[t].step = "idle" /\ txn'[t].step = "begun"
         /\ \A u \in Txns \ {t} : txn'[u] = txn[u]
<1> DEFINE x == [IdleTxn EXCEPT !.op = op, !.ids = ids, !.to = to, !.step = "begun"]
<1>1. TxnShaped(x) /\ x.step = "begun"
  BY IdleTxnShaped DEF TxnShaped
<1>2. txn' = [txn EXCEPT ![t] = x] /\ txn[t].step = "idle"
  BY DEF Begin
<1> HIDE DEF x
<1> QED
  BY <1>1, <1>2, ReplacedTxn

LEMMA EndedTxn ==
  ASSUME TxnShape, NEW t \in Txns, txn' = [txn EXCEPT ![t] = IdleTxn]
  PROVE  /\ TxnShape' /\ txn'[t].step = "idle"
         /\ \A u \in Txns \ {t} : txn'[u] = txn[u]
  BY IdleTxnShaped, ReplacedTxn

\* A statement belongs to a transaction under way; only a commit makes it
\* committed, and one that fails has chosen nothing.
LEMMA StatementTxn ==
  ASSUME TxnShape, NEW t \in Txns, Statement(t)
  PROVE  /\ TxnShape'
         /\ \A u \in Txns \ {t} : txn'[u] = txn[u]
         /\ txn[t].step # "idle"
         /\ txn'[t].step = "committed" =>
                txn[t].step = "written" /\ txn'[t].chosen = txn[t].chosen
         /\ txn'[t].step \in {"failed", "refused"} => txn'[t].chosen = {}
<1>0. TxnShaped(txn[t])
  BY DEF TxnShape
<1>1. CASE Select(t)
  <2> DEFINE outcome == IF txn[t].op \in Rescoring THEN RescoreStep(txn[t].op, txn[t].ids)
                        ELSE "selected"
             chosen == IF outcome = "selected" THEN Selected(txn[t].op, txn[t].ids) ELSE {}
             step == IF outcome = "selected" /\ chosen = {} THEN "written" ELSE outcome
             seen == IF txn[t].op \in Single THEN [r \in chosen |-> row[r]] ELSE NULL
             x == [txn[t] EXCEPT !.step = step, !.chosen = chosen, !.seen = seen]
  <2>1. txn' = [txn EXCEPT ![t] = x] /\ txn[t].step = "begun"
    BY <1>1 DEF Select
  <2>2. step # "committed" /\ (step \in {"failed", "refused"} => chosen = {})
    BY DEF RescoreStep
  <2> HIDE DEF outcome, chosen, step, seen
  <2>3. TxnShaped(x) /\ x.step = step /\ x.chosen = chosen
    BY <1>0 DEF TxnShaped
  <2> HIDE DEF x
  <2>4. TxnShape' /\ txn'[t] = x /\ \A u \in Txns \ {t} : txn'[u] = txn[u]
    BY <2>1, <2>3, ReplacedTxn
  <2> QED
    BY <2>1, <2>2, <2>3, <2>4
<1>2. CASE Unpin(t)
  <2> DEFINE writes == Written(t, Active(Series(txn[t].chosen)), LAMBDA y : [y EXCEPT !.pin = "removed"])
             x == [txn[t] EXCEPT !.step = "unpinned", !.writes = writes]
  <2>1. txn' = [txn EXCEPT ![t] = x] /\ txn[t].step = "selected"
    BY <1>2 DEF Unpin
  <2> HIDE DEF writes
  <2>3. TxnShaped(x) /\ x.step = "unpinned"
    BY <1>0 DEF TxnShaped
  <2> HIDE DEF x
  <2> QED
    BY <2>1, <2>3, ReplacedTxn
<1>3. CASE Update(t)
  <2> DEFINE ids == IF txn[t].step = "begun" THEN txn[t].ids ELSE txn[t].chosen
             writes == [r \in DOMAIN txn[t].writes \union ids |->
                          IF r \in ids THEN Changed(t, r, View(t, r)) ELSE txn[t].writes[r]]
             x == [txn[t] EXCEPT !.step = "written", !.chosen = ids, !.writes = writes]
  <2>1. txn' = [txn EXCEPT ![t] = x] /\ txn[t].step \in {"begun", "unpinned", "selected"}
    BY <1>3 DEF Update, Ready
  <2> HIDE DEF writes, ids
  <2>3. TxnShaped(x) /\ x.step = "written"
    BY <1>0 DEF TxnShaped
  <2> HIDE DEF x
  <2> QED
    BY <2>1, <2>3, ReplacedTxn
<1>4. CASE CommitTxn(t)
  <2> DEFINE x == [txn[t] EXCEPT !.step = "committed", !.writes = NoWrites]
  <2>1. txn' = [txn EXCEPT ![t] = x] /\ txn[t].step = "written"
    BY <1>4 DEF CommitTxn
  <2>3. TxnShaped(x) /\ x.step = "committed" /\ x.chosen = txn[t].chosen
    BY <1>0 DEF TxnShaped
  <2> HIDE DEF x
  <2> QED
    BY <2>1, <2>3, ReplacedTxn
<1>5. CASE AbortTxn(t)
  <2> DEFINE x == [txn[t] EXCEPT !.step = "failed", !.chosen = {}, !.writes = NoWrites]
  <2>1. txn' = [txn EXCEPT ![t] = x] /\ txn[t].step # "idle"
    BY <1>5 DEF AbortTxn
  <2>3. TxnShaped(x) /\ x.step = "failed" /\ x.chosen = {}
    BY <1>0 DEF TxnShaped
  <2> HIDE DEF x
  <2> QED
    BY <2>1, <2>3, ReplacedTxn
<1> QED
  BY <1>1, <1>2, <1>3, <1>4, <1>5 DEF Statement

\* A form that has sent a command.
LEMMA SentKeeps ==
  ASSUME PanelInv, NEW op, NEW ids, NEW to, Begin(mine, op, ids, to),
         FormShaped(form'), form'.kind = form.kind, form'.column = form.column,
         form'.step = "sending",
         UNCHANGED <<list, heat, panel, scope>>
  PROVE  PanelInv'
<1>1. mine \in Txns
  BY PanelAssumption
<1>2. TxnShape' /\ txn'[mine].step = "begun"
  BY <1>1, BegunTxn DEF PanelInv, Shape
<1>3. Shape'
  BY <1>2 DEF PanelInv, Shape, PanelShaped, ScopeShaped, FormShaped
<1>4. ResponsesTrue' /\ ReportsTrue'
  BY <1>2 DEF ResponsesTrue, ReportsTrue
<1> QED
  BY <1>3, <1>4, StillScreen

LEMMA ConfirmKeeps ==
  ASSUME PanelInv, ConfirmReEvaluate \/ \E to \in OverrideTargets : ConfirmBatch(to)
  PROVE  PanelInv'
<1>0. FormShaped(form)
  BY DEF PanelInv, Shape
<1>1. ASSUME NEW to \in OverrideTargets, ConfirmBatch(to) PROVE PanelInv'
  <2> DEFINE sent == scope.selected \ Skipped(to)
             results == [s \in scope.selected |-> IF s \in sent THEN "sent" ELSE "skipped"]
  <2>1. /\ Begin(mine, CommandOf(form.kind), {RowOf(s) : s \in sent}, to)
        /\ form' = [form EXCEPT !.step = "sending", !.results = results]
        /\ UNCHANGED <<list, heat, panel, scope>>
    BY <1>1 DEF ConfirmBatch
  <2> HIDE DEF sent, results
  <2>2. FormShaped(form') /\ form'.kind = form.kind /\ form'.column = form.column
        /\ form'.step = "sending"
    BY <1>0, <2>1 DEF FormShaped
  <2> QED
    BY <2>1, <2>2, SentKeeps
<1>2. CASE ConfirmReEvaluate
  <2> DEFINE results == [s \in scope.selected |-> "sent"]
  <2>1. /\ \E op, ids, to : Begin(mine, op, ids, to)
        /\ form' = [form EXCEPT !.step = "sending", !.conflict = FALSE, !.results = results]
        /\ UNCHANGED <<list, heat, panel, scope>>
    BY <1>2 DEF ConfirmReEvaluate
  <2> HIDE DEF results
  <2>2. FormShaped(form') /\ form'.kind = form.kind /\ form'.column = form.column
        /\ form'.step = "sending"
    BY <1>0, <2>1 DEF FormShaped
  <2> QED
    BY <2>1, <2>2, SentKeeps
<1> QED
  BY <1>1, <1>2

\* Reports that name no success.
LEMMA UnsuccessfulKeeps ==
  ASSUME PanelInv, (\E to \in OverrideTargets : ConfirmLocally(to)) \/ LoseResponse
  PROVE  PanelInv'
<1>0. FormShaped(form)
  BY DEF PanelInv, Shape
<1>1. UNCHANGED <<txn, done, list, heat, panel, scope>>
  BY DEF ConfirmLocally, LoseResponse, seriesVars
<1>2. ASSUME NEW to \in OverrideTargets, ConfirmLocally(to)
      PROVE  /\ FormShaped(form') /\ form'.kind = form.kind /\ form'.column = form.column
             /\ \A s \in DOMAIN form'.results : form'.results[s] # "success"
  <2> DEFINE results == [s \in scope.selected |->
                            IF s \in Skipped(to) THEN "skipped" ELSE "failed"]
  <2>1. form' = [form EXCEPT !.step = "results", !.results = results]
    BY <1>2 DEF ConfirmLocally
  <2>2. \A s \in DOMAIN results : results[s] # "success"
    OBVIOUS
  <2> HIDE DEF results
  <2> QED
    BY <1>0, <2>1, <2>2 DEF FormShaped
<1>3. ASSUME LoseResponse
      PROVE  /\ FormShaped(form') /\ form'.kind = form.kind /\ form'.column = form.column
             /\ \A s \in DOMAIN form'.results : form'.results[s] # "success"
  <2> DEFINE none == [s \in {} |-> NULL]
             results == Reported({})
  <2>1. \/ form' = [form EXCEPT !.step = "edit", !.results = none]
        \/ form' = [form EXCEPT !.step = "results", !.results = results]
    BY <1>3 DEF LoseResponse
  <2>2. /\ \A s \in DOMAIN results : results[s] # "success"
        /\ \A s \in DOMAIN none : none[s] # "success"
    BY DEF Reported
  <2> HIDE DEF none, results
  <2> QED
    BY <1>0, <2>1, <2>2 DEF FormShaped
<1>4. /\ FormShaped(form') /\ form'.kind = form.kind /\ form'.column = form.column
      /\ \A s \in DOMAIN form'.results : form'.results[s] # "success"
  BY <1>2, <1>3
<1>5. Shape'
  BY <1>1, <1>4 DEF PanelInv, Shape, TxnShape, TxnShaped, PanelShaped, ScopeShaped, FormShaped
<1>6. ResponsesTrue' /\ ReportsTrue'
  BY <1>1, <1>4 DEF PanelInv, ResponsesTrue, ReportsTrue
<1> QED
  BY <1>1, <1>4, <1>5, <1>6, StillScreen

LEMMA RespondKeeps ==
  ASSUME PanelInv, Respond
  PROVE  PanelInv'
<1> DEFINE succeeded == {Slo(r) : r \in txn[mine].chosen}
           none == [s \in {} |-> NULL]
<1>0. FormShaped(form) /\ TxnShape /\ mine \in Txns
  BY PanelAssumption DEF PanelInv, Shape
<1>1. /\ txn' = [txn EXCEPT ![mine] = IdleTxn] /\ UNCHANGED <<done, list, heat, panel, scope>>
      /\ txn[mine].step \in {"committed", "failed", "refused"}
      /\ form' = AfterReply(succeeded)
  BY <1>0 DEF Respond, Replied, TxnShape
<1>2. TxnShape' /\ txn'[mine].step = "idle"
  BY <1>0, <1>1, EndedTxn
<1>3. \A s \in succeeded : \E r \in done : Slo(r) = s
  BY <1>1 DEF PanelInv, ResponsesTrue
<1>4. \A s \in DOMAIN Reported(succeeded) : Reported(succeeded)[s] = "success" => s \in succeeded
  BY DEF Reported
<1> HIDE DEF succeeded
<1>5. /\ FormShaped(form') /\ form'.kind = form.kind /\ form'.column = form.column
      /\ form'.step = "results" => form'.results = Reported(succeeded)
  <2> DEFINE results == Reported(succeeded)
             refused == (txn[mine].step = "refused")
  <2>1. \/ form' = [form EXCEPT !.step = "edit", !.conflict = refused, !.results = none]
        \/ form' = [form EXCEPT !.step = "results", !.results = results]
    BY <1>1 DEF AfterReply
  <2> HIDE DEF none, results, refused
  <2>2. /\ FormShaped(form') /\ form'.kind = form.kind /\ form'.column = form.column
        /\ form'.step = "results" => form'.results = results
    BY <1>0, <2>1 DEF FormShaped
  <2> QED
    BY <2>2 DEF results
<1>6. Shape'
  BY <1>1, <1>2, <1>5 DEF PanelInv, Shape, PanelShaped, ScopeShaped, FormShaped
<1>7. ResponsesTrue' /\ ReportsTrue'
  BY <1>1, <1>2, <1>3, <1>4, <1>5 DEF ResponsesTrue, ReportsTrue
<1> QED
  BY <1>1, <1>5, <1>6, <1>7, StillScreen

\* The server's steps leave the screen alone.
LEMMA ServerKeeps ==
  ASSUME PanelInv, ServeMine \/ Other
  PROVE  PanelInv'
<1>0. TxnShape /\ mine \in Txns /\ theirs \in Txns /\ mine # theirs
  BY PanelAssumption DEF PanelInv, Shape
<1>1. UNCHANGED <<list, heat, panel, scope, form>>
  BY DEF ServeMine, Other, panelVars
<1>2. CASE Other
  <2>1. TxnShape' /\ \A u \in Txns \ {theirs} : txn'[u] = txn[u]
    <3>1. CASE Command(theirs, session.others)
      BY <1>0, <3>1, BegunTxn DEF Command
    <3>2. CASE Statement(theirs)
      BY <1>0, <3>2, StatementTxn
    <3>3. CASE End(theirs)
      BY <1>0, <3>3, EndedTxn DEF End
    <3> QED
      BY <1>2, <3>1, <3>2, <3>3 DEF Other
  <2>2. txn'[mine] = txn[mine] /\ done' = done
    BY <1>0, <1>2, <2>1 DEF Other, panelVars
  <2>3. Shape'
    BY <1>1, <2>1 DEF PanelInv, Shape, PanelShaped, ScopeShaped, FormShaped
  <2>4. ResponsesTrue' /\ ReportsTrue'
    BY <1>1, <2>2 DEF PanelInv, ResponsesTrue, ReportsTrue
  <2> QED
    BY <1>1, <2>3, <2>4, StillScreen
<1>3. CASE ServeMine
  <2>1. CASE Statement(mine)
    <3>1. /\ TxnShape' /\ txn[mine].step # "idle"
          /\ txn'[mine].step = "committed" =>
                txn[mine].step = "written" /\ txn'[mine].chosen = txn[mine].chosen
          /\ txn'[mine].step \in {"failed", "refused"} => txn'[mine].chosen = {}
      BY <1>0, <2>1, StatementTxn
    <3>2. done' = IF txn[mine].step = "written" /\ txn'[mine].step = "committed"
                  THEN txn[mine].chosen ELSE done
      BY <1>3 DEF ServeMine
    <3>3. Shape'
      BY <1>1, <3>1 DEF PanelInv, Shape, PanelShaped, ScopeShaped, FormShaped
    <3>4. ResponsesTrue'
      BY <3>1, <3>2 DEF ResponsesTrue
    <3>5. ReportsTrue'
      BY <1>1, <3>1 DEF PanelInv, ReportsTrue
    <3> QED
      BY <1>1, <3>3, <3>4, <3>5, StillScreen
  <2>2. CASE End(mine)
    <3>1. TxnShape' /\ txn'[mine].step = "idle" /\ txn[mine].step # "idle"
      BY <1>0, <2>2, EndedTxn DEF End
    <3>2. Shape'
      BY <1>1, <3>1 DEF PanelInv, Shape, PanelShaped, ScopeShaped, FormShaped
    <3>3. ResponsesTrue' /\ ReportsTrue'
      BY <1>1, <3>1 DEF PanelInv, ResponsesTrue, ReportsTrue
    <3> QED
      BY <1>1, <3>2, <3>3, StillScreen
  <2> QED
    BY <1>3, <2>1, <2>2 DEF ServeMine
<1> QED
  BY <1>2, <1>3

-----------------------------------------------------------------------------
(* Theorems about the panel.                                               *)

LEMMA PanelInitKeeps == Init => PanelInv
<1> SUFFICES ASSUME Init PROVE PanelInv
  OBVIOUS
<1> PICK w \in Windows : panel = [eval |-> NULL, slot |-> NULL, single |-> NULL, window |-> w]
  BY DEF Init
<1>1. /\ scope = [selected |-> {}, key |-> <<NULL, {}>>, single |-> NULL, retried |-> FALSE]
      /\ form = FreshForm(NULL) /\ txn = [t \in Txns |-> IdleTxn] /\ heat = NoHeat
      /\ list = NoList
  BY DEF Init, SeriesInit
<1>2. Shape
  <2>1. FormShaped(form)
    BY <1>1, FreshFormShaped
  <2>2. TxnShape
    BY <1>1, IdleTxnShaped DEF TxnShape
  <2> QED
    BY <1>1, <2>1, <2>2 DEF Shape, PanelShaped, ScopeShaped
<1>3. DOMAIN heat.out = {} /\ panel.slot = NULL
  BY <1>1 DEF NoHeat
<1>4. ShownColumn(panel, list, heat) = NULL /\ AvailableSlos(panel, list, heat) = {}
  BY <1>3 DEF ShownColumn, AvailableSlos, RowsOfColumn
<1>5. SelectionSeeded /\ SelectionFitsColumn
  BY <1>1, <1>4 DEF SelectionSeeded, SelectionKey, SelectionFitsColumn, Available
<1>6. FormAnchored /\ ReportsTrue
  BY <1>1, FreshFormShaped DEF FormAnchored, ReportsTrue
<1>7. ResponsesTrue
  BY <1>1, IdleTxnShaped, PanelAssumption DEF ResponsesTrue
<1> QED
  BY <1>2, <1>5, <1>6, <1>7 DEF PanelInv

LEMMA PanelStepKeeps == PanelInv /\ [Next]_vars => PanelInv'
<1> SUFFICES ASSUME PanelInv, [Next]_vars PROVE PanelInv'
  OBVIOUS
<1>1. CASE \E c \in Columns : Publish(c)
  <2>1. UNCHANGED <<txn, done, list, heat, panel, scope, form>>
    BY <1>1 DEF Publish, seriesVars
  <2> QED
    BY <2>1, StillScreen DEF PanelInv, Shape, TxnShape, TxnShaped, PanelShaped, FormShaped,
       ScopeShaped, ResponsesTrue, ReportsTrue
<1>2. CASE UNCHANGED vars
  <2>1. UNCHANGED <<txn, done, list, heat, panel, scope, form>>
    BY <1>2 DEF vars, seriesVars, panelVars
  <2> QED
    BY <2>1, StillScreen DEF PanelInv, Shape, TxnShape, TxnShaped, PanelShaped, FormShaped,
       ScopeShaped, ResponsesTrue, ReportsTrue
<1>3. CASE PanelStep
  BY <1>1, <1>3, DataKeeps, ClicksKeep, CloseKeeps, OpenKeeps, PickKeeps, RetryKeeps,
     ConfirmKeeps, UnsuccessfulKeeps, RespondKeeps DEF PanelStep
<1> QED
  BY <1>2, <1>3, ServerKeeps DEF Next

LEMMA PanelInvariant == Spec => []PanelInv
  BY PanelInitKeeps, PanelStepKeeps, PTL DEF Spec

(* An action form on screen acts on the column it was opened on or the     *)
(* user has clicked since, in whatever order the list and the heatmap      *)
(* answer (AssetPanel.tsx closes the form when the evaluation in effect    *)
(* changes).                                                               *)
THEOREM FormsKeepTheirColumn == Spec => []FormKeepsItsColumn
<1>1. PanelInv => FormKeepsItsColumn
  BY DEF PanelInv, FormAnchored, Anchor, FormKeepsItsColumn, Shown, ActionsShown, Column_,
         ShownColumn
<1> QED
  BY <1>1, PanelInvariant, PTL

(* Only "Retry failed" can bring an SLO into the selection that the column *)
(* on screen does not have (useSloScope.ts).                               *)
THEOREM SelectionsFitTheirColumn == Spec => []SelectionFitsColumn
  BY PanelInvariant, PTL DEF PanelInv

(* A row that a form reports as a success was committed by its command,    *)
(* with responses lost, forms closed early and another user at work        *)
(* (run-batch.ts and SessionMiddleware).                                   *)
THEOREM SuccessesWereCommitted == Spec => []SuccessMeansCommitted
<1>1. PanelInv => SuccessMeansCommitted
  BY DEF PanelInv, ReportsTrue, SuccessMeansCommitted
<1> QED
  BY <1>1, PanelInvariant, PTL

-----------------------------------------------------------------------------
(* The engine's results under the forms.                                   *)

(* The rows a form can name are rows, and its kind is one of the five.     *)
RowsKnown ==
    /\ DOMAIN heat.out \subseteq Rows
    /\ form.kind \in Kinds \union {NULL}
    /\ session \in Sessions

FormsKeptInv == PanelInv /\ RowsKnown /\ KeptInv

LEMMA RenderKnown ==
  ASSUME RowsKnown, NEW p, NEW l, NEW h, NEW s, NEW f, Render(p, l, h, s, f),
         DOMAIN h.out \subseteq Rows, f.kind \in Kinds \union {NULL}, UNCHANGED session
  PROVE  RowsKnown'
<1>1. heat' = h /\ (\/ form' = FreshForm(NULL) \/ form' = f
                   \/ form' = [FreshForm(f.kind) EXCEPT !.column = f.column])
  BY DEF Render
<1>2. form'.kind \in Kinds \union {NULL}
  <2>1. CASE form' = FreshForm(NULL)
    BY <2>1, FreshFormShaped
  <2>2. CASE form' = [FreshForm(f.kind) EXCEPT !.column = f.column]
    BY <2>2, MovedFormShaped
  <2> QED
    BY <1>1, <2>1, <2>2
<1> QED
  BY <1>1, <1>2 DEF RowsKnown

LEMMA HeatAnswerKnown ==
  ASSUME NEW w
  PROVE  DOMAIN HeatAnswer(w).out \subseteq Rows /\ DOMAIN NoHeat.out \subseteq Rows
  BY DEF HeatAnswer, NoHeat, Answered

LEMMA KnownStep == PanelInv /\ RowsKnown /\ [Next]_vars => RowsKnown'
<1> SUFFICES ASSUME PanelInv, RowsKnown, [Next]_vars PROVE RowsKnown'
  OBVIOUS
<1>0. FormShaped(form) /\ DOMAIN heat.out \subseteq Rows /\ form.kind \in Kinds \union {NULL}
  BY DEF PanelInv, Shape, RowsKnown
<1>1. CASE ReceiveList
  BY <1>0, <1>1, RenderKnown DEF ReceiveList, Rerender
<1>2. CASE ReceiveHeat
  BY <1>0, <1>2, RenderKnown, HeatAnswerKnown DEF ReceiveHeat, Rerender
<1>3. ASSUME NEW w \in Windows, SetWindow(w) PROVE RowsKnown'
  BY <1>0, <1>3, RenderKnown, HeatAnswerKnown DEF SetWindow, Click
<1>4. ASSUME NEW r \in Rows, ClickCell(r) \/ ClickTrend(r) PROVE RowsKnown'
  <2>1. Taken(Column(r)).kind = form.kind
    BY <1>0 DEF Taken, FormShaped
  <2> QED
    BY <1>0, <1>4, <2>1, RenderKnown DEF ClickCell, ClickTrend, Click
<1>5. CASE Remount \/ CloseForm
  BY <1>0, <1>5, RenderKnown, FreshFormShaped DEF Remount, CloseForm, Click, OnlyForm, Rerender
<1>6. ASSUME NEW kind \in Kinds, OpenForm(kind) PROVE RowsKnown'
  BY <1>0, <1>6, RenderKnown, MovedFormShaped DEF OpenForm, OnlyForm, Rerender
<1>7. CASE PickSlos
  BY <1>0, <1>7, RenderKnown DEF PickSlos, OnlyForm, Rerender
<1>8. CASE RetryFailed
  <2> DEFINE none == [s \in {} |-> NULL]
             f == [form EXCEPT !.step = "edit", !.results = none]
  <2>1. \E s : Render(panel, list, heat, s, f) /\ UNCHANGED session
    BY <1>8 DEF RetryFailed, OnlyForm, Rerender
  <2> HIDE DEF none
  <2>2. f.kind = form.kind
    BY <1>0 DEF FormShaped
  <2> HIDE DEF f
  <2> QED
    BY <1>0, <2>1, <2>2, RenderKnown
<1>9. CASE \/ \E to \in OverrideTargets : ConfirmBatch(to) \/ ConfirmLocally(to)
           \/ ConfirmReEvaluate \/ Respond \/ LoseResponse
  <2>1. heat' = heat /\ session' = session
    BY <1>9 DEF ConfirmBatch, ConfirmLocally, ConfirmReEvaluate, Respond, LoseResponse
  <2>2. form'.kind = form.kind
    BY <1>0, <1>9 DEF ConfirmBatch, ConfirmLocally, ConfirmReEvaluate, Respond, LoseResponse,
                      AfterReply, FormShaped
  <2> QED
    BY <2>1, <2>2 DEF RowsKnown
<1>10. CASE (\E c \in Columns : Publish(c)) \/ ServeMine \/ Other \/ UNCHANGED vars
  BY <1>10 DEF Publish, ServeMine, Other, vars, panelVars, RowsKnown
<1> QED
  BY <1>1, <1>2, <1>3, <1>4, <1>5, <1>6, <1>7, <1>8, <1>9, <1>10 DEF Next, PanelStep

\* A batch form names rows of the column on screen.
LEMMA BatchIsPlain ==
  ASSUME FormsKeptInv, NEW to \in OverrideTargets, ConfirmBatch(to)
  PROVE  KeptInv'
<1> DEFINE sent == scope.selected \ Skipped(to)
           op == CommandOf(form.kind)
           ids == {RowOf(s) : s \in sent}
<1>1. Begin(mine, op, ids, to) /\ Unknown = {} /\ form.kind \in Kinds \ {"re-evaluate"}
      /\ mine \in Txns
  BY PanelAssumption DEF ConfirmBatch, MayConfirm, Editing, FormsKeptInv, RowsKnown
<1>2. op \in Commands \ Restoring /\ op \notin Rescoring
  BY <1>1 DEF CommandOf, Kinds, Commands, Restoring, Rescoring, Pinning
<1>3. ids \in SUBSET Rows
  <2> SUFFICES ASSUME NEW s \in sent PROVE RowOf(s) \in Rows
    OBVIOUS
  <2>1. s \in AvailableSlos(panel, list, heat)
    BY <1>1 DEF Unknown, Available
  <2>2. PICK r \in RowsOfColumn(heat, Column_) : Slo(r) = s
    BY <2>1 DEF AvailableSlos, Column_
  <2>3. r \in Rows /\ r[1] = Column_ /\ r[2] = s
    BY <2>2 DEF RowsOfColumn, Column, Slo, FormsKeptInv, RowsKnown
  <2>4. r = <<r[1], r[2]>>
    BY <2>3, SeriesAssumption
  <2> QED
    BY <2>3, <2>4 DEF RowOf
<1>4. to \in Outcomes \union {NULL}
  BY DEF OverrideTargets
<1> HIDE DEF op, ids
<1> QED
  BY <1>1, <1>2, <1>3, <1>4, BeginKeeps DEF FormsKeptInv

LEMMA FormsKeptStep ==
  ASSUME Ops \cap Restoring = {}
  PROVE  FormsKeptInv /\ [Next]_vars => FormsKeptInv'
<1> SUFFICES ASSUME FormsKeptInv, [Next]_vars PROVE KeptInv'
  BY PanelStepKeeps, KnownStep DEF FormsKeptInv
<1>0. KeptInv /\ mine \in Txns /\ theirs \in Txns /\ session \in Sessions
  BY PanelAssumption DEF FormsKeptInv, RowsKnown
<1>1. ASSUME NEW to \in OverrideTargets, ConfirmBatch(to) PROVE KeptInv'
  BY <1>1, BatchIsPlain
<1>2. CASE ConfirmReEvaluate
  <2> PICK op \in Rescoring, from \in Columns, to \in Outcomes :
        Begin(mine, op, {r \in Rows : Slo(r) \in scope.selected /\ Column(r) >= from}, to)
    BY <1>2 DEF ConfirmReEvaluate, Rescoring
  <2>1. op \in Commands \ Restoring
    BY DEF Commands, Rescoring, Restoring
  <2> QED
    BY <1>0, <2>1, BeginKeeps
<1>3. CASE Respond
  <2>1. End(mine)
    BY <1>3, <1>0 DEF Respond, Replied, End, KeptInv, SeriesShape
  <2> QED
    BY <1>0, <2>1, EndKeeps
<1>4. CASE ServeMine
  BY <1>0, <1>4, StatementKeeps, EndKeeps DEF ServeMine
<1>5. CASE Other
  <2>1. session.others \in SUBSET (Commands \ Restoring)
    BY <1>0, PanelAssumption, SeriesAssumption
  <2> QED
    BY <1>0, <1>5, <2>1, CommandKeeps, StatementKeeps, EndKeeps DEF Other
<1>6. ASSUME UNCHANGED seriesVars PROVE KeptInv'
  BY <1>0, <1>6, KeptStutter
<1>7. CASE ReceiveList \/ ReceiveHeat \/ Remount \/ CloseForm \/ PickSlos \/ LoseResponse
           \/ RetryFailed
  BY <1>6, <1>7 DEF ReceiveList, ReceiveHeat, Remount, CloseForm, PickSlos, LoseResponse,
                    RetryFailed, OnlyForm, Rerender, Click
<1>8. CASE \/ \E to \in OverrideTargets : ConfirmLocally(to)
           \/ \E c \in Columns : Publish(c)
           \/ \E w \in Windows : SetWindow(w)
           \/ \E r \in Rows : ClickCell(r) \/ ClickTrend(r)
           \/ \E kind \in Kinds : OpenForm(kind)
  BY <1>6, <1>8 DEF ConfirmLocally, Publish, SetWindow, ClickCell, ClickTrend, OpenForm,
                    OnlyForm, Rerender, Click
<1>9. CASE UNCHANGED vars
  BY <1>6, <1>9 DEF vars
<1> QED
  BY <1>1, <1>2, <1>3, <1>4, <1>5, <1>7, <1>8, <1>9 DEF Next, PanelStep

(* Whatever the forms send, repeat after a lost response or lose, and      *)
(* whatever another user's commands do meanwhile, a row shows a result of  *)
(* the engine or keeps one as its original, as long as nobody restores an  *)
(* override.                                                               *)
THEOREM EngineResultsKeptByForms ==
  ASSUME Ops \cap Restoring = {}
  PROVE  Spec => []EngineResultKept
<1>1. Init => FormsKeptInv
  <2> SUFFICES ASSUME Init PROVE RowsKnown
    BY PanelInitKeeps, SeriesKeptInit DEF FormsKeptInv, Init
  <2> QED
    BY HeatAnswerKnown, FreshFormShaped DEF Init, RowsKnown
<1>2. FormsKeptInv /\ [Next]_vars => FormsKeptInv'
  BY FormsKeptStep
<1>3. FormsKeptInv => EngineResultKept
  BY KeptMeansEngineResultKept DEF FormsKeptInv
<1> QED
  BY <1>1, <1>2, <1>3, PTL DEF Spec
=============================================================================
