----------------------------- MODULE NoteLabels -----------------------------
(***************************************************************************)
(* The pure part of a trend chart: where the pills of its notes go, how    *)
(* its value axis is framed, and how the cells of a heatmap merge the      *)
(* evaluations that fall into them. Pixel positions are doubled, so that   *)
(* half a width is a whole number; values of the axis are in ten-         *)
(* thousandths.                                                            *)
(***************************************************************************)
EXTENDS Listings, FiniteSets, FiniteSetsExt

CONSTANTS
    PowersOfTen,    \* 10, 100, ... as far as the values reach
    Kept            \* 10^(n-1), when a bound keeps n significant digits (the code: 12)

ASSUME DigitsAssumption ==
    /\ PowersOfTen \subseteq Nat /\ IsFiniteSet(PowersOfTen) /\ 10 \in PowersOfTen
    /\ \A p \in PowersOfTen : p >= 10 /\ p % 10 = 0
    /\ Kept \in Nat \ {0}

MAX_ROWS == 3
GRID_LEFT == 56
GRID_RIGHT == 16
MIN_LABEL_GAP == 2
LABEL_EDGE_INSET == 2
ROW_HEIGHT == 16
RowTop(row) == 6 + 20 * row

-----------------------------------------------------------------------------
(* Pills. A label is [x |-> centre, w |-> width], x doubled.               *)

\* The doubled position of the i-th of n points (i from 1).
PixelXForIndex(i, n, width) ==
    IF n <= 1 THEN 2 * GRID_LEFT
    ELSE 2 * GRID_LEFT + (2 * (i - 1) * (width - GRID_LEFT - GRID_RIGHT)) \div (n - 1)

Clamped(x, lo, hi) == Min({Max({x, lo}), hi})

ClampLabelX(x, w, width) ==
    LET lo == w + 2 * LABEL_EDGE_INSET
    IN  Clamped(x, lo, Max({2 * width - w - 2 * LABEL_EDGE_INSET, lo}))

LeftEdge(item) == item.x - item.w
RightEdge(item) == item.x + item.w

\* The later item keeps its distance from the earlier one. (Within a row the
\* right edges grow, so the last item of the row is the one that counts.)
Clear_Centres(earlier, later) == later.x - RightEdge(earlier) >= 2 * MIN_LABEL_GAP

Clear(earlier, later) == LeftEdge(later) - RightEdge(earlier) >= 2 * MIN_LABEL_GAP

FreeRows(items, placed, rowCount) ==
    {row \in 0..rowCount - 1 : \A j \in DOMAIN placed :
        placed[j] = row => Clear(items[j], items[Len(placed) + 1])}

\* First fit, in the order of the points; shorter than the items when one of
\* them found no row.
TryPack(items, rowCount) ==
    LET pack[k \in 0..Len(items)] ==
          IF k = 0 THEN << >>
          ELSE LET free == FreeRows(items, pack[k - 1], rowCount)
               IN  IF Len(pack[k - 1]) < k - 1 \/ free = {} THEN pack[k - 1]
                   ELSE Append(pack[k - 1], Min(free))
    IN  pack[Len(items)]

PackRows(items) ==
    LET fits == {rows \in 1..MAX_ROWS : Len(TryPack(items, rows)) = Len(items)}
    IN  IF fits # {} THEN TryPack(items, Min(fits))
        ELSE [i \in DOMAIN items |-> (i - 1) % MAX_ROWS]

\* The labels of a chart: one for each of n points with a visible note, whose
\* pill is widths[i] wide (0: no note), when the container has been measured.
PrepareLabels(widths, n, width) ==
    LET noted == InOrder({i \in 1..n : widths[i] > 0}, n)
    IN  IF width <= GRID_LEFT + GRID_RIGHT THEN << >>
        ELSE [k \in DOMAIN noted |->
                 [x |-> ClampLabelX(PixelXForIndex(noted[k], n, width), widths[noted[k]], width),
                  w |-> widths[noted[k]], point |-> noted[k]]]

\* Rows in use push the plot down.
BandPx(rows) ==
    IF rows = << >> THEN 0
    ELSE RowTop(Max({rows[i] : i \in DOMAIN rows})) + ROW_HEIGHT \div 2 + 6

-----------------------------------------------------------------------------
(* The value axis.                                                         *)

\* The tick step for a span: 1, 2, 2.5 or 5 times a power of ten, near a fifth
\* of the span with its padding.
NiceStep(span) ==
    LET raw == (span * 24) \div 100
        power == Max({p \in PowersOfTen : p <= raw})
    IN  Max({c \in {power, 2 * power, (5 * power) \div 2, 5 * power} : c <= raw})

FloorTo(v, step) == (v \div step) * step
CeilTo(v, step) == -FloorTo(-v, step)

Size(v) == Max({v, -v})

\* A flat series still gets a frame: a tenth of its value, or one around zero.
Span(lo, hi) ==
    IF hi > lo THEN hi - lo
    ELSE LET tenth == Size(hi) \div 10 IN IF tenth = 0 THEN 10000 ELSE tenth

Beyond_Inward(lo, hi) ==
    LET step == NiceStep(Span(lo, hi))
    IN  [min |-> CeilTo(lo, step), max |-> FloorTo(hi, step)]

\* A tenth of the span beyond the data, then out to the next tick.
Beyond(lo, hi) ==
    LET span == Span(lo, hi)
        step == NiceStep(span)
    IN  [min |-> FloorTo(lo - span \div 10, step), max |-> CeilTo(hi + span \div 10, step)]

\* The unit of the last significant digit that is kept of a bound; the values here
\* have no digits below 1.
Unit(v) == Max({1} \union {p \in PowersOfTen : p <= Size(v) \div Kept})

\* To the nearest multiple of it, halves away from zero.
RoundBound(v) ==
    LET unit == Unit(v)
        size == ((2 * Size(v) + unit) \div (2 * unit)) * unit
    IN  IF v < 0 THEN -size ELSE size

\* The automatic bounds of data between lo and hi.
PaddedAxis(lo, hi) ==
    [min |-> RoundBound(Beyond(lo, hi).min), max |-> RoundBound(Beyond(lo, hi).max)]

-----------------------------------------------------------------------------
(* Heatmap cells. Evaluations are [asset, slot, name, result, note].       *)

RESULT_RANK == [pass |-> 0, warning |-> 1, fail |-> 2, error |-> 3, invalidated |-> 4]

Accumulated_Last(cell, e) == [result |-> e.result, note |-> cell.note \/ e.note, count |-> cell.count + 1]

NoCell == [result |-> "pass", note |-> FALSE, count |-> 0]

\* The first evaluation of a cell is as it is; later ones count when they are worse.
Accumulated(cell, e) ==
    [result |-> IF cell.count = 0 \/ RESULT_RANK[e.result] > RESULT_RANK[cell.result]
                THEN e.result ELSE cell.result,
     note   |-> cell.note \/ e.note,
     count  |-> cell.count + 1]

KeyOf(e) == <<e.asset, e.slot, e.name>>

\* The cell of one asset, slot and evaluation name, from the list in its order.
CellOf(evals, key) ==
    LET cell[n \in 0..Len(evals)] ==
          IF n = 0 THEN NoCell
          ELSE IF KeyOf(evals[n]) = key THEN Accumulated(cell[n - 1], evals[n])
          ELSE cell[n - 1]
    IN  cell[Len(evals)]

\* A cell for every key; a position of the grid that no evaluation falls in
\* gets an empty cell.
BuildData(evals) ==
    LET keys == {KeyOf(evals[i]) : i \in DOMAIN evals}
        gaps == {at \in {k[1] : k \in keys} \X {k[2] : k \in keys} :
                    \A k \in keys : <<k[1], k[2]>> # at}
    IN  [cells |-> [k \in keys |-> CellOf(evals, k)], gaps |-> gaps]
=============================================================================
