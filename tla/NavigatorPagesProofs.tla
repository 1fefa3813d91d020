------------------------ MODULE NavigatorPagesProofs ------------------------
(***************************************************************************)
(* What the pages of the UI keep in every history of every number of tabs: *)
(* the range a tab shows is the one chosen in it, what a page asks for     *)
(* belongs to the asset on screen, and a bulk triage is about ticked       *)
(* change points. The range and the pages are separate arguments: TimeInv  *)
(* is about the tabs and their ranges, PaneInv about what they show.       *)
(***************************************************************************)
EXTENDS NavigatorPages, WellFoundedInduction, TLAPS

-----------------------------------------------------------------------------
(* The inductive invariants.                                               *)

TabStates ==
    [hist: Seq(Locations), pos: Nat, range: RangeValues \union {NULL}, from: Int \union {NULL},
     picker: [from: Int \union {NULL}, to: Int \union {NULL}]]

TimeShape ==
    /\ tabs \in [Tabs -> TabStates]
    /\ chosen \in [Tabs -> RangeValues \union {NULL}]
    /\ stored \in RangeValues \union {NULL}
    /\ today \in Int
    /\ last \in Tabs \union {NULL}
    /\ \A t \in Tabs : tabs[t].pos <= Len(tabs[t].hist)

\* Every entry has a range, whichever way it came into the history.
EntriesSeeded ==
    \A t \in Tabs : \A i \in DOMAIN tabs[t].hist :
        tabs[t].hist[i].from # NULL /\ OwnEval(tabs[t].hist[i])

\* A tab that is open shows its viewer's range, and what its URL says if that can
\* be read: memoised or not, resolving it again would give the same.
TabsShowChosen ==
    \A t \in Tabs : tabs[t].pos # 0 =>
        /\ tabs[t].range \in RangeValues /\ tabs[t].from \in Int
        /\ tabs[t].range = chosen[t]
        /\ parseTimeParams(Loc(t).from, Loc(t).to) # NULL =>
              tabs[t].range = parseTimeParams(Loc(t).from, Loc(t).to)

\* What is stored is the range of the tab that was used last.
StoredIsLast ==
    last # NULL => tabs[last].pos # 0 /\ stored = chosen[last]

TimeInv == TimeShape /\ EntriesSeeded /\ TabsShowChosen /\ StoredIsLast

\* The state of a page by its kind. The heatmap of an explorer is an answer or none.
PaneShape(p) ==
    /\ p.kind \in {"none", "other", "asset", "list", "explorer", "triage"}
    /\ p.kind = "list" =>
         p \in [kind: {"list"}, names: {p.names}, date: {p.date}, visible: {p.visible}]
    /\ p.kind = "explorer" =>
         /\ p \in [kind: {"explorer"}, heat: {p.heat}, enabled: {p.enabled}]
         /\ p.heat = NULL \/ \A m \in p.heat : m = <<m[1], m[2]>>
    /\ p.kind = "triage" =>
         p \in [kind: {"triage"}, filter: {p.filter}, page: {p.page}, rows: {p.rows},
               selected: {p.selected}, sent: {p.sent}]

PaneInv ==
    /\ pane = [t \in Tabs |-> pane[t]] /\ ticked = [t \in Tabs |-> ticked[t]]
    /\ \A t \in Tabs : PaneShape(pane[t])
    /\ OnlyTickedTriaged

\* The scene stays the one the behaviour started with.
SceneKnown == scene \in Scenes

-----------------------------------------------------------------------------
(* Ranges and URL parameters.                                              *)

\* Reading a URL gives a range or nothing.
LEMMA ParsedIsRange ==
    ASSUME NEW from \in Tokens \union {NULL}, NEW to \in Tokens \union {NULL}
    PROVE  parseTimeParams(from, to) \in RangeValues \union {NULL}
<1>1. CASE from = NULL
  BY <1>1 DEF parseTimeParams
<1>2. CASE from # NULL
  <2>1. from \in Tokens
    BY <1>2
  <2>2. \A e \in BOOLEAN : parseAbsoluteToken(from, e) \in Int \union {NULL}
    BY <2>1 DEF Tokens, parseAbsoluteToken, StartOfDay, EndOfDay
  <2>3. to # NULL => \A e \in BOOLEAN : parseAbsoluteToken(to, e) \in Int \union {NULL}
    BY DEF Tokens, parseAbsoluteToken, StartOfDay, EndOfDay
  <2>4. \A d \in Int : Preset(d) \in RangeValues
    BY DEF Preset, RangeValues
  <2>5. \A f \in Int, e \in Int \union {NULL} : Absolute(f, e) \in RangeValues
    BY DEF Absolute, RangeValues
  <2>6. from.n \in Int
    BY <2>1 DEF Tokens
  <2> QED
    BY <1>2, <2>2, <2>3, <2>4, <2>5, <2>6 DEF parseTimeParams
<1> QED
  BY <1>1, <1>2

\* A range written to the URL is read back as it was.
LEMMA ParamsReadBack ==
    ASSUME NEW range \in RangeValues
    PROVE  /\ rangeToParams(range).from \in Tokens
           /\ rangeToParams(range).to \in Tokens \union {NULL}
           /\ parseTimeParams(rangeToParams(range).from, rangeToParams(range).to) = range
<1>1. CASE range \in [mode: {"preset"}, days: Int, from: {NULL}, to: {NULL}]
  <2> DEFINE token == [kind |-> "now-", n |-> range.days]
  <2>1. rangeToParams(range).from = token /\ rangeToParams(range).to = NULL
    BY <1>1 DEF rangeToParams
  <2>2. token \in Tokens /\ token.kind = "now-" /\ token.n = range.days
    BY <1>1 DEF Tokens
  <2>3. Preset(range.days) = range
    BY <1>1 DEF Preset
  <2>4. token # NULL
    BY <2>2, TimeRangeAssumption
  <2> HIDE DEF token
  <2> QED
    BY <2>1, <2>2, <2>3, <2>4 DEF parseTimeParams
<1>2. CASE range \in [mode: {"absolute"}, days: {NULL}, from: Int, to: Int \union {NULL}]
  <2> DEFINE token == Epoch(range.from)
             end == Epoch(range.to)
  <2>1. rangeToParams(range).from = token /\ rangeToParams(range).to = end
    BY <1>2 DEF rangeToParams
  <2>2. token \in Tokens /\ token.kind = "epoch" /\ token.n = range.from
    BY <1>2, TimeRangeAssumption DEF Tokens, Epoch
  <2>3. range.to # NULL => end \in Tokens /\ end.kind = "epoch" /\ end.n = range.to
    BY <1>2, TimeRangeAssumption DEF Tokens, Epoch
  <2>4. range.to = NULL => end = NULL
    BY DEF Epoch
  <2>5. Absolute(range.from, range.to) = range /\ range.from # NULL
    BY <1>2, TimeRangeAssumption DEF Absolute
  <2>6. token # NULL /\ (range.to # NULL => end # NULL)
    BY <2>2, <2>3, TimeRangeAssumption
  <2> HIDE DEF token, end
  <2>7. parseAbsoluteToken(token, FALSE) = range.from
    BY <2>2 DEF parseAbsoluteToken
  <2>8. range.to # NULL => parseAbsoluteToken(end, TRUE) = range.to
    BY <2>3 DEF parseAbsoluteToken
  <2>9. parseTimeParams(token, end) = Absolute(range.from, range.to)
    BY <2>2, <2>4, <2>5, <2>6, <2>7, <2>8 DEF parseTimeParams
  <2> QED
    BY <2>1, <2>2, <2>3, <2>4, <2>5, <2>9
<1> QED
  BY <1>1, <1>2 DEF RangeValues

\* The start of a range on screen is an instant.
LEMMA FromIsInstant ==
    ASSUME TimeShape, NEW range \in RangeValues
    PROVE  FromIso(range) \in Int
<1>1. today \in Int /\ Zone \in Int
  BY TimeRangeAssumption DEF TimeShape
<1>2. \/ range.mode = "absolute" /\ range.from \in Int
      \/ range.mode = "preset" /\ range.days \in Int
  BY DEF RangeValues
<1> QED
  BY <1>1, <1>2 DEF FromIso, computeFromDate, LocalMidnight

\* What is loaded from the storage is a range.
LEMMA LoadedIsRange ==
    ASSUME TimeShape
    PROVE  loadRange \in RangeValues
  BY TimeRangeAssumption DEF TimeShape, loadRange, Preset, RangeValues

-----------------------------------------------------------------------------
(* A tab comes to a location.                                              *)

\* The range in force is that of the tab that was used last.
LEMMA LastChosen ==
    ASSUME TimeInv, NEW t \in Tabs, last = t
    PROVE  loadRange = chosen[t]
<1>1. tabs[t].pos # 0 /\ stored = chosen[t]
  BY TimeRangeAssumption DEF TimeInv, StoredIsLast
<1>2. chosen[t] \in RangeValues
  BY <1>1 DEF TimeInv, TabsShowChosen
<1> QED
  BY <1>1, <1>2, TimeRangeAssumption DEF loadRange

\* The tab before: as it is, or closed because the page is loaded anew.
LEMMA OldTab ==
    ASSUME TimeInv, NEW t \in Tabs, NEW old, old \in {tabs[t], Closed}, old.pos # 0
    PROVE  /\ old = tabs[t] /\ old.pos \in DOMAIN old.hist
           /\ old.hist[old.pos].from \in Tokens
           /\ old.hist[old.pos].to \in Tokens \union {NULL}
           /\ old.range \in RangeValues /\ old.from \in Int /\ old.range = chosen[t]
           /\ LET parsed == parseTimeParams(old.hist[old.pos].from, old.hist[old.pos].to)
              IN  parsed # NULL => old.range = parsed
<1>1. old = tabs[t]
  BY DEF Closed
<1>2. tabs[t] \in TabStates /\ tabs[t].pos <= Len(tabs[t].hist)
  BY DEF TimeInv, TimeShape
<1>3. tabs[t].pos \in DOMAIN tabs[t].hist /\ tabs[t].hist \in Seq(Locations)
  BY <1>1, <1>2 DEF TabStates
<1>4. tabs[t].hist[tabs[t].pos] \in Locations
  BY <1>3
<1>5. tabs[t].hist[tabs[t].pos].from # NULL
  BY <1>3 DEF TimeInv, EntriesSeeded
<1>6. /\ tabs[t].hist[tabs[t].pos].from \in Tokens
      /\ tabs[t].hist[tabs[t].pos].to \in Tokens \union {NULL}
  BY <1>4, <1>5 DEF Locations
<1> QED
  BY <1>1, <1>3, <1>6 DEF TimeInv, TabsShowChosen, Loc

\* Seeding writes the range in force, and leaves a location that has one.
LEMMA SeededParams ==
    ASSUME TimeShape, NEW loc \in Locations
    PROVE  /\ Seeded(loc) \in Locations
           /\ Seeded(loc).from \in Tokens /\ Seeded(loc).to \in Tokens \union {NULL}
           /\ Seeded(loc).eval = loc.eval /\ Seeded(loc).asset = loc.asset
           /\ loc.from # NULL => Seeded(loc) = loc
           /\ loc.from = NULL =>
                parseTimeParams(Seeded(loc).from, Seeded(loc).to) = loadRange
<1>1. CASE loc.from # NULL
  BY <1>1 DEF Seeded, Locations
<1>2. CASE loc.from = NULL
  <2> DEFINE params == rangeToParams(loadRange)
  <2>1. Resolved(loc) = loadRange
    BY <1>2 DEF Resolved, parseTimeParams
  <2>2. /\ params.from \in Tokens /\ params.to \in Tokens \union {NULL}
        /\ parseTimeParams(params.from, params.to) = loadRange
    BY LoadedIsRange, ParamsReadBack
  <2> HIDE DEF params
  <2>3. Seeded(loc) = [loc EXCEPT !.from = params.from, !.to = params.to]
    BY <1>2, <2>1 DEF Seeded, WithRange, params
  <2>4. /\ Seeded(loc) \in Locations
        /\ Seeded(loc).from = params.from /\ Seeded(loc).to = params.to
        /\ Seeded(loc).eval = loc.eval /\ Seeded(loc).asset = loc.asset
    BY <2>2, <2>3 DEF Locations
  <2> QED
    BY <1>2, <2>2, <2>4
<1> QED
  BY <1>1, <1>2

\* What a tab shows is what its viewer asked for by coming there.
LEMMA ShownIsAsked ==
    ASSUME TimeInv, NEW t \in Tabs, NEW old, old \in {tabs[t], Closed}, NEW loc \in Locations
    PROVE  /\ RangeAt(old, Seeded(loc)) \in RangeValues
           /\ RangeAt(old, Seeded(loc)) = AskedFor(t, old, loc)
           /\ LET parsed == parseTimeParams(Seeded(loc).from, Seeded(loc).to)
              IN  parsed # NULL => RangeAt(old, Seeded(loc)) = parsed
<1> DEFINE parsed == parseTimeParams(Seeded(loc).from, Seeded(loc).to)
<1>1. TimeShape
  BY DEF TimeInv
<1>2. /\ Seeded(loc).from \in Tokens /\ Seeded(loc).to \in Tokens \union {NULL}
      /\ loc.from # NULL => Seeded(loc) = loc
      /\ loc.from = NULL => parsed = loadRange
  BY <1>1, SeededParams
<1>3. loadRange \in RangeValues /\ loadRange # NULL
  BY <1>1, LoadedIsRange, TimeRangeAssumption
<1>4. parsed \in RangeValues \union {NULL}
  BY <1>2, ParsedIsRange
<1>5. Resolved(Seeded(loc)) = (IF parsed # NULL THEN parsed ELSE loadRange)
  BY DEF Resolved
<1>6. last = t => loadRange = chosen[t]
  BY LastChosen
<1>7. CASE loc.from = NULL
  <2>1. parsed = loadRange
    BY <1>7, <1>2
  <2>2. ~SameParams(old, loc)
    <3>1. SUFFICES ASSUME old.pos # 0 PROVE old.hist[old.pos].from # NULL
      BY <1>7 DEF SameParams
    <3> QED
      BY <3>1, OldTab, TimeRangeAssumption
  <2>3. parseTimeParams(loc.from, loc.to) = NULL
    BY <1>7 DEF parseTimeParams
  <2>4. AskedFor(t, old, loc) = loadRange
    BY <2>2, <2>3, <1>6 DEF AskedFor
  <2>5. RangeAt(old, Seeded(loc)) = loadRange
    <3>1. CASE SameParams(old, Seeded(loc))
      <4>1. old.pos # 0 /\ parseTimeParams(old.hist[old.pos].from, old.hist[old.pos].to) = parsed
        BY <3>1 DEF SameParams
      <4>2. old.range = parsed
        BY <4>1, <2>1, <1>3, OldTab
      <4> QED
        BY <3>1, <4>2, <2>1 DEF RangeAt
    <3>2. CASE ~SameParams(old, Seeded(loc))
      BY <3>2, <2>1, <1>3, <1>5 DEF RangeAt
    <3> QED
      BY <3>1, <3>2
  <2> QED
    BY <2>1, <2>4, <2>5, <1>3
<1>8. CASE loc.from # NULL
  <2>1. Seeded(loc) = loc
    BY <1>8, <1>2
  <2>2. CASE SameParams(old, loc)
    <3>1. /\ old.pos # 0
          /\ parseTimeParams(old.hist[old.pos].from, old.hist[old.pos].to) = parsed
      BY <2>1, <2>2 DEF SameParams
    <3>2. old.range \in RangeValues /\ old.range = chosen[t] /\ (parsed # NULL => old.range = parsed)
      BY <3>1, OldTab
    <3> QED
      BY <2>1, <2>2, <3>2 DEF RangeAt, AskedFor
  <2>3. CASE ~SameParams(old, loc)
    <3>1. RangeAt(old, loc) = (IF parsed # NULL THEN parsed ELSE loadRange)
      BY <2>1, <2>3, <1>5 DEF RangeAt
    <3>2. AskedFor(t, old, loc) = (IF parsed # NULL THEN parsed ELSE loadRange)
      BY <2>1, <2>3, <1>6 DEF AskedFor
    <3> QED
      BY <2>1, <3>1, <3>2, <1>3, <1>4
  <2> QED
    BY <2>2, <2>3
<1> QED
  BY <1>7, <1>8

\* A tab whose state is replaced by one that is open, with the range asked for, saved.
LEMMA TabReplaced ==
    ASSUME TimeInv, NEW t \in Tabs, NEW tab \in TabStates,
           tab.pos \in DOMAIN tab.hist,
           \A i \in DOMAIN tab.hist : tab.hist[i].from # NULL /\ OwnEval(tab.hist[i]),
           tab.range \in RangeValues, tab.from \in Int,
           LET parsed == parseTimeParams(tab.hist[tab.pos].from, tab.hist[tab.pos].to)
           IN  parsed # NULL => tab.range = parsed,
           tabs' = [tabs EXCEPT ![t] = tab], stored' = tab.range,
           chosen' = [chosen EXCEPT ![t] = tab.range], last' = t, UNCHANGED today
    PROVE  TimeInv'
<1>1. tabs \in [Tabs -> TabStates] /\ chosen \in [Tabs -> RangeValues \union {NULL}]
  BY DEF TimeInv, TimeShape
<1>2. tabs'[t] = tab /\ chosen'[t] = tab.range
  BY <1>1
<1>3. \A u \in Tabs \ {t} : tabs'[u] = tabs[u] /\ chosen'[u] = chosen[u]
  BY <1>1
<1>4. tab.pos # 0 /\ tab.pos <= Len(tab.hist)
  BY DEF TabStates
<1>5. TimeShape'
  <2>1. \A u \in Tabs : tabs'[u].pos <= Len(tabs'[u].hist)
    BY <1>2, <1>3, <1>4 DEF TimeInv, TimeShape
  <2> QED
    BY <1>1, <2>1 DEF TimeInv, TimeShape
<1>6. EntriesSeeded'
  BY <1>2, <1>3 DEF TimeInv, EntriesSeeded, OwnEval
<1>7. TabsShowChosen'
  <2>1. ASSUME NEW u \in Tabs, tabs'[u].pos # 0
        PROVE  /\ tabs'[u].range \in RangeValues /\ tabs'[u].from \in Int
               /\ tabs'[u].range = chosen'[u]
               /\ LET at == tabs'[u].hist[tabs'[u].pos]
                  IN  parseTimeParams(at.from, at.to) # NULL =>
                        tabs'[u].range = parseTimeParams(at.from, at.to)
    <3>1. CASE u = t
      BY <3>1, <1>2
    <3>2. CASE u # t
      BY <3>2, <2>1, <1>3 DEF TimeInv, TabsShowChosen, Loc
    <3> QED
      BY <3>1, <3>2
  <2> QED
    BY <2>1 DEF TabsShowChosen, Loc, parseTimeParams, parseAbsoluteToken, Preset, Absolute
<1>8. StoredIsLast'
  BY <1>2, <1>4 DEF StoredIsLast
<1> QED
  BY <1>5, <1>6, <1>7, <1>8 DEF TimeInv

\* Coming to a location, new or in the history.
LEMMA SettleKeeps ==
    ASSUME TimeInv, NEW t \in Tabs, NEW old, old \in {tabs[t], Closed}, NEW loc \in Locations,
           NEW hist \in Seq(Locations), NEW pos \in DOMAIN hist,
           \A i \in DOMAIN hist : hist[i].from # NULL /\ OwnEval(hist[i]),
           hist[pos].from = Seeded(loc).from, hist[pos].to = Seeded(loc).to,
           Settle(t, old, hist, pos, loc)
    PROVE  TimeInv'
<1> DEFINE range == RangeAt(old, Seeded(loc))
           from == IF SameParams(old, loc) THEN old.from ELSE FromIso(range)
           picker == IF ~HasPicker(loc) THEN NoPicker
                     ELSE IF old.pos # 0 /\ PanelKey(old.hist[old.pos]) = PanelKey(loc) THEN old.picker
                     ELSE MountedPicker(from, range)
           tab == [hist |-> hist, pos |-> pos, range |-> range, from |-> from, picker |-> picker]
<1>1. TimeShape
  BY DEF TimeInv
<1>2. /\ range \in RangeValues /\ range = AskedFor(t, old, loc)
      /\ LET parsed == parseTimeParams(Seeded(loc).from, Seeded(loc).to)
         IN  parsed # NULL => range = parsed
  BY ShownIsAsked
<1>3. /\ tabs' = [tabs EXCEPT ![t] = tab] /\ stored' = range
      /\ chosen' = [chosen EXCEPT ![t] = range] /\ last' = t /\ UNCHANGED today
  BY <1>2 DEF Settle, Saved
<1> HIDE DEF range
<1>4. from \in Int
  <2>1. SameParams(old, loc) => old.pos # 0
    BY DEF SameParams
  <2>2. old.pos # 0 => old.from \in Int
    BY OldTab
  <2>3. FromIso(range) \in Int
    BY <1>1, <1>2, FromIsInstant
  <2> QED
    BY <2>1, <2>2, <2>3
<1> HIDE DEF from
<1>5. picker \in [from: Int \union {NULL}, to: Int \union {NULL}]
  <2>1. old.picker \in [from: Int \union {NULL}, to: Int \union {NULL}]
    BY <1>1 DEF TimeShape, TabStates, Closed, NoPicker
  <2>2. range.to \in Int \union {NULL}
    BY <1>2 DEF RangeValues
  <2>3. MountedPicker(from, range) \in [from: Int \union {NULL}, to: Int \union {NULL}]
    BY <1>4, <2>2 DEF MountedPicker, isoToCalendarDate
  <2> QED
    BY <2>1, <2>3 DEF NoPicker
<1> HIDE DEF picker
<1>6. /\ tab \in TabStates /\ tab.hist = hist /\ tab.pos = pos /\ tab.range = range
      /\ tab.from = from
  BY <1>2, <1>4, <1>5 DEF TabStates
<1> HIDE DEF tab
<1> QED
  BY <1>2, <1>3, <1>4, <1>6, TabReplaced

\* An entry added at the end of a history.
LEMMA Appended ==
    ASSUME NEW S, NEW s \in Seq(S), NEW x \in S
    PROVE  /\ Append(s, x) \in Seq(S) /\ Len(Append(s, x)) = Len(s) + 1
           /\ DOMAIN Append(s, x) = 1..(Len(s) + 1)
           /\ Append(s, x)[Len(s) + 1] = x
           /\ \A i \in 1..Len(s) : Append(s, x)[i] = s[i]
  OBVIOUS

\* What is kept of the history, with one more entry.
LEMMA Extended ==
    ASSUME TimeInv, NEW t \in Tabs, NEW loc \in Locations, loc.from # NULL, OwnEval(loc),
           NEW hist
    PROVE  hist = Append(SubSeq(tabs[t].hist, 1, tabs[t].pos), loc) =>
           /\ hist \in Seq(Locations) /\ Len(hist) \in DOMAIN hist /\ hist[Len(hist)] = loc
           /\ \A i \in DOMAIN hist : hist[i].from # NULL /\ OwnEval(hist[i])
<1> SUFFICES ASSUME hist = Append(SubSeq(tabs[t].hist, 1, tabs[t].pos), loc)
             PROVE  /\ hist \in Seq(Locations) /\ Len(hist) \in DOMAIN hist
                    /\ hist[Len(hist)] = loc
                    /\ \A i \in DOMAIN hist : hist[i].from # NULL /\ OwnEval(hist[i])
  OBVIOUS
<1> DEFINE h == tabs[t].hist
           p == tabs[t].pos
           kept == SubSeq(h, 1, p)
<1>1. h \in Seq(Locations) /\ p \in Nat /\ p <= Len(h)
  BY DEF TimeInv, TimeShape, TabStates
<1>2. \A i \in 1..Len(h) : h[i].from # NULL /\ OwnEval(h[i])
  BY <1>1 DEF TimeInv, EntriesSeeded
<1> HIDE DEF h, p
<1>3. kept \in Seq(Locations) /\ Len(kept) = p /\ \A i \in 1..p : kept[i] = h[i]
  BY <1>1
<1>4. hist = Append(kept, loc)
  BY DEF h, p
<1> HIDE DEF kept
<1>5. /\ hist \in Seq(Locations) /\ Len(hist) = p + 1 /\ DOMAIN hist = 1..(p + 1)
      /\ hist[p + 1] = loc /\ \A i \in 1..p : hist[i] = kept[i]
  <2>1. /\ Append(kept, loc) \in Seq(Locations) /\ Len(Append(kept, loc)) = Len(kept) + 1
        /\ DOMAIN Append(kept, loc) = 1..(Len(kept) + 1)
        /\ Append(kept, loc)[Len(kept) + 1] = loc
        /\ \A i \in 1..Len(kept) : Append(kept, loc)[i] = kept[i]
    <3>1. kept \in Seq(Locations) /\ loc \in Locations
      BY <1>3
    <3> QED
      BY <3>1, Appended
  <2> QED
    BY <1>3, <1>4, <2>1, Zenon
<1>6. \A i \in 1..(p + 1) : hist[i] = loc \/ (i \in 1..Len(h) /\ hist[i] = h[i])
  BY <1>1, <1>3, <1>5
<1>7. \A i \in DOMAIN hist : hist[i].from # NULL /\ OwnEval(hist[i])
  BY <1>2, <1>5, <1>6
<1> QED
  BY <1>1, <1>5, <1>7

LEMMA PushKeeps ==
    ASSUME TimeInv, NEW t \in Tabs, NEW old, old \in {tabs[t], Closed}, NEW loc \in Locations,
           OwnEval(loc), NEW doc \in Nat, Push(t, old, loc, doc)
    PROVE  TimeInv'
<1> DEFINE at == Seeded([loc EXCEPT !.doc = doc])
           hist == Append(SubSeq(tabs[t].hist, 1, tabs[t].pos), at)
<1>1. [loc EXCEPT !.doc = doc] \in Locations
  BY DEF Locations
<1>2. /\ [loc EXCEPT !.doc = doc].from = loc.from /\ [loc EXCEPT !.doc = doc].to = loc.to
      /\ [loc EXCEPT !.doc = doc].eval = loc.eval /\ [loc EXCEPT !.doc = doc].asset = loc.asset
  BY DEF Locations
<1>3. /\ at \in Locations /\ at.from # NULL /\ at.eval = loc.eval /\ at.asset = loc.asset
  BY <1>1, <1>2, SeededParams, TimeRangeAssumption DEF TimeInv
<1>4. at.from = Seeded(loc).from /\ at.to = Seeded(loc).to
  <2>1. CASE loc.from # NULL
    BY <2>1, <1>2 DEF Seeded
  <2>2. CASE loc.from = NULL
    <3>1. Resolved([loc EXCEPT !.doc = doc]) = Resolved(loc)
      BY <1>2 DEF Resolved
    <3>2. \A range : /\ WithRange([loc EXCEPT !.doc = doc], range).from = WithRange(loc, range).from
                     /\ WithRange([loc EXCEPT !.doc = doc], range).to = WithRange(loc, range).to
      BY <1>1 DEF WithRange, Locations
    <3> QED
      BY <2>2, <1>2, <3>1, <3>2 DEF Seeded
  <2> QED
    BY <2>1, <2>2
<1>5. OwnEval(at)
  BY <1>3 DEF OwnEval
<1>6. Settle(t, old, hist, Len(hist), loc)
  BY DEF Push, Entries
<1> HIDE DEF at
<1>7. /\ hist \in Seq(Locations) /\ Len(hist) \in DOMAIN hist /\ hist[Len(hist)] = at
      /\ \A i \in DOMAIN hist : hist[i].from # NULL /\ OwnEval(hist[i])
  BY <1>3, <1>5, Extended
<1> HIDE DEF hist
<1> QED
  BY <1>4, <1>6, <1>7, SettleKeeps

-----------------------------------------------------------------------------
(* The steps of TimeRange.                                                 *)

\* The entry an open tab is at.
LEMMA OpenLoc ==
    ASSUME TimeInv, NEW t \in Tabs, tabs[t].pos # 0
    PROVE  Loc(t) \in Locations /\ OwnEval(Loc(t)) /\ Loc(t).from # NULL
<1>1. tabs[t] \in TabStates /\ tabs[t].pos <= Len(tabs[t].hist)
  BY DEF TimeInv, TimeShape
<1>2. tabs[t].pos \in DOMAIN tabs[t].hist /\ tabs[t].hist \in Seq(Locations)
  BY <1>1 DEF TabStates
<1> QED
  BY <1>2 DEF TimeInv, EntriesSeeded, Loc

LEMMA ChooseKeeps ==
    ASSUME TimeInv, NEW t \in Tabs, tabs[t].pos # 0, NEW range \in RangeValues,
           NEW picker \in [from: Int \union {NULL}, to: Int \union {NULL}],
           Choose(t, range, picker)
    PROVE  TimeInv'
<1> DEFINE loc == WithRange(Loc(t), range)
           shown == RangeAt(tabs[t], loc)
           hist == Append(SubSeq(tabs[t].hist, 1, tabs[t].pos), loc)
           from == IF SameParams(tabs[t], loc) THEN tabs[t].from ELSE FromIso(shown)
           tab == [hist |-> hist, pos |-> Len(hist), range |-> shown, from |-> from,
                   picker |-> picker]
<1>1. TimeShape /\ Loc(t) \in Locations /\ OwnEval(Loc(t))
  BY OpenLoc DEF TimeInv
<1>2. /\ rangeToParams(range).from \in Tokens
      /\ rangeToParams(range).to \in Tokens \union {NULL}
      /\ parseTimeParams(rangeToParams(range).from, rangeToParams(range).to) = range
  BY ParamsReadBack
<1>3. /\ loc \in Locations /\ loc.eval = Loc(t).eval /\ loc.asset = Loc(t).asset
      /\ loc.from = rangeToParams(range).from /\ loc.to = rangeToParams(range).to
  BY <1>1, <1>2 DEF WithRange, Locations
<1>4. loc.from # NULL /\ range # NULL /\ OwnEval(loc)
  BY <1>1, <1>2, <1>3, TimeRangeAssumption DEF OwnEval
<1>5. tabs' = [tabs EXCEPT ![t] = tab] /\ stored' = shown
      /\ chosen' = [chosen EXCEPT ![t] = range] /\ last' = t /\ UNCHANGED today
  BY DEF Choose
<1> HIDE DEF loc
<1>6. tabs[t].pos # 0 /\ tabs[t] \in {tabs[t], Closed}
  OBVIOUS
<1>7. /\ tabs[t].from \in Int /\ tabs[t].range \in RangeValues
      /\ LET parsed == parseTimeParams(Loc(t).from, Loc(t).to)
         IN  parsed # NULL => tabs[t].range = parsed
  BY DEF TimeInv, TabsShowChosen
<1>8. shown = range
  <2>1. CASE SameParams(tabs[t], loc)
    <3>1. Loc(t).from = loc.from /\ Loc(t).to = loc.to
      BY <2>1 DEF SameParams, Loc
    <3>2. tabs[t].range = range
      BY <3>1, <1>2, <1>3, <1>4, <1>7
    <3> QED
      BY <2>1, <3>2 DEF RangeAt
  <2>2. CASE ~SameParams(tabs[t], loc)
    BY <2>2, <1>2, <1>3, <1>4 DEF RangeAt, Resolved
  <2> QED
    BY <2>1, <2>2
<1> HIDE DEF shown
<1>9. from \in Int
  BY <1>1, <1>7, <1>8, FromIsInstant
<1> HIDE DEF from
<1>10. /\ hist \in Seq(Locations) /\ Len(hist) \in DOMAIN hist /\ hist[Len(hist)] = loc
       /\ \A i \in DOMAIN hist : hist[i].from # NULL /\ OwnEval(hist[i])
  BY <1>3, <1>4, Extended
<1> HIDE DEF hist
<1>11. Len(hist) \in Nat
  BY <1>10
<1>12. /\ tab \in TabStates /\ tab.hist = hist /\ tab.pos = Len(hist) /\ tab.range = range
       /\ tab.from = from
  BY <1>8, <1>9, <1>10, <1>11 DEF TabStates
<1> HIDE DEF tab
<1>13. parseTimeParams(tab.hist[tab.pos].from, tab.hist[tab.pos].to) = range
  BY <1>2, <1>3, <1>10, <1>12
<1> QED
  BY <1>5, <1>8, <1>9, <1>10, <1>12, <1>13, TabReplaced

LEMMA PresetKeeps ==
    ASSUME TimeInv, NEW t \in Tabs, HandlePreset(t)
    PROVE  TimeInv'
<1>1. PICK days \in PresetDays : Choose(t, Preset(days), [from |-> today - days, to |-> NULL])
  BY DEF HandlePreset
<1>2. days \in Int /\ today \in Int
  BY TimeRangeAssumption DEF TimeInv, TimeShape
<1>3. Preset(days) \in RangeValues
  BY <1>2 DEF Preset, RangeValues
<1>4. [from |-> today - days, to |-> NULL] \in [from: Int \union {NULL}, to: Int \union {NULL}]
  BY <1>2
<1> QED
  BY <1>1, <1>3, <1>4, ChooseKeeps DEF HandlePreset

LEMMA ApplyKeeps ==
    ASSUME TimeInv, NEW t \in Tabs, HandleApply(t)
    PROVE  TimeInv'
<1> DEFINE picker == tabs[t].picker
           to == IF picker.to = NULL THEN NULL ELSE calendarDateToIso(picker.to, TRUE)
           from == calendarDateToIso(picker.from, FALSE)
<1>1. picker \in [from: Int \union {NULL}, to: Int \union {NULL}]
  BY DEF TimeInv, TimeShape, TabStates
<1>2. tabs[t].pos # 0 /\ picker.from # NULL /\ Choose(t, Absolute(from, to), picker)
  BY DEF HandleApply, MayApply
<1> HIDE DEF picker
<1>3. from \in Int /\ to \in Int \union {NULL}
  BY <1>1, <1>2 DEF calendarDateToIso, EndOfDay, StartOfDay
<1> HIDE DEF from, to
<1>4. Absolute(from, to) \in RangeValues
  BY <1>3 DEF Absolute, RangeValues
<1> QED
  BY <1>1, <1>2, <1>4, ChooseKeeps

LEMMA SelectDateKeeps ==
    ASSUME TimeInv, NEW t \in Tabs, SelectDate(t)
    PROVE  TimeInv'
<1> DEFINE picker == tabs[t].picker
           type == [from: Int \union {NULL}, to: Int \union {NULL}]
<1>1. picker \in type /\ tabs \in [Tabs -> TabStates]
  BY DEF TimeInv, TimeShape, TabStates
<1>2. PICK day \in Dates :
         \/ tabs' = [tabs EXCEPT ![t].picker = FromSelected(picker, day)]
         \/ tabs' = [tabs EXCEPT ![t].picker = ToSelected(picker, day)]
  BY DEF SelectDate
<1>3. day \in Int
  BY TimeRangeAssumption
<1>4. FromSelected(picker, day) \in type /\ ToSelected(picker, day) \in type
  BY <1>1, <1>3 DEF FromSelected, ToSelected
<1>5. PICK p \in type : tabs' = [tabs EXCEPT ![t].picker = p]
  BY <1>2, <1>4
<1>6. tabs' \in [Tabs -> TabStates]
  BY <1>1, <1>5 DEF TabStates
<1>7. \A u \in Tabs : /\ tabs'[u].hist = tabs[u].hist /\ tabs'[u].pos = tabs[u].pos
                      /\ tabs'[u].range = tabs[u].range /\ tabs'[u].from = tabs[u].from
  BY <1>1, <1>5 DEF TabStates
<1>8. UNCHANGED <<stored, today, chosen, last>>
  BY DEF SelectDate
<1>9. TimeShape'
  BY <1>6, <1>7, <1>8 DEF TimeInv, TimeShape
<1>10. EntriesSeeded'
  BY <1>7 DEF TimeInv, EntriesSeeded, OwnEval
<1>11. TabsShowChosen'
  <2>1. ASSUME NEW u \in Tabs, tabs'[u].pos # 0
        PROVE  /\ tabs'[u].range \in RangeValues /\ tabs'[u].from \in Int
               /\ tabs'[u].range = chosen'[u]
               /\ LET at == tabs'[u].hist[tabs'[u].pos]
                  IN  parseTimeParams(at.from, at.to) # NULL =>
                        tabs'[u].range = parseTimeParams(at.from, at.to)
    BY <2>1, <1>7, <1>8 DEF TimeInv, TabsShowChosen, Loc
  <2> QED
    BY <2>1 DEF TabsShowChosen, Loc, parseTimeParams, parseAbsoluteToken, Preset, Absolute
<1>12. StoredIsLast'
  BY <1>7, <1>8 DEF TimeInv, TimeShape, StoredIsLast
<1> QED
  BY <1>9, <1>10, <1>11, <1>12 DEF TimeInv

LEMMA TraverseKeeps ==
    ASSUME TimeInv, NEW t \in Tabs, Traverse(t)
    PROVE  TimeInv'
<1>1. PICK pos \in DOMAIN tabs[t].hist :
        LET loc == tabs[t].hist[pos]
        IN  Settle(t, IF loc.doc = Loc(t).doc THEN tabs[t] ELSE Closed, tabs[t].hist, pos, loc)
  BY DEF Traverse
<1> DEFINE loc == tabs[t].hist[pos]
           old == IF loc.doc = Loc(t).doc THEN tabs[t] ELSE Closed
<1>2. /\ tabs[t].hist \in Seq(Locations)
      /\ \A i \in DOMAIN tabs[t].hist : tabs[t].hist[i].from # NULL /\ OwnEval(tabs[t].hist[i])
  BY DEF TimeInv, TimeShape, TabStates, EntriesSeeded
<1>3. loc \in Locations /\ loc.from # NULL
  BY <1>2
<1>4. Seeded(loc) = loc
  BY <1>3 DEF Seeded
<1>5. old \in {tabs[t], Closed} /\ Settle(t, old, tabs[t].hist, pos, loc)
  BY <1>1
<1> HIDE DEF old
<1> QED
  BY <1>2, <1>3, <1>4, <1>5, SettleKeeps

\* The steps that leave tabs and ranges alone, and midnight.
LEMMA TimeUnchanged ==
    ASSUME TimeInv, UNCHANGED <<tabs, stored, chosen, last>>, today' \in Int
    PROVE  TimeInv'
<1>1. TimeShape' /\ EntriesSeeded' /\ StoredIsLast'
  BY DEF TimeInv, TimeShape, EntriesSeeded, StoredIsLast, OwnEval
<1>2. TabsShowChosen'
  <2>1. ASSUME NEW u \in Tabs, tabs'[u].pos # 0
        PROVE  /\ tabs'[u].range \in RangeValues /\ tabs'[u].from \in Int
               /\ tabs'[u].range = chosen'[u]
               /\ LET at == tabs'[u].hist[tabs'[u].pos]
                  IN  parseTimeParams(at.from, at.to) # NULL =>
                        tabs'[u].range = parseTimeParams(at.from, at.to)
    BY <2>1 DEF TimeInv, TabsShowChosen, Loc
  <2> QED
    BY <2>1 DEF TabsShowChosen, Loc, parseTimeParams, parseAbsoluteToken, Preset, Absolute
<1> QED
  BY <1>1, <1>2 DEF TimeInv

\* A navigation within the page.
LEMMA NavigateKeeps ==
    ASSUME TimeInv, NEW t \in Tabs, NEW loc \in Locations, OwnEval(loc), Navigate(t, loc)
    PROVE  TimeInv'
<1>1. Loc(t).doc \in Nat
  BY OpenLoc DEF Navigate, Locations
<1>2. Push(t, tabs[t], loc, Loc(t).doc) /\ tabs[t] \in {tabs[t], Closed}
  BY DEF Navigate
<1> QED
  BY <1>1, <1>2, PushKeeps

-----------------------------------------------------------------------------
(* The steps of the pages, as far as they navigate.                        *)

LEMMA BareLocation ==
    ASSUME NEW path \in Paths
    PROVE  Bare(path) \in Locations /\ OwnEval(Bare(path))
  BY DEF Bare, Locations, OwnEval

\* Of the assets of rows with one display name, the first is one of them.
LEMMA RowsAsset ==
    ASSUME NEW evals \in SUBSET Evals, NEW row, row \in {e.asset : e \in evals}
    PROVE  AssetOfRow(evals, row) \in DOMAIN Label
<1> DEFINE same == {e.asset : e \in {x \in evals : Label[x.asset] = Label[row]}}
           less == OpToRel(<, Nat)
<1>1. same \subseteq Nat /\ same # {} /\ same \subseteq DOMAIN Label
  BY PagesAssumption
<1> HIDE DEF same
<1>2. IsWellFoundedOn(less, Nat)
  BY NatLessThanWellFounded
<1> HIDE DEF less
<1>3. PICK a \in same : \A b \in same : ~(<<b, a>> \in less)
  BY <1>1, <1>2, WFMin
<1>4. \A b \in same : ~(b < a)
  BY <1>1, <1>3 DEF less, OpToRel
<1>5. \E x \in same : \A b \in same : x <= b
  BY <1>1, <1>4
<1>6. AssetOfRow(evals, row) \in same
  BY <1>5 DEF AssetOfRow, same
<1> QED
  BY <1>1, <1>6

\* The selection of an asset, with an evaluation of it or none.
LEMMA AssetLocationOwn ==
    ASSUME NEW loc \in Locations, NEW asset \in DOMAIN Label,
           NEW group \in DOMAIN Members \union {NULL},
           NEW eval, eval = NULL \/ \E e \in Evals : e.id = eval /\ e.asset = asset
    PROVE  /\ AssetLocation(loc, asset, group, eval) \in Locations
           /\ OwnEval(AssetLocation(loc, asset, group, eval))
<1> DEFINE at == AssetLocation(loc, asset, group, eval)
<1>1. at \in Locations /\ at.eval = eval /\ at.asset = asset
  BY DEF AssetLocation, Locations
<1> HIDE DEF at
<1> QED
  BY <1>1 DEF OwnEval, at

LEMMA GroupLocationOwn ==
    ASSUME NEW loc \in Locations, NEW group \in DOMAIN Members \union {NULL}
    PROVE  GroupLocation(loc, group) \in Locations /\ OwnEval(GroupLocation(loc, group))
<1>1. GroupLocation(loc, group) \in Locations /\ GroupLocation(loc, group).eval = NULL
  BY DEF GroupLocation, Locations
<1> QED
  BY <1>1 DEF OwnEval

LEMMA OpenNavigates ==
    ASSUME TimeInv, SceneKnown, NEW t \in Tabs, Open(t)
    PROVE  TimeInv'
<1>1. PICK loc \in scene.links : Push(t, Closed, loc, tabs[t].pos + 1)
  BY DEF Open, OpenLink
<1>2. loc \in Locations /\ OwnEval(loc)
  BY PagesAssumption DEF SceneKnown
<1>3. tabs[t].pos + 1 \in Nat
  BY DEF TimeInv, TimeShape, TabStates
<1>4. Closed \in {tabs[t], Closed}
  OBVIOUS
<1> QED
  BY <1>1, <1>2, <1>3, <1>4, PushKeeps

LEMMA FollowNavigates ==
    ASSUME TimeInv, NEW t \in Tabs, FollowLink(t)
    PROVE  TimeInv'
<1>1. PICK path \in {"/navigator", "/change-points", "/slos"} : Navigate(t, Bare(path))
  BY DEF FollowLink, NavigateTo
<1>2. path \in Paths
  BY DEF Paths
<1> QED
  BY <1>1, <1>2, BareLocation, NavigateKeeps

LEMMA DrillNavigates ==
    ASSUME TimeInv, NEW t \in Tabs, DrillLink(t)
    PROVE  TimeInv'
<1>1. Loc(t) \in Locations
  BY OpenLoc DEF DrillLink
<1>2. Loc(t).asset \in DOMAIN Label \union {NULL} /\ Loc(t).group \in DOMAIN Members \union {NULL}
  BY <1>1 DEF Locations
<1>3. ASSUME NEW path \in Paths
      PROVE  /\ [Bare(path) EXCEPT !.asset = Loc(t).asset] \in Locations
             /\ [Bare(path) EXCEPT !.group = Loc(t).group] \in Locations
             /\ OwnEval([Bare(path) EXCEPT !.asset = Loc(t).asset])
             /\ OwnEval([Bare(path) EXCEPT !.group = Loc(t).group])
             /\ Bare(path) \in Locations /\ OwnEval(Bare(path))
  BY <1>2 DEF Bare, Locations, OwnEval
<1>4. \/ Navigate(t, [Bare("/explorer") EXCEPT !.asset = Loc(t).asset])
      \/ Navigate(t, [Bare("/navigator") EXCEPT !.asset = Loc(t).asset])
      \/ Navigate(t, [Bare("/navigator") EXCEPT !.group = Loc(t).group])
      \/ Navigate(t, Bare("/navigator"))
  BY DEF DrillLink, NavigateTo
<1>5. PICK loc \in Locations : OwnEval(loc) /\ Navigate(t, loc)
  BY <1>3, <1>4 DEF Paths
<1> QED
  BY <1>5, NavigateKeeps

LEMMA TreeNavigates ==
    ASSUME TimeInv, NEW t \in Tabs, TreeSelect(t)
    PROVE  TimeInv'
<1>1. Loc(t) \in Locations
  BY OpenLoc DEF TreeSelect
<1>2. CASE \E group \in DOMAIN Members \union {NULL} : Navigate(t, GroupLocation(Loc(t), group))
  BY <1>1, <1>2, GroupLocationOwn, NavigateKeeps
<1>3. CASE \E asset \in DOMAIN Label, group \in DOMAIN Members \union {NULL} :
             Navigate(t, AssetLocation(Loc(t), asset, group, NULL))
  BY <1>1, <1>3, AssetLocationOwn, NavigateKeeps
<1> QED
  BY <1>2, <1>3 DEF TreeSelect, NavigateTo

LEMMA CellNavigates ==
    ASSUME TimeInv, NEW t \in Tabs, ClickCell(t)
    PROVE  TimeInv'
<1> DEFINE evals == Listed(Loc(t).group, pane[t].names)
           match(asset) == {e \in evals : e.asset = asset /\ e.date = pane[t].date}
<1>1. Loc(t) \in Locations /\ Loc(t).group \in DOMAIN Members \union {NULL}
  BY OpenLoc DEF ClickCell, Locations
<1>2. evals \in SUBSET Evals
  BY DEF Listed, EvalsOf
<1>3. CASE UNCHANGED timeVars
  BY <1>3, TimeUnchanged DEF timeVars, TimeInv, TimeShape
<1>4. CASE \E row \in {e.asset : e \in evals} :
             \E eval \in {e.id : e \in match(AssetOfRow(evals, row))} \union {NULL} :
                Navigate(t, AssetLocation(Loc(t), AssetOfRow(evals, row), Loc(t).group, eval))
  <2>1. PICK row \in {e.asset : e \in evals} :
             \E eval \in {e.id : e \in match(AssetOfRow(evals, row))} \union {NULL} :
                Navigate(t, AssetLocation(Loc(t), AssetOfRow(evals, row), Loc(t).group, eval))
    BY <1>4
  <2> DEFINE asset == AssetOfRow(evals, row)
  <2>2. asset \in DOMAIN Label
    BY <1>2, RowsAsset
  <2>3. PICK eval \in {e.id : e \in match(asset)} \union {NULL} :
                Navigate(t, AssetLocation(Loc(t), asset, Loc(t).group, eval))
    BY <2>1
  <2> HIDE DEF asset
  <2>4. eval = NULL \/ \E e \in Evals : e.id = eval /\ e.asset = asset
    BY <1>2
  <2> QED
    BY <1>1, <2>2, <2>3, <2>4, AssetLocationOwn, NavigateKeeps
<1> QED
  BY <1>3, <1>4 DEF ClickCell, NavigateTo

LEMMA RowNavigates ==
    ASSUME TimeInv, NEW t \in Tabs, ClickRow(t)
    PROVE  TimeInv'
<1> DEFINE details(e) == [Bare("/evaluations") EXCEPT !.asset = e.asset, !.eval = e.id]
<1>1. Loc(t) \in Locations /\ Loc(t).group \in DOMAIN Members \union {NULL}
  BY OpenLoc DEF ClickRow, Locations
<1>2. PICK e \in Evals :
         \/ \E eval \in {e.id, NULL} :
               Navigate(t, AssetLocation(Loc(t), e.asset, Loc(t).group, eval))
         \/ Navigate(t, details(e))
  BY DEF ClickRow, NavigateTo, Listed, EvalsOf
<1>3. e.asset \in DOMAIN Label
  BY PagesAssumption
<1>4. CASE Navigate(t, details(e))
  <2>1. details(e) \in Locations /\ details(e).eval = e.id /\ details(e).asset = e.asset
    BY <1>3 DEF Bare, Locations, Paths
  <2> HIDE DEF details
  <2>2. OwnEval(details(e))
    BY <2>1 DEF OwnEval
  <2> QED
    BY <1>4, <2>1, <2>2, NavigateKeeps
<1>5. CASE \E eval \in {e.id, NULL} :
               Navigate(t, AssetLocation(Loc(t), e.asset, Loc(t).group, eval))
  BY <1>1, <1>3, <1>5, AssetLocationOwn, NavigateKeeps
<1> QED
  BY <1>2, <1>4, <1>5

\* Every step keeps the ranges.
LEMMA TimeKept ==
    ASSUME TimeInv, SceneKnown, [Next]_vars
    PROVE  TimeInv'
<1>1. CASE UNCHANGED timeVars
  BY <1>1, TimeUnchanged DEF timeVars, TimeInv, TimeShape
<1>2. CASE DayPasses
  BY <1>2, TimeUnchanged DEF DayPasses, Midnight, TimeInv, TimeShape
<1>3. ASSUME NEW t \in Tabs, GoBack(t) PROVE TimeInv'
  BY <1>3, TraverseKeeps DEF GoBack
<1>4. ASSUME NEW t \in Tabs, Range(t) PROVE TimeInv'
  BY <1>4, PresetKeeps, ApplyKeeps, SelectDateKeeps DEF Range
<1>5. ASSUME NEW t \in Tabs,
             Open(t) \/ FollowLink(t) \/ DrillLink(t) \/ TreeSelect(t) \/ ClickCell(t) \/ ClickRow(t)
      PROVE  TimeInv'
  BY <1>5, OpenNavigates, FollowNavigates, DrillNavigates, TreeNavigates, CellNavigates,
     RowNavigates
<1>6. ASSUME NEW t \in Tabs,
             \/ FilterList(t) \/ ToggleColumn(t) \/ ReceiveHeatmap(t) \/ EnableMetrics(t)
             \/ FetchPoints(t) \/ PageThrough(t) \/ Tick(t) \/ TriageOne(t) \/ BulkTriage(t)
             \/ ServeBulk(t) \/ BulkAnswered(t)
      PROVE  UNCHANGED timeVars
  BY <1>6 DEF FilterList, ToggleColumn, ReceiveHeatmap, EnableMetrics, FetchPoints, PageThrough,
     Tick, TriageOne, BulkTriage, ServeBulk, BulkAnswered
<1> QED
  BY <1>1, <1>2, <1>3, <1>4, <1>5, <1>6 DEF Next, vars

-----------------------------------------------------------------------------
(* The pages.                                                              *)

LEMMA MountedShape ==
    ASSUME NEW loc
    PROVE  /\ PaneShape(Mounted(loc))
           /\ Mounted(loc).kind = "triage" => Mounted(loc).selected = {}
<1>1. PaneShape(AssetPane(loc)) /\ AssetPane(loc).kind = "asset"
  BY DEF PaneShape, AssetPane
<1>2. PaneShape(ListPane(loc.group)) /\ ListPane(loc.group).kind = "list"
  <2> DEFINE visible == AutoShown(RequiredCols, EvalsOf(loc.group))
  <2>1. ListPane(loc.group) = [kind |-> "list", names |-> NULL, date |-> NULL, visible |-> visible]
    BY DEF ListPane
  <2> HIDE DEF visible
  <2> QED
    BY <2>1 DEF PaneShape
<1>3. PaneShape(ExplorerPane) /\ ExplorerPane.kind = "explorer"
  BY DEF PaneShape, ExplorerPane
<1>4. PaneShape(TriagePane) /\ TriagePane.selected = {}
  BY DEF PaneShape, TriagePane
<1>5. PaneShape([kind |-> "other"]) /\ [kind |-> "other"].kind = "other"
  BY DEF PaneShape
<1>6. \/ Mounted(loc) = AssetPane(loc) \/ Mounted(loc) = ListPane(loc.group)
      \/ Mounted(loc) = ExplorerPane \/ Mounted(loc) = TriagePane
      \/ Mounted(loc) = [kind |-> "other"]
  BY DEF Mounted
<1> HIDE DEF Mounted, AssetPane, ListPane, ExplorerPane, TriagePane, PaneShape
<1> QED
  BY <1>1, <1>2, <1>3, <1>4, <1>5, <1>6

LEMMA KeptShape ==
    ASSUME NEW p, PaneShape(p), NEW old, NEW loc
    PROVE  /\ PaneShape(Kept(p, old, loc)) /\ Kept(p, old, loc).kind = p.kind
           /\ p.kind = "triage" => Kept(p, old, loc) = p
<1>1. CASE p.kind = "list"
  <2> DEFINE visible == AutoShown(p.visible, Listed(loc.group, p.names))
             q == [p EXCEPT !.visible = visible]
  <2>1. Kept(p, old, loc) = q
    BY <1>1 DEF Kept
  <2> HIDE DEF visible
  <2>2. PaneShape(q) /\ q.kind = "list"
    BY <1>1 DEF PaneShape
  <2> QED
    BY <1>1, <2>1, <2>2
<1>2. CASE p.kind = "explorer"
  <2>1. Kept(p, old, loc) \in {p, [p EXCEPT !.heat = NULL]}
    BY <1>2 DEF Kept
  <2>2. PaneShape([p EXCEPT !.heat = NULL]) /\ [p EXCEPT !.heat = NULL].kind = p.kind
    BY <1>2 DEF PaneShape
  <2> QED
    BY <1>2, <2>1, <2>2
<1>3. CASE p.kind \notin {"list", "explorer"}
  BY <1>3 DEF Kept
<1> QED
  BY <1>1, <1>2, <1>3

\* The page of one tab changes.
LEMMA PaneReplaced ==
    ASSUME PaneInv, NEW t \in Tabs, NEW p, PaneShape(p),
           pane' = [pane EXCEPT ![t] = p],
           ticked' = [ticked EXCEPT ![t] = ticked'[t]],
           p.kind = "triage" => p.selected \subseteq ticked'[t]
    PROVE  PaneInv'
<1>1. pane'[t] = p /\ \A u \in Tabs \ {t} : pane'[u] = pane[u] /\ ticked'[u] = ticked[u]
  BY DEF PaneInv
<1>2. pane' = [u \in Tabs |-> pane'[u]] /\ ticked' = [u \in Tabs |-> ticked'[u]]
  BY DEF PaneInv
<1>3. \A u \in Tabs : PaneShape(pane'[u])
  BY <1>1 DEF PaneInv
<1>4. OnlyTickedTriaged'
  BY <1>1 DEF PaneInv, OnlyTickedTriaged
<1> QED
  BY <1>2, <1>3, <1>4 DEF PaneInv, PaneShape

\* Steps that leave the pages alone.
LEMMA PaneUnchanged ==
    ASSUME PaneInv, UNCHANGED <<pane, ticked>>
    PROVE  PaneInv'
  BY DEF PaneInv, OnlyTickedTriaged, PaneShape

\* A navigation, or a load: the page is kept as it is, or new.
LEMMA ShownKeeps ==
    ASSUME PaneInv, NEW t \in Tabs, Shown(t) \/ Loaded(t), Unticked(t)
    PROVE  PaneInv'
<1> DEFINE loc == tabs'[t].hist[tabs'[t].pos]
<1>1. PICK p : /\ p = Kept(pane[t], Loc(t), loc) \/ p = Mounted(loc)
               /\ pane' = [pane EXCEPT ![t] = p]
  BY DEF Shown, Loaded
<1> HIDE DEF loc
<1>2. PaneShape(pane[t]) /\ (pane[t].kind = "triage" => pane[t].selected \subseteq ticked[t])
  BY DEF PaneInv, OnlyTickedTriaged
<1>3. /\ PaneShape(p)
      /\ p.kind = "triage" => p.selected \subseteq ticked[t]
  <2>1. CASE p = Mounted(loc)
    BY <2>1, MountedShape
  <2>2. CASE p = Kept(pane[t], Loc(t), loc)
    BY <2>2, <1>2, KeptShape
  <2> QED
    BY <1>1, <2>1, <2>2
<1>4. pane'[t] = p
  BY <1>1 DEF PaneInv
<1>5. CASE p.kind = "triage"
  <2>1. ticked' = ticked
    BY <1>4, <1>5 DEF Unticked
  <2>2. ticked' = [ticked EXCEPT ![t] = ticked'[t]]
    BY <2>1 DEF PaneInv
  <2> QED
    BY <1>1, <1>3, <2>1, <2>2, PaneReplaced
<1>6. CASE p.kind # "triage"
  <2>1. ticked' = [ticked EXCEPT ![t] = {}]
    BY <1>4, <1>6 DEF Unticked
  <2>2. ticked' = [ticked EXCEPT ![t] = ticked'[t]]
    BY <2>1 DEF PaneInv
  <2> QED
    BY <1>1, <1>3, <1>6, <2>2, PaneReplaced
<1> QED
  BY <1>5, <1>6

\* A change within a page that leaves the ticks alone.
LEMMA FieldChanged ==
    ASSUME PaneInv, NEW t \in Tabs, NEW p, PaneShape(p), UNCHANGED ticked,
           pane' = [pane EXCEPT ![t] = p],
           p.kind = "triage" => pane[t].kind = "triage" /\ p.selected = pane[t].selected
    PROVE  PaneInv'
<1>1. ticked' = [ticked EXCEPT ![t] = ticked'[t]]
  BY DEF PaneInv
<1>2. p.kind = "triage" => p.selected \subseteq ticked'[t]
  BY DEF PaneInv, OnlyTickedTriaged
<1> QED
  BY <1>1, <1>2, PaneReplaced

\* A click on a cell selects its date, or navigates.
LEMMA CellKeepsPane ==
    ASSUME PaneInv, NEW t \in Tabs, ClickCell(t)
    PROVE  PaneInv'
<1>1. PaneShape(pane[t]) /\ pane[t].kind = "list"
  BY DEF PaneInv, ClickCell
<1>2. CASE UNCHANGED ticked /\ \E slot : pane' = [pane EXCEPT ![t].date = slot]
  <2>1. PICK slot : pane' = [pane EXCEPT ![t] = [pane[t] EXCEPT !.date = slot]]
    BY <1>2
  <2>2. PaneShape([pane[t] EXCEPT !.date = slot]) /\ [pane[t] EXCEPT !.date = slot].kind = "list"
    BY <1>1 DEF PaneShape
  <2> QED
    BY <1>2, <2>1, <2>2, FieldChanged
<1>3. CASE Shown(t) /\ Unticked(t)
  BY <1>3, ShownKeeps
<1> QED
  BY <1>2, <1>3 DEF ClickCell, NavigateTo

\* The filters and columns of a list.
LEMMA ListKeepsPane ==
    ASSUME PaneInv, NEW t \in Tabs, FilterList(t) \/ ToggleColumn(t)
    PROVE  PaneInv'
<1>1. PaneShape(pane[t]) /\ pane[t].kind = "list" /\ UNCHANGED ticked
  BY DEF PaneInv, FilterList, ToggleColumn
<1>2. \E names, visible : pane' = [pane EXCEPT ![t] = [pane[t] EXCEPT !.names = names, !.visible = visible]]
  <2>1. CASE FilterList(t)
    <3>1. PICK names :
            pane' = [pane EXCEPT ![t].names = names,
                                 ![t].visible = AutoShown(@, Listed(Loc(t).group, names))]
      BY <2>1 DEF FilterList
    <3>2. pane' = [pane EXCEPT ![t] = [pane[t] EXCEPT !.names = names,
                     !.visible = AutoShown(pane[t].visible, Listed(Loc(t).group, names))]]
      BY <3>1, <1>1 DEF PaneInv, PaneShape
    <3> QED
      BY <3>2
  <2>2. CASE ToggleColumn(t)
    <3>1. PICK col : pane' = [pane EXCEPT ![t].visible = ToggledColumn(@, col)]
      BY <2>2 DEF ToggleColumn
    <3>2. pane' = [pane EXCEPT ![t] = [pane[t] EXCEPT !.visible = ToggledColumn(pane[t].visible, col)]]
      BY <3>1
    <3>3. [pane[t] EXCEPT !.visible = ToggledColumn(pane[t].visible, col)]
          = [pane[t] EXCEPT !.names = pane[t].names,
                            !.visible = ToggledColumn(pane[t].visible, col)]
      BY <1>1 DEF PaneShape
    <3> QED
      BY <3>2, <3>3
  <2> QED
    BY <2>1, <2>2
<1>3. PICK names, visible :
        pane' = [pane EXCEPT ![t] = [pane[t] EXCEPT !.names = names, !.visible = visible]]
  BY <1>2
<1> DEFINE p == [pane[t] EXCEPT !.names = names, !.visible = visible]
<1>4. PaneShape(p) /\ p.kind = "list"
  BY <1>1 DEF PaneShape
<1> HIDE DEF p
<1>5. pane' = [pane EXCEPT ![t] = p]
  BY <1>3 DEF p
<1> QED
  BY <1>1, <1>4, <1>5, FieldChanged

\* The explorer: an answer, and the labels.
LEMMA ExplorerKeepsPane ==
    ASSUME TimeInv, PaneInv, NEW t \in Tabs, ReceiveHeatmap(t) \/ EnableMetrics(t)
    PROVE  PaneInv'
<1>1. PaneShape(pane[t]) /\ pane[t].kind = "explorer" /\ UNCHANGED ticked
  BY DEF PaneInv, ReceiveHeatmap, EnableMetrics
<1>2. CASE ReceiveHeatmap(t)
  <2>1. PICK answer \in Metrics[Loc(t).asset] :
           pane' = [pane EXCEPT ![t] = [pane[t] EXCEPT !.heat = answer]]
    BY <1>2 DEF ReceiveHeatmap
  <2>2. Loc(t).asset \in DOMAIN Label
    BY <1>2, OpenLoc DEF ReceiveHeatmap, Locations
  <2>3. \A m \in answer : m = <<m[1], m[2]>>
    BY <2>2, PagesAssumption
  <2>4. PaneShape([pane[t] EXCEPT !.heat = answer]) /\ [pane[t] EXCEPT !.heat = answer].kind = "explorer"
    BY <1>1, <2>3 DEF PaneShape
  <2> QED
    BY <1>1, <2>1, <2>4, FieldChanged
<1>3. CASE EnableMetrics(t)
  <2>1. \E enabled : pane' = [pane EXCEPT ![t] = [pane[t] EXCEPT !.enabled = enabled]]
    BY <1>3 DEF EnableMetrics
  <2>2. PICK enabled : pane' = [pane EXCEPT ![t] = [pane[t] EXCEPT !.enabled = enabled]]
    BY <2>1
  <2>3. /\ PaneShape([pane[t] EXCEPT !.enabled = enabled])
        /\ [pane[t] EXCEPT !.enabled = enabled].kind = "explorer"
    BY <1>1 DEF PaneShape
  <2> QED
    BY <1>1, <2>2, <2>3, FieldChanged
<1> QED
  BY <1>2, <1>3

\* The page of change points, while its selection stays.
LEMMA TriageKeepsPane ==
    ASSUME PaneInv, NEW t \in Tabs,
           FetchPoints(t) \/ PageThrough(t) \/ BulkTriage(t) \/ ServeBulk(t)
    PROVE  PaneInv'
<1>1. PaneShape(pane[t]) /\ pane[t].kind = "triage" /\ UNCHANGED ticked
  BY DEF PaneInv, FetchPoints, PageThrough, BulkTriage, ServeBulk, OnTriage
<1>2. CASE \E rows : pane' = [pane EXCEPT ![t] = [pane[t] EXCEPT !.rows = rows]]
  <2>1. PICK rows : pane' = [pane EXCEPT ![t] = [pane[t] EXCEPT !.rows = rows]]
    BY <1>2
  <2> DEFINE p == [pane[t] EXCEPT !.rows = rows]
  <2>2. PaneShape(p) /\ p.kind = "triage" /\ p.selected = pane[t].selected
    BY <1>1 DEF PaneShape
  <2> HIDE DEF p
  <2> QED
    BY <1>1, <2>1, <2>2, FieldChanged DEF p
<1>3. CASE \E sent : pane' = [pane EXCEPT ![t] = [pane[t] EXCEPT !.sent = sent]]
  <2>1. PICK sent : pane' = [pane EXCEPT ![t] = [pane[t] EXCEPT !.sent = sent]]
    BY <1>3
  <2> DEFINE p == [pane[t] EXCEPT !.sent = sent]
  <2>2. PaneShape(p) /\ p.kind = "triage" /\ p.selected = pane[t].selected
    BY <1>1 DEF PaneShape
  <2> HIDE DEF p
  <2> QED
    BY <1>1, <2>1, <2>2, FieldChanged DEF p
<1>4. CASE PageThrough(t)
  <2>1. PICK p \in Paging(pane[t]) : pane' = [pane EXCEPT ![t] = p]
    BY <1>4 DEF PageThrough
  <2>2. \E f, n : p = [pane[t] EXCEPT !.filter = f, !.page = n, !.rows = NULL]
    BY DEF Paging
  <2>3. PaneShape(p) /\ p.kind = "triage" /\ p.selected = pane[t].selected
    BY <1>1, <2>2 DEF PaneShape
  <2> QED
    BY <1>1, <2>1, <2>3, FieldChanged
<1> QED
  BY <1>2, <1>3, <1>4 DEF FetchPoints, BulkTriage, ServeBulk

\* What is newly selected is ticked.
LEMMA TickKeepsPane ==
    ASSUME PaneInv, NEW t \in Tabs, Tick(t)
    PROVE  PaneInv'
<1>1. PaneShape(pane[t]) /\ pane[t].kind = "triage" /\ pane[t].selected \subseteq ticked[t]
  BY DEF PaneInv, OnlyTickedTriaged, Tick, OnTriage
<1>2. PICK selected : /\ pane' = [pane EXCEPT ![t] = [pane[t] EXCEPT !.selected = selected]]
                      /\ ticked' = [ticked EXCEPT ![t] = @ \union (selected \ pane[t].selected)]
  BY DEF Tick
<1>3. /\ PaneShape([pane[t] EXCEPT !.selected = selected])
      /\ [pane[t] EXCEPT !.selected = selected].selected = selected
  BY <1>1 DEF PaneShape
<1>4. ticked'[t] = ticked[t] \union (selected \ pane[t].selected)
  BY <1>2 DEF PaneInv
<1>5. selected \subseteq ticked'[t] /\ ticked' = [ticked EXCEPT ![t] = ticked'[t]]
  BY <1>1, <1>2, <1>4
<1> QED
  BY <1>2, <1>3, <1>5, PaneReplaced

\* The answer clears the selection together with the ticks.
LEMMA AnswerKeepsPane ==
    ASSUME PaneInv, NEW t \in Tabs, BulkAnswered(t)
    PROVE  PaneInv'
<1>1. PaneShape(pane[t]) /\ pane[t].kind = "triage"
  BY DEF PaneInv, BulkAnswered, OnTriage
<1>2. CASE pane' = [pane EXCEPT ![t] = AfterBulk(@)] /\ ticked' = [ticked EXCEPT ![t] = {}]
  <2>1. pane' = [pane EXCEPT ![t] = AfterBulk(pane[t])]
    BY <1>2
  <2>2. PaneShape(AfterBulk(pane[t])) /\ AfterBulk(pane[t]).selected = {}
    BY <1>1 DEF PaneShape, AfterBulk
  <2>3. ticked' = [ticked EXCEPT ![t] = ticked'[t]]
    BY <1>2 DEF PaneInv
  <2> QED
    BY <2>1, <2>2, <2>3, PaneReplaced
<1>3. CASE pane' = [pane EXCEPT ![t].sent = NULL] /\ UNCHANGED ticked
  <2>1. pane' = [pane EXCEPT ![t] = [pane[t] EXCEPT !.sent = NULL]]
    BY <1>3
  <2>2. /\ PaneShape([pane[t] EXCEPT !.sent = NULL]) /\ [pane[t] EXCEPT !.sent = NULL].kind = "triage"
        /\ [pane[t] EXCEPT !.sent = NULL].selected = pane[t].selected
    BY <1>1 DEF PaneShape
  <2> QED
    BY <1>1, <1>3, <2>1, <2>2, FieldChanged
<1> QED
  BY <1>2, <1>3 DEF BulkAnswered

\* Every step keeps the pages.
LEMMA PaneKept ==
    ASSUME TimeInv, PaneInv, [Next]_vars
    PROVE  PaneInv'
<1>1. CASE UNCHANGED <<pane, ticked>>
  BY <1>1, PaneUnchanged
<1>2. ASSUME NEW t \in Tabs,
             \/ Open(t) \/ GoBack(t) \/ FollowLink(t) \/ DrillLink(t) \/ TreeSelect(t) \/ ClickRow(t)
      PROVE  PaneInv'
  <2>1. (Shown(t) \/ Loaded(t)) /\ Unticked(t)
    BY <1>2 DEF Open, GoBack, FollowLink, DrillLink, TreeSelect, ClickRow, NavigateTo
  <2> QED
    BY <2>1, ShownKeeps
<1>3. ASSUME NEW t \in Tabs, Range(t) \/ TriageOne(t) PROVE UNCHANGED <<pane, ticked>>
  BY <1>3 DEF Range, TriageOne
<1>4. DayPasses => UNCHANGED <<pane, ticked>>
  BY DEF DayPasses, pageVars
<1> QED
  BY <1>1, <1>2, <1>3, <1>4, CellKeepsPane, ListKeepsPane, ExplorerKeepsPane, TriageKeepsPane,
     TickKeepsPane, AnswerKeepsPane DEF Next, vars, pageVars

-----------------------------------------------------------------------------
(* The theorems.                                                           *)

LEMMA PagesStart ==
    ASSUME Init
    PROVE  TimeInv /\ PaneInv /\ SceneKnown
<1>1. Closed \in TabStates /\ Closed.pos = 0 /\ Closed.hist = <<>>
  BY DEF Closed, TabStates, NoPicker
<1>2. TimeShape
  BY <1>1, TimeRangeAssumption DEF Init, TimeInit, TimeShape
<1>3. EntriesSeeded /\ TabsShowChosen /\ StoredIsLast
  BY <1>1 DEF Init, TimeInit, EntriesSeeded, TabsShowChosen, StoredIsLast
<1>4. PaneInv
  BY DEF Init, PaneInv, PaneShape, OnlyTickedTriaged
<1> QED
  BY <1>2, <1>3, <1>4 DEF TimeInv, Init, SceneKnown

LEMMA PagesInvariant == Spec => [](TimeInv /\ PaneInv /\ SceneKnown)
<1>1. Init => TimeInv /\ PaneInv /\ SceneKnown
  BY PagesStart
<1>2. TimeInv /\ PaneInv /\ SceneKnown /\ [Next]_vars => (TimeInv /\ PaneInv /\ SceneKnown)'
  <2> SUFFICES ASSUME TimeInv, PaneInv, SceneKnown, [Next]_vars
               PROVE  TimeInv' /\ PaneInv' /\ SceneKnown'
    OBVIOUS
  <2>1. UNCHANGED scene
    BY DEF Next, vars, pageVars, DayPasses, Open, GoBack, Range, FollowLink, DrillLink, TreeSelect,
       ClickCell, ClickRow, FilterList, ToggleColumn, ReceiveHeatmap, EnableMetrics, FetchPoints,
       PageThrough, Tick, TriageOne, BulkTriage, ServeBulk, BulkAnswered, Move
  <2> QED
    BY <2>1, TimeKept, PaneKept DEF SceneKnown
<1> QED
  BY <1>1, <1>2, PTL DEF Spec

\* A tab shows the range its viewer last chose in it, however many tabs share the
\* storage, whatever links, histories and midnights come in between; and no entry of
\* a history is without a range, so that Back never lands on one that is seeded
\* again (TimeRangeProvider, its effect and useMemo).
THEOREM RangesAreChosen == Spec => []RangeIsChosen
<1>1. TimeInv => RangeIsChosen
  BY DEF TimeInv, EntriesSeeded, TabsShowChosen, RangeIsChosen
<1> QED
  BY <1>1, PagesInvariant, PTL

\* What a page asks for belongs to the asset on screen: the evaluation in the URL
\* (selectAsset drops the old one) and the trends of the explorer (metricSloMap and
\* apiMetricMap are rebuilt from the heatmap of the asset).
THEOREM RequestsFitTheAsset == Spec => []AskedOfAsset
<1>1. TimeInv /\ PaneInv => AskedOfAsset
  <2> SUFFICES ASSUME TimeInv, PaneInv, NEW t \in Tabs
               PROVE  /\ tabs[t].pos # 0 => OwnEval(Loc(t))
                      /\ pane[t].kind = "explorer" =>
                           TrendsAsked(pane[t])
                              \subseteq (IF pane[t].heat = NULL THEN {} ELSE pane[t].heat)
    BY DEF AskedOfAsset
  <2>1. tabs[t].pos # 0 => OwnEval(Loc(t))
    BY OpenLoc
  <2>2. ASSUME pane[t].kind = "explorer", NEW trend \in TrendsAsked(pane[t])
        PROVE  pane[t].heat # NULL /\ trend \in pane[t].heat
    <3> DEFINE heat == pane[t].heat
    <3>1. PICK key : SloOf(heat, key) # NULL /\ trend = <<SloOf(heat, key), ApiMetric(heat, key)>>
      BY <2>2 DEF TrendsAsked
    <3>2. heat = NULL \/ \A m \in heat : m = <<m[1], m[2]>>
      BY <2>2 DEF PaneInv, PaneShape
    <3> HIDE DEF heat
    <3>3. key \in Indicators(heat)
      BY <3>1 DEF SloOf
    <3>4. heat # NULL
      BY <3>3 DEF Indicators
    <3> DEFINE m == CHOOSE x \in heat : IndicatorKey(heat, x) = key
    <3>5. m \in heat /\ IndicatorKey(heat, m) = key
      BY <3>3, <3>4 DEF Indicators
    <3>6. SloOf(heat, key) = m[1]
      BY <3>3 DEF SloOf
    <3> HIDE DEF m
    <3>7. ApiMetric(heat, key) = m[2]
      <4>1. CASE MultiSlo(heat)
        BY <4>1, <3>3, <3>5 DEF ApiMetric, IndicatorKey
      <4>2. CASE ~MultiSlo(heat)
        <5>1. key = <<m[2]>>
          BY <4>2, <3>5 DEF IndicatorKey
        <5>2. Len(key) = 1 /\ key[1] = m[2]
          BY <5>1
        <5> QED
          BY <4>2, <5>2 DEF ApiMetric
      <4> QED
        BY <4>1, <4>2
    <3>8. trend = m
      BY <3>1, <3>2, <3>4, <3>5, <3>6, <3>7
    <3> QED
      BY <3>4, <3>5, <3>8 DEF heat
  <2> QED
    BY <2>1, <2>2
<1> QED
  BY <1>1, PagesInvariant, PTL

\* A bulk triage is about change points the viewer ticked since the last one that
\* succeeded: the page keeps its selection through pages, filters and answers and
\* loses it with the success, or with the page.
THEOREM TriageIsOfTicked == Spec => []OnlyTickedTriaged
<1>1. PaneInv => OnlyTickedTriaged
  BY DEF PaneInv
<1> QED
  BY <1>1, PagesInvariant, PTL

=============================================================================
