----------------------------- MODULE TimeRange ------------------------------
(***************************************************************************)
(* The time range of the web UI and where it lives: in the URL of a tab,   *)
(* which the tab's history keeps entry by entry, and in the local storage  *)
(* all tabs share. A tab is loaded from a link, navigated, sent back and   *)
(* forth, and its range chosen with the picker of the page on screen.      *)
(*                                                                         *)
(* Instants are counted in quarters of a UTC day. The provider's effect    *)
(* runs before the user can act again: one step is a navigation and the    *)
(* seeding or saving that follows it (Settle).                             *)
(***************************************************************************)
EXTENDS Integers, Sequences, FiniteSets

CONSTANTS
    NULL,
    Tabs,       \* browser tabs of one viewer
    PresetDays, \* the day counts of the presets
    DefaultDays,
    Dates,      \* the days the calendars offer
    Zone,       \* -1 west, 0 on, 1 east of UTC
    MaxToday    \* bound: the last day

\* A token of a URL parameter, and a range: so many days back, or from an instant on.
Tokens == [kind: {"now-", "date", "epoch", "junk"}, n: Int]

RangeValues ==
    [mode: {"preset"}, days: Int, from: {NULL}, to: {NULL}]
    \union [mode: {"absolute"}, days: {NULL}, from: Int, to: Int \union {NULL}]

ASSUME TimeRangeAssumption ==
    /\ DefaultDays \in PresetDays /\ PresetDays \subseteq Nat
    /\ Dates \subseteq Nat /\ Zone \in -1..1 /\ MaxToday \in Nat
    /\ NULL \notin Int /\ NULL \notin Tabs
    /\ NULL \notin Tokens /\ NULL \notin RangeValues

VARIABLES
    tabs,       \* history, position, range and picker of each tab
    stored,     \* localStorage 'tropek-time-range'
    today,      \* the viewer's date
    chosen,     \* history: the range the viewer last chose in each tab
    last        \* history: the tab used last

timeVars == <<tabs, stored, today, chosen, last>>

-----------------------------------------------------------------------------
(* Dates, instants and URL parameters.                                     *)

\* Midnight of a local date, and the two ends of a date read as a UTC day.
LocalMidnight(day) == 4 * day - Zone
StartOfDay(day) == 4 * day
EndOfDay(day) == 4 * day + 3

isoToCalendarDate(instant) == instant \div 4
calendarDateToIso(day, endOfDay) == IF endOfDay THEN EndOfDay(day) ELSE StartOfDay(day)
computeFromDate(days) == LocalMidnight(today - days)

Preset(days) == [mode |-> "preset", days |-> days, from |-> NULL, to |-> NULL]
Absolute(from, to) == [mode |-> "absolute", days |-> NULL, from |-> from, to |-> to]

\* A token is relative, a date, an epoch value or unreadable.
parseAbsoluteToken(token, endOfDay) ==
    CASE token.kind = "date" -> IF endOfDay THEN EndOfDay(token.n) ELSE StartOfDay(token.n)
      [] token.kind = "epoch" -> token.n
      [] OTHER -> NULL

parseTimeParams(from, to) ==
    LET start == parseAbsoluteToken(from, FALSE)
        end == IF to = NULL THEN NULL ELSE parseAbsoluteToken(to, TRUE)
    IN  IF from = NULL THEN NULL
        ELSE IF from.kind = "now-" THEN Preset(from.n)
        ELSE IF start = NULL THEN NULL
        ELSE Absolute(start, end)

loadRange == IF stored = NULL THEN Preset(DefaultDays) ELSE stored

Epoch(instant) == IF instant = NULL THEN NULL ELSE [kind |-> "epoch", n |-> instant]

rangeToParams(range) ==
    IF range.mode = "preset"
    THEN [from |-> [kind |-> "now-", n |-> range.days], to |-> NULL]
    ELSE [from |-> Epoch(range.from), to |-> Epoch(range.to)]

\* The ISO start of a range; it stays as it is until the range changes.
FromIso(range) == IF range.mode = "absolute" THEN range.from ELSE computeFromDate(range.days)

-----------------------------------------------------------------------------
(* Locations. doc tells the loads of the page in a tab's history apart.    *)

Bare(path) == [path |-> path, group |-> NULL, asset |-> NULL, eval |-> NULL,
               from |-> NULL, to |-> NULL, doc |-> 0]

WithRange(loc, range) ==
    [loc EXCEPT !.from = rangeToParams(range).from, !.to = rangeToParams(range).to]

\* What is on screen, as far as its component is kept across navigation: the
\* asset panel has a key, the panel of a group has none.
PanelKey(loc) ==
    CASE loc.path = "/navigator" /\ loc.asset # NULL -> <<"asset", loc.asset>>
      [] loc.path = "/navigator" /\ loc.asset = NULL /\ loc.group # NULL -> <<"group">>
      [] loc.path = "/navigator" /\ loc.asset = NULL /\ loc.group = NULL -> <<"all">>
      [] OTHER -> <<loc.path>>

HasPicker(loc) == loc.path \in {"/navigator", "/explorer"}

Loc(t) == tabs[t].hist[tabs[t].pos]

\* TimeRangePicker's own two dates, taken from the range when it is mounted.
MountedPicker(fromIso, range) ==
    [from |-> isoToCalendarDate(fromIso),
     to |-> IF range.to = NULL THEN NULL ELSE isoToCalendarDate(range.to)]

NoPicker == [from |-> NULL, to |-> NULL]

Closed == [hist |-> <<>>, pos |-> 0, range |-> NULL, from |-> NULL, picker |-> NoPicker]

-----------------------------------------------------------------------------
(* The provider: rendering at a location and its effect.                   *)

\* The URL decides; without a readable `from` it is the stored range.
Resolved(loc) ==
    LET parsed == parseTimeParams(loc.from, loc.to)
    IN  IF parsed # NULL THEN parsed ELSE loadRange

\* useMemo: the range is resolved again only when `from` or `to` changed.
SameParams(old, loc) ==
    old.pos # 0 /\ old.hist[old.pos].from = loc.from /\ old.hist[old.pos].to = loc.to

RangeAt(old, loc) == IF SameParams(old, loc) THEN old.range ELSE Resolved(loc)

Seeded(loc) == IF loc.from = NULL THEN WithRange(loc, Resolved(loc)) ELSE loc

\* Seeding replaces the entry.
Entries(hist, loc) == Append(hist, Seeded(loc))

\* Mutant: a range that came with the URL is not saved.
Saved_NotMirrored(loc, range) == IF loc.from = NULL THEN range ELSE stored

Saved(loc, range) == range

\* What the viewer asked for by coming to loc. A location without a readable range
\* asks for the one in force, which is another tab's when that was used since.
AskedFor(t, old, loc) ==
    LET parsed == parseTimeParams(loc.from, loc.to)
    IN  IF SameParams(old, loc) THEN chosen[t]
        ELSE IF parsed # NULL THEN parsed
        ELSE IF last = t THEN chosen[t]
        ELSE loadRange

\* The tab, until now as old, comes to loc, which entry pos of hist holds. A bare
\* location is rendered without a range before the effect seeds it: the start of the
\* range is computed again.
Settle(t, old, hist, pos, loc) ==
    LET range == RangeAt(old, Seeded(loc))
        from == IF SameParams(old, loc) THEN old.from ELSE FromIso(range)
        kept == old.pos # 0 /\ PanelKey(old.hist[old.pos]) = PanelKey(loc)
    IN  /\ tabs' = [tabs EXCEPT ![t] =
                     [hist |-> hist, pos |-> pos, range |-> range, from |-> from,
                      picker |-> IF ~HasPicker(loc) THEN NoPicker
                                 ELSE IF kept THEN old.picker ELSE MountedPicker(from, range)]]
        /\ stored' = Saved(loc, range)
        /\ chosen' = [chosen EXCEPT ![t] = AskedFor(t, old, loc)]
        /\ last' = t
        /\ UNCHANGED today

\* A new entry: what was ahead of the current one is dropped.
Push(t, old, loc, doc) ==
    LET hist == Entries(SubSeq(tabs[t].hist, 1, tabs[t].pos), [loc EXCEPT !.doc = doc])
    IN  Settle(t, old, hist, Len(hist), loc)

-----------------------------------------------------------------------------

TimeInit ==
    /\ tabs = [t \in Tabs |-> Closed]
    /\ stored = NULL
    /\ today = MaxToday - 1
    /\ chosen = [t \in Tabs |-> NULL]
    /\ last = NULL

\* A link opened in a tab, or typed into its address bar: the page is loaded anew.
\* "/" redirects to the navigator in place.
OpenLink(t, loc) == Push(t, Closed, loc, tabs[t].pos + 1)

\* A navigation within the page.
Navigate(t, loc) == tabs[t].pos # 0 /\ Push(t, tabs[t], loc, Loc(t).doc)

\* Back, forward or a jump in the history; across a load the page is loaded again.
Traverse(t) ==
    \E pos \in DOMAIN tabs[t].hist \ {tabs[t].pos} :
        LET loc == tabs[t].hist[pos]
        IN  Settle(t, IF loc.doc = Loc(t).doc THEN tabs[t] ELSE Closed, tabs[t].hist, pos, loc)

\* setDays and setAbsoluteRange save the range and write it to the URL.
Choose(t, range, picker) ==
    LET loc == WithRange(Loc(t), range)
        shown == RangeAt(tabs[t], loc)
        hist == Append(SubSeq(tabs[t].hist, 1, tabs[t].pos), loc)
    IN  /\ tabs' = [tabs EXCEPT ![t] =
                     [hist |-> hist, pos |-> Len(hist), range |-> shown,
                      from |-> IF SameParams(tabs[t], loc) THEN tabs[t].from ELSE FromIso(shown),
                      picker |-> picker]]
        /\ stored' = shown
        /\ chosen' = [chosen EXCEPT ![t] = range]
        /\ last' = t
        /\ UNCHANGED today

HandlePreset(t) ==
    /\ tabs[t].pos # 0 /\ HasPicker(Loc(t))
    /\ \E days \in PresetDays :
         Choose(t, Preset(days), [from |-> today - days, to |-> NULL])

MayApply(picker) ==
    /\ picker.from # NULL
    /\ ~(picker.to # NULL /\ picker.from > picker.to)

HandleApply(t) ==
    LET picker == tabs[t].picker
        to == IF picker.to = NULL THEN NULL ELSE calendarDateToIso(picker.to, TRUE)
    IN  /\ tabs[t].pos # 0 /\ HasPicker(Loc(t))
        /\ MayApply(picker)
        /\ Choose(t, Absolute(calendarDateToIso(picker.from, FALSE), to), picker)

\* The calendars offer no day past the other end; a day is clamped all the same.
FromSelected(picker, day) ==
    [from |-> day,
     to |-> IF picker.to # NULL /\ day > picker.to THEN day ELSE picker.to]

ToSelected(picker, day) ==
    [from |-> IF picker.from # NULL /\ day < picker.from THEN day ELSE picker.from,
     to |-> day]

SelectDate(t) ==
    LET picker == tabs[t].picker
    IN  /\ tabs[t].pos # 0 /\ HasPicker(Loc(t))
        /\ \E day \in Dates :
             \/ /\ picker.to # NULL => day <= picker.to
                /\ tabs' = [tabs EXCEPT ![t].picker = FromSelected(picker, day)]
             \/ /\ day >= picker.from
                /\ tabs' = [tabs EXCEPT ![t].picker = ToSelected(picker, day)]
        /\ UNCHANGED <<stored, today, chosen, last>>

\* The date changes under the tabs: a preset's start stays where it was.
Midnight ==
    /\ today < MaxToday
    /\ today' = today + 1
    /\ UNCHANGED <<tabs, stored, chosen, last>>

-----------------------------------------------------------------------------

TimeTypeOK ==
    /\ \A t \in Tabs : tabs[t].pos \in 0..Len(tabs[t].hist)
    /\ stored = NULL \/ stored.mode \in {"preset", "absolute"}
    /\ today \in 0..MaxToday

\* A tab shows the range its viewer last chose in it, by the picker or by a link,
\* until they follow a link without a range after another tab saved its own. The
\* provider saves every range it shows, that of a shared link too, so that "returning
\* to a bare path re-seeds this range, not the viewer's previous one". Seeding
\* replaces the entry it is for: Back and Forward never land on one without a range,
\* which would be seeded again and push the viewer forward.
RangeIsChosen ==
    \A t \in Tabs :
        /\ tabs[t].pos # 0 => tabs[t].range = chosen[t]
        /\ \A i \in DOMAIN tabs[t].hist : tabs[t].hist[i].from # NULL

=============================================================================
