------------------------- MODULE RegistryPageProofs -------------------------
(***************************************************************************)
(* What the registries keep whatever the page and the other user do: the   *)
(* numbering of versions, objectives that their SLI produces, groups that  *)
(* own what they generated; and what the page keeps over them: a wizard    *)
(* that submits what fits, and a tree that shows what is resolved.         *)
(***************************************************************************)
EXTENDS RegistryPage, WellFoundedInduction, TLAPS

-----------------------------------------------------------------------------
(* The inductive invariants.                                               *)

RegistryShape ==
    /\ slis \in [Slis -> Seq(SliRows)] /\ slos \in [Slos -> Seq(SloRows)]
    /\ groups \in Seq(GroupRows)

\* A raw SLI has indicators: its rows in the wizard are never empty.
RawHasIndicators ==
    \A s \in Slis : \A v \in DOMAIN slis[s] :
        slis[s][v].mode = "raw" => Names(slis[s][v].inds) # {}

\* The references between the tables lead somewhere.
TemplatesKnown ==
    \A g \in DOMAIN groups : groups[g].tmpl.ver \in DOMAIN slos[groups[g].tmpl.name]

SliVersionsKnown ==
    \A n \in Slos : \A v \in DOMAIN slos[n] :
        slos[n][v].sli # NULL => slos[n][v].ver \in DOMAIN slis[slos[n][v].sli]

GroupsKnown ==
    \A n \in Slos : \A v \in DOMAIN slos[n] :
        slos[n][v].group # NULL => slos[n][v].group \in DOMAIN groups

\* uq_slo_groups_name_active.
OneActive ==
    \A g, h \in DOMAIN groups :
        groups[g].active /\ groups[h].active /\ groups[g].name = groups[h].name => g = h

\* What is remembered of the registries is stated over tables I of SLIs and O of
\* SLOs, groups G and raced groups R: those of a state, or of the next.
AcceptsIn(I, body) ==
    body.sli # NULL =>
        /\ body.ver \in DOMAIN I[body.sli]
        /\ body.objs \subseteq KeysOf(body.sli, I[body.sli][body.ver])

\* A version that a request about group g will add of a name with len versions.
AddFits(add, g, I, len) ==
    /\ add.body.sli \in Slis \union {NULL} /\ add.body.ver \in Nat \union {NULL}
    /\ add.body.objs \in SUBSET Metrics /\ add.body.kind \in {"standard", "template"}
    /\ add.body.group \in {g, NULL} /\ add.body.tag \in GroupNames \union {NULL}
    /\ AcceptsIn(I, add.body)
    /\ add.cfv = NULL \/ (add.cfv \in Nat /\ add.cfv <= IF len = 0 THEN 1 ELSE len)

\* The name is still generated by the group after the request.
Remains(c, n) ==
    /\ ~c.ends
    /\ n \in GeneratedNames(IF c.tmpl = NULL THEN c.was.tmpl ELSE c.tmpl,
                            IF c.rows = NULL THEN c.was.rows ELSE c.rows)

\* A request that no other meets leaves nothing of the group without an owner.
Owns(c, O, G) ==
    /\ G[c.g] = c.was /\ c.was.active
    /\ \A n \in Slos : \A v \in DOMAIN O[n] : O[n][v].active /\ O[n][v].group = c.g =>
         v <= c.len[n] /\ (n \in c.off \/ Remains(c, n))
    /\ \A n \in DOMAIN c.adds : c.adds[n].body.group = c.g => Remains(c, n)

PlanFits(c, I, O, G, R) ==
    /\ c.g \in DOMAIN G /\ G[c.g].name = c.was.name
    /\ c.ends \in BOOLEAN /\ c.off \subseteq Slos /\ DOMAIN c.adds \subseteq Slos
    /\ \A n \in Slos : c.len[n] \in Nat /\ c.len[n] <= Len(O[n])
    /\ c.rows # NULL => c.rows \in SUBSET Rows
    /\ c.tmpl # NULL => c.tmpl \in [name: Slos, ver: Nat] /\ c.tmpl.ver \in DOMAIN O[c.tmpl.name]
    /\ \A n \in DOMAIN c.adds : AddFits(c.adds[n], c.g, I, Len(O[n]))
    /\ \A h \in DOMAIN G : G[h].active /\ G[h].name = c.was.name => h = c.g \/ h \in R
    /\ c.g \notin R => Owns(c, O, G)

PlansFit ==
    /\ commands = [who \in {"page", "other"} |-> commands[who]]
    /\ \A who \in {"page", "other"} :
         commands[who] # NULL => PlanFits(commands[who], slis, slos, groups, raced)

RegistryInv ==
    /\ RegistryShape /\ RawHasIndicators /\ TemplatesKnown /\ SliVersionsKnown /\ GroupsKnown
    /\ VersionsUnbroken /\ ObjectivesProducible /\ GeneratedBelong /\ OneActive /\ PlansFit

-----------------------------------------------------------------------------
(* What the page remembers of the registries.                              *)

RowsIn(I, sli, ver) == {<<i, "">> : i \in Names(I[sli][ver].inds)}

Edits == [name: Slos, ver: Nat]
SliFields ==
    [name: Slis \union {NULL}, mode: {"raw", "aggregated"}, inds: Inds, template: BOOLEAN]

\* What is cached was once the latest version.
LatestOnce(cache, table, names) ==
    /\ cache \in [names -> Nat]
    /\ \A n \in names : cache[n] # 0 => cache[n] \in DOMAIN table[n]

ListFits(list, I) == list # NULL => LatestOnce(list, I, Slis)

EditFits(edit, O) == edit # NULL => edit \in Edits /\ edit.ver \in DOMAIN O[edit.name]

PageFits(p, O) ==
    /\ p \in [kind: {"standard", "template"}, edit: {p.edit}, view: {p.view},
              regen: {NULL} \union [rows: SUBSET Rows, tmplVer: Nat \union {NULL}],
              link: {p.link}, sli: [open: BOOLEAN, form: SliFields, base: SliFields]]
    /\ EditFits(p.edit, O)

WizardShape(w) ==
    /\ w \in [name: Slos \union {NULL}, sli: Slis \union {NULL}, ver: Nat \union {NULL},
              inds: {w.inds}, rows: {w.rows}, tag: GroupNames \union {NULL}, merged: BOOLEAN,
              auto: BOOLEAN, warned: BOOLEAN, touched: BOOLEAN, sent: BOOLEAN]
    /\ DOMAIN w.rows \subseteq Metrics /\ w.rows \in [DOMAIN w.rows -> BOOLEAN]

\* The rows of the wizard are rows of its SLI.
RowsFit(w, I) ==
    w.sli # NULL =>
        /\ w.ver \in DOMAIN I[w.sli]
        /\ I[w.sli][w.ver].mode = "raw" => DOMAIN w.rows \subseteq RowsIn(I, w.sli, w.ver)

\* A wizard left as it was filled in has the objectives of what it edits, and after
\* the merge those that the merged version of the SLI has.
TicksKept(w, edit, I, O) ==
    edit # NULL /\ ~w.touched /\ O[edit.name][edit.ver].sli # NULL =>
        /\ w.sli = O[edit.name][edit.ver].sli
        /\ ~w.merged => /\ w.ver = O[edit.name][edit.ver].ver
                        /\ Checked(w) = O[edit.name][edit.ver].objs
        /\ w.merged => Checked(w) = O[edit.name][edit.ver].objs \cap RowsIn(I, w.sli, w.ver)

Sound(w, edit, I, O) == WizardShape(w) /\ RowsFit(w, I) /\ TicksKept(w, edit, I, O)

WizardFits(w, edit, I, O) == w # NULL => Sound(w, edit, I, O)

Txns == [body: Bodies, base: Nat \union {NULL}, edit: {NULL} \union Edits]

\* A request under way: with the version read it has passed the checks.
TxnFits(t, I, O) ==
    t # NULL => t \in Txns /\ (t.base # NULL => AcceptsIn(I, t.body)) /\ EditFits(t.edit, O)

\* WizardSubmitsSound, of the request t.
Submitted(t, I, O) ==
    t # NULL /\ t.body.sli # NULL =>
        /\ t.body.ver \in DOMAIN I[t.body.sli]
        /\ I[t.body.sli][t.body.ver].mode = "raw" =>
             /\ AcceptsIn(I, t.body)
             /\ t.edit # NULL /\ O[t.edit.name][t.edit.ver].sli # NULL =>
                  t.body.objs = O[t.edit.name][t.edit.ver].objs \cap RowsIn(I, t.body.sli, t.body.ver)

TxnsFit(ts, I, O) ==
    /\ ts = [who \in {"page", "other"} |-> ts[who]]
    /\ TxnFits(ts["page"], I, O) /\ TxnFits(ts["other"], I, O) /\ Submitted(ts["page"], I, O)

PageInv ==
    /\ ListFits(listed, slis) /\ LatestOnce(detailed, slis, Slis) /\ LatestOnce(seen, slos, Slos)
    /\ PageFits(page, slos) /\ WizardFits(wizard, page.edit, slis, slos)
    /\ TxnsFit(txns, slis, slos)

RegistryPageInv == RegistryInv /\ PageInv /\ scene \in Scenes

-----------------------------------------------------------------------------
(* Versions.                                                               *)

\* A set of versions has a highest one.
LEMMA HighestVersion ==
    ASSUME NEW n \in Nat, NEW T \in SUBSET (1..n), T # {}
    PROVE  \E v \in T : \A w \in T : w <= v
<1> DEFINE D == {n - v : v \in T}
           less == OpToRel(<, Nat)
<1>1. D \subseteq Nat /\ D # {}
  <2>1. \A v \in T : v \in Int /\ v <= n /\ n - v \in Nat
    OBVIOUS
  <2> QED
    BY <2>1
<1> HIDE DEF D
<1>2. IsWellFoundedOn(less, Nat)
  BY NatLessThanWellFounded
<1> HIDE DEF less
<1>3. PICK d \in D : \A e \in D : ~(<<e, d>> \in less)
  BY <1>1, <1>2, WFMin
<1>4. \A e \in D : d <= e
  <2>1. \A e \in D : ~(e < d)
    BY <1>1, <1>3 DEF less, OpToRel
  <2> QED
    BY <1>1, <2>1
<1>5. PICK v \in T : d = n - v
  BY DEF D
<1>6. \A w \in T : n - w \in D
  BY DEF D
<1> QED
  BY <1>4, <1>5, <1>6

LEMMA LatestKnown ==
    ASSUME NEW S, NEW versions \in Seq(S), Latest(versions) # 0
    PROVE  /\ Latest(versions) \in DOMAIN versions /\ versions[Latest(versions)].active
           /\ \A v \in DOMAIN versions : versions[v].active => v <= Latest(versions)
<1> DEFINE live == {v \in DOMAIN versions : versions[v].active}
<1>1. live # {} /\ Latest(versions) = CHOOSE v \in live : \A w \in live : w <= v
  BY DEF Latest
<1>2. Len(versions) \in Nat /\ DOMAIN versions = 1..Len(versions)
  OBVIOUS
<1>3. live \in SUBSET (1..Len(versions))
  BY <1>2
<1>4. \E v \in live : \A w \in live : w <= v
  <2> HIDE DEF live
  <2> QED
    BY <1>1, <1>2, <1>3, HighestVersion
<1> HIDE DEF live
<1>5. Latest(versions) \in live /\ \A w \in live : w <= Latest(versions)
  BY <1>1, <1>4
<1> QED
  BY <1>5 DEF live

\* A name with an active version has a latest one.
LEMMA ActiveHasLatest ==
    ASSUME NEW S, NEW versions \in Seq(S), NEW v \in DOMAIN versions, versions[v].active
    PROVE  Latest(versions) # 0
<1> DEFINE live == {w \in DOMAIN versions : versions[w].active}
<1>1. v \in live /\ DOMAIN versions = 1..Len(versions) /\ Len(versions) \in Nat
  OBVIOUS
<1>2. Latest(versions) = CHOOSE w \in live : \A x \in live : x <= w
  BY <1>1 DEF Latest
<1>3. live \in SUBSET (1..Len(versions)) /\ live # {}
  BY <1>1
<1>4. \E w \in live : \A x \in live : x <= w
  <2> HIDE DEF live
  <2> QED
    BY <1>1, <1>3, HighestVersion
<1>5. Latest(versions) \in live
  <2> HIDE DEF live
  <2> QED
    BY <1>2, <1>4
<1> QED
  BY <1>1, <1>3, <1>5

\* A row, later: deactivated at most.
SameRow(a, b) ==
    /\ a.version = b.version /\ a.sli = b.sli /\ a.ver = b.ver /\ a.objs = b.objs
    /\ a.kind = b.kind /\ a.group = b.group /\ a.tag = b.tag /\ a.cfv = b.cfv
    /\ a.active => b.active

\* The versions of a name, later: one more at most.
Grown(old, new, row) ==
    /\ new \in Seq(SloRows)
    /\ Len(new) \in {Len(old), Len(old) + 1}
    /\ \A v \in 1..Len(old) : SameRow(new[v], old[v])
    /\ Len(new) = Len(old) + 1 => SameRow(new[Len(old) + 1], row)

LEMMA AppendedGrown ==
    ASSUME NEW old \in Seq(SloRows), NEW row \in SloRows
    PROVE  Grown(old, Append(old, row), row)
<1>1. Append(old, row) \in Seq(SloRows) /\ Len(Append(old, row)) = Len(old) + 1
  OBVIOUS
<1>2. Append(old, row)[Len(old) + 1] = row
  OBVIOUS
<1>3. \A v \in 1..Len(old) : Append(old, row)[v] = old[v]
  OBVIOUS
<1> QED
  BY <1>1, <1>2, <1>3 DEF Grown, SameRow

LEMMA UnchangedGrown ==
    ASSUME NEW old \in Seq(SloRows), NEW row
    PROVE  Grown(old, old, row)
  BY DEF Grown, SameRow

LEMMA DeactivatedRows ==
    ASSUME NEW versions \in Seq(SloRows)
    PROVE  /\ Deactivated(versions) \in Seq(SloRows)
           /\ Len(Deactivated(versions)) = Len(versions)
           /\ \A v \in 1..Len(versions) : /\ SameRow(Deactivated(versions)[v], versions[v])
                                          /\ ~Deactivated(versions)[v].active
<1> DEFINE off == Deactivated(versions)
<1>1. DOMAIN versions = 1..Len(versions) /\ Len(versions) \in Nat
  OBVIOUS
<1>2. \A v \in 1..Len(versions) : versions[v] \in SloRows
  OBVIOUS
<1>3. off = [v \in 1..Len(versions) |-> [versions[v] EXCEPT !.active = FALSE]]
  BY <1>1 DEF Deactivated
<1>4. ASSUME NEW v \in 1..Len(versions)
      PROVE  /\ off[v] \in SloRows /\ SameRow(off[v], versions[v]) /\ ~off[v].active
  <2>1. off[v] = [versions[v] EXCEPT !.active = FALSE]
    BY <1>3
  <2>2. versions[v] \in SloRows
    BY <1>2
  <2> HIDE DEF off
  <2> QED
    BY <2>1, <2>2 DEF SloRows, SameRow
<1>5. off \in [1..Len(versions) -> SloRows]
  BY <1>3, <1>4
<1> HIDE DEF off
<1>6. off \in Seq(SloRows) /\ Len(off) = Len(versions)
  BY <1>1, <1>5
<1> QED
  BY <1>4, <1>6 DEF off

LEMMA DeactivatedGrown ==
    ASSUME NEW old \in Seq(SloRows), NEW new, NEW row, Grown(old, new, row)
    PROVE  Grown(old, Deactivated(new), row)
<1>1. /\ Deactivated(new) \in Seq(SloRows) /\ Len(Deactivated(new)) = Len(new)
      /\ \A v \in 1..Len(new) : SameRow(Deactivated(new)[v], new[v])
  BY DeactivatedRows DEF Grown
<1>2. \A v \in 1..Len(old) : v \in 1..Len(new)
  BY DEF Grown
<1>3. \A a, b, c : SameRow(a, b) /\ SameRow(b, c) => SameRow(a, c)
  BY DEF SameRow
<1>4. \A v \in 1..Len(old) : SameRow(Deactivated(new)[v], old[v])
  BY <1>1, <1>2, <1>3 DEF Grown
<1>5. Len(new) = Len(old) + 1 => SameRow(Deactivated(new)[Len(old) + 1], row)
  <2> SUFFICES ASSUME Len(new) = Len(old) + 1
               PROVE  SameRow(Deactivated(new)[Len(old) + 1], row)
    OBVIOUS
  <2>1. Len(old) + 1 \in 1..Len(new)
    OBVIOUS
  <2> QED
    BY <1>1, <1>3, <2>1 DEF Grown
<1> QED
  BY <1>1, <1>4, <1>5 DEF Grown

-----------------------------------------------------------------------------
(* What a step of the registries leaves as it was.                         *)

\* A row that may become version base + 1.
SoundRow(row, base) ==
    /\ row.version = base + 1 /\ row.cfv <= IF base = 0 THEN 1 ELSE base
    /\ row.sli # NULL =>
         row.ver \in DOMAIN slis[row.sli] /\ row.objs \subseteq IndicatorKeys(row.sli, row.ver)

SlisStay ==
    \A s \in Slis : \A v \in DOMAIN slis[s] :
        /\ v \in DOMAIN slis'[s]
        /\ slis'[s][v].mode = slis[s][v].mode /\ slis'[s][v].inds = slis[s][v].inds

SlosStay ==
    \A n \in Slos : \A v \in DOMAIN slos[n] :
        v \in DOMAIN slos'[n] /\ SameRow(slos'[n][v], slos[n][v])

\* The registries after a step that keeps them.
Outlasts(I, O, J, P) ==
    /\ \A s \in Slis : \A v \in DOMAIN I[s] :
         v \in DOMAIN J[s] /\ J[s][v].mode = I[s][v].mode /\ J[s][v].inds = I[s][v].inds
    /\ \A n \in Slos : \A v \in DOMAIN O[n] : v \in DOMAIN P[n] /\ SameRow(P[n][v], O[n][v])

\* Every name has its old versions, and a sound new one at most.
SlosGrow(row) ==
    /\ slos' = [n \in Slos |-> slos'[n]]
    /\ \A n \in Slos :
         /\ Grown(slos[n], slos'[n], row[n])
         /\ Len(slos'[n]) = Len(slos[n]) + 1 => SoundRow(row[n], Len(slos[n]))

LEMMA RowOfBody ==
    ASSUME NEW body, NEW base \in Nat, NEW cfv \in Nat \union {NULL},
           body.sli \in Slis \union {NULL}, body.ver \in Nat \union {NULL},
           body.objs \in SUBSET Metrics, body.kind \in {"standard", "template"},
           body.group \in Nat \union {NULL}, body.tag \in GroupNames \union {NULL}
    PROVE  /\ SloRow(body, base, cfv) \in SloRows
           /\ SloRow(body, base, cfv).version = base + 1
           /\ SloRow(body, base, cfv).sli = body.sli /\ SloRow(body, base, cfv).ver = body.ver
           /\ SloRow(body, base, cfv).objs = body.objs /\ SloRow(body, base, cfv).group = body.group
           /\ SloRow(body, base, cfv).cfv
                = IF cfv # NULL THEN cfv ELSE IF base > 0 THEN base ELSE 1
  BY DEF SloRow, SloRows

\* The rows of a name by their version.
LEMMA SloTyped ==
    ASSUME RegistryShape, NEW n \in Slos
    PROVE  /\ slos[n] \in Seq(SloRows) /\ Len(slos[n]) \in Nat /\ DOMAIN slos[n] = 1..Len(slos[n])
           /\ \A v \in DOMAIN slos[n] : slos[n][v] \in SloRows
  BY DEF RegistryShape

LEMMA GroupTyped ==
    ASSUME RegistryShape, NEW g \in DOMAIN groups
    PROVE  /\ groups \in Seq(GroupRows) /\ DOMAIN groups = 1..Len(groups) /\ Len(groups) \in Nat
           /\ groups[g] \in GroupRows /\ groups[g].tmpl.name \in Slos
           /\ groups[g].rows \in SUBSET Rows /\ groups[g].name \in GroupNames
<1>1. groups \in Seq(GroupRows)
  BY DEF RegistryShape
<1>2. groups[g] \in GroupRows
  BY <1>1
<1>3. /\ groups[g].tmpl.name \in Slos /\ groups[g].rows \in SUBSET Rows
      /\ groups[g].name \in GroupNames
  BY <1>2 DEF GroupRows
<1> QED
  BY <1>1, <1>2, <1>3

LEMMA GrownStay ==
    ASSUME RegistryShape, NEW row, SlosGrow(row)
    PROVE  /\ slos' \in [Slos -> Seq(SloRows)] /\ SlosStay
           /\ \A n \in Slos : \A v \in DOMAIN slos'[n] :
                \/ v \in DOMAIN slos[n]
                \/ /\ v = Len(slos[n]) + 1 /\ SameRow(slos'[n][v], row[n])
                   /\ SoundRow(row[n], Len(slos[n]))
<1>1. slos' \in [Slos -> Seq(SloRows)]
  BY DEF SlosGrow, Grown
<1>2. ASSUME NEW n \in Slos
      PROVE  /\ DOMAIN slos[n] = 1..Len(slos[n]) /\ Len(slos[n]) \in Nat
             /\ DOMAIN slos'[n] = 1..Len(slos'[n])
             /\ Len(slos'[n]) = Len(slos[n]) \/ Len(slos'[n]) = Len(slos[n]) + 1
  <2>1. DOMAIN slos[n] = 1..Len(slos[n]) /\ Len(slos[n]) \in Nat
    BY SloTyped
  <2>2. slos'[n] \in Seq(SloRows)
    BY <1>1
  <2>3. DOMAIN slos'[n] = 1..Len(slos'[n])
    BY <2>2
  <2> QED
    BY <2>1, <2>3 DEF SlosGrow, Grown
<1>3. SlosStay
  <2> SUFFICES ASSUME NEW n \in Slos, NEW v \in DOMAIN slos[n]
               PROVE  v \in DOMAIN slos'[n] /\ SameRow(slos'[n][v], slos[n][v])
    BY DEF SlosStay
  <2> QED
    BY <1>2 DEF SlosGrow, Grown
<1>4. ASSUME NEW n \in Slos, NEW v \in DOMAIN slos'[n], v \notin DOMAIN slos[n]
      PROVE  /\ v = Len(slos[n]) + 1 /\ SameRow(slos'[n][v], row[n])
             /\ SoundRow(row[n], Len(slos[n]))
  <2>1. v = Len(slos[n]) + 1 /\ Len(slos'[n]) = Len(slos[n]) + 1
    BY <1>2, <1>4
  <2> QED
    BY <2>1 DEF SlosGrow, Grown
<1> QED
  BY <1>1, <1>3, <1>4

\* Whatever grows that way stays numbered and producible.
LEMMA GrownSound ==
    ASSUME RegistryInv, UNCHANGED slis, NEW row, SlosGrow(row)
    PROVE  /\ slos' \in [Slos -> Seq(SloRows)] /\ SlisStay /\ SlosStay
           /\ RawHasIndicators' /\ SliVersionsKnown' /\ VersionsUnbroken' /\ ObjectivesProducible'
<1>1. /\ slos' \in [Slos -> Seq(SloRows)] /\ SlosStay
      /\ \A n \in Slos : \A v \in DOMAIN slos'[n] :
           \/ v \in DOMAIN slos[n]
           \/ /\ v = Len(slos[n]) + 1 /\ SameRow(slos'[n][v], row[n])
              /\ SoundRow(row[n], Len(slos[n]))
  BY GrownStay DEF RegistryInv
<1>2. SlisStay /\ RawHasIndicators'
  BY DEF SlisStay, RegistryInv, RawHasIndicators
<1>3. ASSUME NEW n \in Slos, NEW v \in DOMAIN slos'[n]
      PROVE  slos'[n][v].version = v /\ slos'[n][v].cfv <= IF v = 1 THEN 1 ELSE v - 1
  <2>1. CASE v \in DOMAIN slos[n]
    <3>1. slos[n][v].version = v /\ slos[n][v].cfv <= IF v = 1 THEN 1 ELSE v - 1
      BY <2>1 DEF RegistryInv, VersionsUnbroken, Numbered
    <3> QED
      BY <1>1, <2>1, <3>1 DEF SlosStay, SameRow
  <2>2. CASE v \notin DOMAIN slos[n]
    <3>1. /\ v = Len(slos[n]) + 1 /\ SameRow(slos'[n][v], row[n])
          /\ SoundRow(row[n], Len(slos[n])) /\ Len(slos[n]) \in Nat
      BY <1>1, <2>2, SloTyped DEF RegistryInv
    <3> QED
      BY <3>1 DEF SameRow, SoundRow
  <2> QED
    BY <2>1, <2>2
<1>4. VersionsUnbroken'
  BY <1>3 DEF VersionsUnbroken, Numbered
<1>5. ASSUME NEW n \in Slos, NEW v \in DOMAIN slos'[n], slos'[n][v].sli # NULL
      PROVE  /\ slos'[n][v].ver \in DOMAIN slis[slos'[n][v].sli]
             /\ slos'[n][v].objs \subseteq IndicatorKeys(slos'[n][v].sli, slos'[n][v].ver)
  <2>1. CASE v \in DOMAIN slos[n]
    <3>1. SameRow(slos'[n][v], slos[n][v])
      BY <1>1, <2>1 DEF SlosStay
    <3>2. /\ slos[n][v].sli = slos'[n][v].sli /\ slos[n][v].ver = slos'[n][v].ver
          /\ slos[n][v].objs = slos'[n][v].objs
      BY <3>1 DEF SameRow
    <3>3. slos[n][v].sli # NULL =>
            /\ slos[n][v].ver \in DOMAIN slis[slos[n][v].sli]
            /\ slos[n][v].objs \subseteq IndicatorKeys(slos[n][v].sli, slos[n][v].ver)
      BY <2>1 DEF RegistryInv, SliVersionsKnown, ObjectivesProducible
    <3> QED
      BY <1>5, <3>2, <3>3
  <2>2. CASE v \notin DOMAIN slos[n]
    <3>1. SameRow(slos'[n][v], row[n]) /\ SoundRow(row[n], Len(slos[n]))
      BY <1>1, <2>2
    <3>2. /\ row[n].sli = slos'[n][v].sli /\ row[n].ver = slos'[n][v].ver
          /\ row[n].objs = slos'[n][v].objs
      BY <3>1 DEF SameRow
    <3> QED
      BY <1>5, <3>1, <3>2 DEF SoundRow
  <2> QED
    BY <2>1, <2>2
<1>6. SliVersionsKnown'
  BY <1>5 DEF SliVersionsKnown
<1>7. ObjectivesProducible'
  BY <1>5 DEF ObjectivesProducible, IndicatorKeys
<1> QED
  BY <1>1, <1>2, <1>4, <1>6, <1>7

\* What is new belongs to no group.
StandAlone ==
    \A n \in Slos : \A v \in DOMAIN slos'[n] : v \in DOMAIN slos[n] \/ slos'[n][v].group = NULL

-----------------------------------------------------------------------------
(* What a request about a group has planned outlasts what others commit.   *)

LEMMA PlanOutlasts ==
    ASSUME NEW d, NEW I, NEW O, NEW G, NEW R, NEW J, NEW P, NEW H, NEW S,
           PlanFits(d, I, O, G, R), Outlasts(I, O, J, P), R \subseteq S,
           \A n \in Slos : Len(O[n]) \in Nat /\ Len(P[n]) \in Nat /\ Len(O[n]) <= Len(P[n]),
           \A h \in DOMAIN G : /\ h \in DOMAIN H /\ H[h].name = G[h].name
                               /\ H[h].active => G[h].active,
           \A h \in DOMAIN H : h \in DOMAIN G \/ h \in S \/ H[h].name # d.was.name,
           d.g \notin S =>
              /\ H[d.g] = G[d.g]
              /\ \A n \in Slos : \A v \in DOMAIN P[n] : v \in DOMAIN O[n] \/ P[n][v].group # d.g
    PROVE  PlanFits(d, J, P, H, S)
<1>1. d.g \in DOMAIN H /\ H[d.g].name = d.was.name
  BY DEF PlanFits
<1>2. \A n \in Slos : d.len[n] \in Nat /\ d.len[n] <= Len(P[n])
  BY DEF PlanFits
<1>3. d.tmpl # NULL => d.tmpl \in [name: Slos, ver: Nat] /\ d.tmpl.ver \in DOMAIN P[d.tmpl.name]
  <2> SUFFICES ASSUME d.tmpl # NULL
               PROVE  d.tmpl \in [name: Slos, ver: Nat] /\ d.tmpl.ver \in DOMAIN P[d.tmpl.name]
    OBVIOUS
  <2>1. d.tmpl \in [name: Slos, ver: Nat] /\ d.tmpl.ver \in DOMAIN O[d.tmpl.name]
    BY DEF PlanFits
  <2> QED
    BY <2>1 DEF Outlasts
<1>4. ASSUME NEW n \in DOMAIN d.adds
      PROVE  AddFits(d.adds[n], d.g, J, Len(P[n]))
  <2> DEFINE add == d.adds[n]
  <2>1. n \in Slos /\ AddFits(add, d.g, I, Len(O[n]))
    BY DEF PlanFits
  <2> HIDE DEF add
  <2>2. AcceptsIn(J, add.body)
    <3> SUFFICES ASSUME add.body.sli # NULL
                 PROVE  /\ add.body.ver \in DOMAIN J[add.body.sli]
                        /\ add.body.objs \subseteq KeysOf(add.body.sli, J[add.body.sli][add.body.ver])
      BY DEF AcceptsIn
    <3>1. /\ add.body.sli \in Slis /\ add.body.ver \in DOMAIN I[add.body.sli]
          /\ add.body.objs \subseteq KeysOf(add.body.sli, I[add.body.sli][add.body.ver])
      BY <2>1 DEF AddFits, AcceptsIn
    <3>2. /\ add.body.ver \in DOMAIN J[add.body.sli]
          /\ J[add.body.sli][add.body.ver].mode = I[add.body.sli][add.body.ver].mode
          /\ J[add.body.sli][add.body.ver].inds = I[add.body.sli][add.body.ver].inds
      BY <3>1 DEF Outlasts
    <3>3. KeysOf(add.body.sli, J[add.body.sli][add.body.ver])
            = KeysOf(add.body.sli, I[add.body.sli][add.body.ver])
      BY <3>2 DEF KeysOf
    <3> QED
      BY <3>1, <3>2, <3>3
  <2>3. Len(O[n]) \in Nat /\ Len(P[n]) \in Nat /\ Len(O[n]) <= Len(P[n])
    BY <2>1
  <2>4. add.cfv = NULL \/ (add.cfv \in Nat /\ add.cfv <= IF Len(P[n]) = 0 THEN 1 ELSE Len(P[n]))
    BY <2>1, <2>3 DEF AddFits
  <2>5. AddFits(add, d.g, J, Len(P[n]))
    BY <2>1, <2>2, <2>4 DEF AddFits
  <2> QED
    BY <2>5 DEF add
<1>5. \A h \in DOMAIN H : H[h].active /\ H[h].name = d.was.name => h = d.g \/ h \in S
  BY DEF PlanFits
<1>6. d.g \notin S => Owns(d, P, H)
  <2> SUFFICES ASSUME d.g \notin S PROVE Owns(d, P, H)
    OBVIOUS
  <2>1. Owns(d, O, G) /\ H[d.g] = G[d.g]
    BY DEF PlanFits
  <2>2. ASSUME NEW n \in Slos, NEW v \in DOMAIN P[n], P[n][v].active, P[n][v].group = d.g
        PROVE  v <= d.len[n] /\ (n \in d.off \/ Remains(d, n))
    <3>1. v \in DOMAIN O[n]
      BY <2>2
    <3>2. O[n][v].active /\ O[n][v].group = d.g
      BY <2>2, <3>1 DEF Outlasts, SameRow
    <3> QED
      BY <2>1, <3>1, <3>2 DEF Owns
  <2> QED
    BY <2>1, <2>2 DEF Owns
<1> QED
  BY <1>1, <1>2, <1>3, <1>4, <1>5, <1>6 DEF PlanFits

\* No version is ever taken away.
LEMMA LensGrow ==
    ASSUME RegistryShape, slos' \in [Slos -> Seq(SloRows)], SlosStay, NEW n \in Slos
    PROVE  Len(slos[n]) \in Nat /\ Len(slos'[n]) \in Nat /\ Len(slos[n]) <= Len(slos'[n])
<1>1. Len(slos[n]) \in Nat /\ DOMAIN slos[n] = 1..Len(slos[n])
  BY SloTyped
<1>2. slos'[n] \in Seq(SloRows)
  OBVIOUS
<1>3. Len(slos'[n]) \in Nat /\ DOMAIN slos'[n] = 1..Len(slos'[n])
  BY <1>2
<1>4. CASE Len(slos[n]) = 0
  BY <1>1, <1>3, <1>4
<1>5. CASE Len(slos[n]) # 0
  <2>1. Len(slos[n]) \in DOMAIN slos[n]
    BY <1>1, <1>5
  <2>2. Len(slos[n]) \in DOMAIN slos'[n]
    BY <2>1 DEF SlosStay
  <2> QED
    BY <1>1, <1>3, <2>2
<1> QED
  BY <1>4, <1>5

\* A step that is about no group.
LEMMA PlansUntouched ==
    ASSUME RegistryInv, UNCHANGED groups, UNCHANGED groupTxns, SlisStay, SlosStay, StandAlone,
           slos' \in [Slos -> Seq(SloRows)]
    PROVE  OneActive' /\ PlansFit'
<1>1. OneActive'
  BY DEF RegistryInv, OneActive
<1>2. UNCHANGED <<commands, raced>>
  BY DEF groupTxns
<1>3. ASSUME NEW who \in {"page", "other"}, commands[who] # NULL
      PROVE  PlanFits(commands[who], slis', slos', groups, raced)
  <2>1. PICK d : d = commands[who]
    OBVIOUS
  <2>2. PlanFits(d, slis, slos, groups, raced)
    BY <1>3, <2>1 DEF RegistryInv, PlansFit
  <2>3. Outlasts(slis, slos, slis', slos')
    BY DEF SlisStay, SlosStay, Outlasts
  <2>4. \A n \in Slos : /\ Len(slos[n]) \in Nat /\ Len(slos'[n]) \in Nat
                        /\ Len(slos[n]) <= Len(slos'[n])
    BY LensGrow DEF RegistryInv
  <2>5. d.g \in DOMAIN groups /\ groups \in Seq(GroupRows)
    BY <2>2 DEF PlanFits, RegistryInv, RegistryShape
  <2>6. d.g \in Nat
    BY <2>5
  <2>7. \A n \in Slos : \A v \in DOMAIN slos'[n] : v \in DOMAIN slos[n] \/ slos'[n][v].group # d.g
    BY <2>6, RegistryAssumption DEF StandAlone
  <2>8. PlanFits(d, slis', slos', groups, raced)
    BY <2>2, <2>3, <2>4, <2>7, PlanOutlasts
  <2> QED
    BY <2>1, <2>8
<1>4. PlansFit'
  BY <1>2, <1>3 DEF RegistryInv, PlansFit
<1> QED
  BY <1>1, <1>4

\* The references to and from groups, when the groups stay and what is new belongs
\* to none.
LEMMA GroupsUntouched ==
    ASSUME RegistryInv, UNCHANGED <<groups, raced>>, NEW row, SlosGrow(row),
           \A n \in Slos : Len(slos'[n]) = Len(slos[n]) + 1 => row[n].group = NULL
    PROVE  TemplatesKnown' /\ GroupsKnown' /\ GeneratedBelong' /\ StandAlone
<1>1. /\ SlosStay
      /\ \A n \in Slos : \A v \in DOMAIN slos'[n] :
           \/ v \in DOMAIN slos[n]
           \/ /\ v = Len(slos[n]) + 1 /\ SameRow(slos'[n][v], row[n])
              /\ SoundRow(row[n], Len(slos[n]))
  BY GrownStay DEF RegistryInv
<1>2. TemplatesKnown'
  <2> SUFFICES ASSUME NEW g \in DOMAIN groups
               PROVE  groups[g].tmpl.ver \in DOMAIN slos'[groups[g].tmpl.name]
    BY DEF TemplatesKnown
  <2>1. groups[g].tmpl.name \in Slos
    BY GroupTyped DEF RegistryInv
  <2> QED
    BY <1>1, <2>1 DEF RegistryInv, TemplatesKnown, SlosStay
<1>3. ASSUME NEW n \in Slos, NEW v \in DOMAIN slos'[n], slos'[n][v].group # NULL
      PROVE  /\ v \in DOMAIN slos[n] /\ slos'[n][v].group = slos[n][v].group
             /\ slos'[n][v].active => slos[n][v].active
  <2>1. CASE v \in DOMAIN slos[n]
    BY <1>1, <2>1 DEF SlosStay, SameRow
  <2>2. CASE v \notin DOMAIN slos[n]
    <3>1. SameRow(slos'[n][v], row[n]) /\ v = Len(slos[n]) + 1
      BY <1>1, <2>2
    <3>2. Len(slos'[n]) = Len(slos[n]) + 1
      <4>1. slos'[n] \in Seq(SloRows) /\ Len(slos'[n]) \in {Len(slos[n]), Len(slos[n]) + 1}
        BY DEF SlosGrow, Grown
      <4>2. v \in 1..Len(slos'[n]) /\ Len(slos[n]) \in Nat
        BY <4>1, SloTyped DEF RegistryInv
      <4> QED
        BY <3>1, <4>1, <4>2
    <3> QED
      BY <1>3, <3>1, <3>2 DEF SameRow
  <2> QED
    BY <2>1, <2>2
<1>4. GroupsKnown'
  BY <1>3 DEF RegistryInv, GroupsKnown
<1>5. GeneratedBelong'
  <2> SUFFICES ASSUME NEW n \in Slos, NEW v \in DOMAIN slos'[n], slos'[n][v].active,
                      slos'[n][v].group # NULL, slos'[n][v].group \notin raced
               PROVE  LET g == groups[slos'[n][v].group]
                      IN  g.active /\ n \in GeneratedNames(g.tmpl, g.rows)
    BY DEF GeneratedBelong, GeneratedNames
  <2> QED
    BY <1>3 DEF RegistryInv, GeneratedBelong
<1> QED
  BY <1>2, <1>3, <1>4, <1>5 DEF StandAlone

-----------------------------------------------------------------------------
(* The requests that leave the groups alone.                               *)

LEMMA GrownKeeps ==
    ASSUME RegistryInv, UNCHANGED <<slis, groups>>, UNCHANGED groupTxns, NEW row, SlosGrow(row),
           \A n \in Slos : Len(slos'[n]) = Len(slos[n]) + 1 => row[n].group = NULL
    PROVE  RegistryInv' /\ SlisStay /\ SlosStay
<1>1. TemplatesKnown' /\ GroupsKnown' /\ GeneratedBelong' /\ StandAlone
  BY GroupsUntouched DEF groupTxns
<1>2. /\ slos' \in [Slos -> Seq(SloRows)] /\ SlisStay /\ SlosStay
      /\ RawHasIndicators' /\ SliVersionsKnown' /\ VersionsUnbroken' /\ ObjectivesProducible'
  BY GrownSound
<1>3. RegistryShape'
  BY <1>2 DEF RegistryInv, RegistryShape
<1>4. OneActive' /\ PlansFit'
  BY <1>1, <1>2, PlansUntouched
<1> QED
  BY <1>1, <1>2, <1>3, <1>4 DEF RegistryInv

\* The insert of a create that passed the checks.
LEMMA InsertKeeps ==
    ASSUME RegistryInv, NEW body \in Bodies, NEW base, Accepts(body), slos' \in Inserted(body, base),
           UNCHANGED <<slis, groups>>, UNCHANGED groupTxns
    PROVE  RegistryInv' /\ SlisStay /\ SlosStay
<1> DEFINE len == Len(slos[body.name])
           new == SloRow(body, len, NULL)
           row == [n \in Slos |-> new]
<1>1. /\ body.name \in Slos /\ body.sli \in Slis \union {NULL} /\ body.ver \in Nat \union {NULL}
      /\ body.objs \in SUBSET Metrics /\ body.kind \in {"standard", "template"}
      /\ body.group = NULL /\ body.tag \in GroupNames \union {NULL}
  BY DEF Bodies
<1>2. slos[body.name] \in Seq(SloRows) /\ len \in Nat /\ slos \in [Slos -> Seq(SloRows)]
  BY <1>1, SloTyped DEF RegistryInv, RegistryShape
<1>3. slos' = [slos EXCEPT ![body.name] = Append(slos[body.name], new)]
  BY DEF Inserted
<1>4. /\ new \in SloRows /\ new.version = len + 1 /\ new.sli = body.sli /\ new.ver = body.ver
      /\ new.objs = body.objs /\ new.group = NULL /\ new.cfv = IF len > 0 THEN len ELSE 1
  <2>1. NULL \in Nat \union {NULL} /\ body.group \in Nat \union {NULL}
    BY <1>1
  <2> HIDE DEF len
  <2>2. /\ new \in SloRows /\ new.version = len + 1 /\ new.sli = body.sli /\ new.ver = body.ver
        /\ new.objs = body.objs /\ new.group = body.group
        /\ new.cfv = IF NULL # NULL THEN NULL ELSE IF len > 0 THEN len ELSE 1
    BY <1>1, <1>2, <2>1, RowOfBody, Zenon
  <2> HIDE DEF new
  <2> QED
    BY <1>1, <2>2
<1> HIDE DEF new, len
<1>5. SoundRow(new, len)
  BY <1>2, <1>4 DEF SoundRow, Accepts
<1>6. SlosGrow(row)
  <2>1. slos' = [n \in Slos |-> slos'[n]]
    BY <1>2, <1>3
  <2>2. Grown(slos[body.name], slos'[body.name], row[body.name])
    BY <1>1, <1>2, <1>3, <1>4, AppendedGrown
  <2>3. ASSUME NEW n \in Slos, n # body.name
        PROVE  Grown(slos[n], slos'[n], row[n]) /\ Len(slos'[n]) = Len(slos[n])
    BY <1>2, <1>3, <2>3, UnchangedGrown
  <2>4. ASSUME NEW n \in Slos
        PROVE  Len(slos'[n]) = Len(slos[n]) + 1 => SoundRow(row[n], Len(slos[n]))
    <3>1. CASE n = body.name
      BY <3>1, <1>5 DEF len
    <3>2. CASE n # body.name
      <4>1. Len(slos[n]) \in Nat
        BY SloTyped DEF RegistryInv
      <4> QED
        BY <3>2, <2>3, <4>1
    <3> QED
      BY <3>1, <3>2
  <2> QED
    BY <2>1, <2>2, <2>3, <2>4 DEF SlosGrow
<1>7. \A n \in Slos : row[n].group = NULL
  BY <1>4
<1> HIDE DEF row
<1> QED
  BY <1>6, <1>7, GrownKeeps

\* Every version of some names is deactivated.
LEMMA DeactivateKeeps ==
    ASSUME RegistryInv, UNCHANGED <<slis, groups>>, UNCHANGED groupTxns, NEW name \in Slos,
           slos' = [slos EXCEPT ![name] = Deactivated(@)]
    PROVE  RegistryInv' /\ SlisStay /\ SlosStay
<1> DEFINE row == [n \in Slos |-> slos[n][1]]
<1>1. slos \in [Slos -> Seq(SloRows)]
  BY DEF RegistryInv, RegistryShape
<1>2. \A n \in Slos : slos'[n] = IF n = name THEN Deactivated(slos[n]) ELSE slos[n]
  BY <1>1
<1>3. slos' = [n \in Slos |-> slos'[n]]
  BY <1>1
<1> HIDE DEF row
<1>4. \A n \in Slos : Grown(slos[n], slos'[n], row[n]) /\ Len(slos'[n]) = Len(slos[n])
  <2> SUFFICES ASSUME NEW n \in Slos
               PROVE  Grown(slos[n], slos'[n], row[n]) /\ Len(slos'[n]) = Len(slos[n])
    OBVIOUS
  <2>1. slos[n] \in Seq(SloRows)
    BY <1>1
  <2>2. Grown(slos[n], slos[n], row[n]) /\ Len(Deactivated(slos[n])) = Len(slos[n])
    BY <2>1, UnchangedGrown, DeactivatedRows
  <2>3. Grown(slos[n], Deactivated(slos[n]), row[n])
    BY <2>1, <2>2, DeactivatedGrown
  <2> QED
    BY <1>2, <2>2, <2>3
<1>5. \A n \in Slos : Len(slos'[n]) # Len(slos[n]) + 1
  BY <1>4, SloTyped DEF RegistryInv
<1>6. SlosGrow(row)
  BY <1>3, <1>4, <1>5 DEF SlosGrow
<1> QED
  BY <1>5, <1>6, GrownKeeps

\* New versions of SLIs and their deactivation: what a version produces never changes.
LEMMA SlisKeep ==
    ASSUME RegistryInv, UNCHANGED <<slos, groups>>, UNCHANGED groupTxns, slis' \in [Slis -> Seq(SliRows)],
           SlisStay, RawHasIndicators'
    PROVE  RegistryInv' /\ SlosStay
<1>1. RegistryShape' /\ TemplatesKnown' /\ GroupsKnown' /\ VersionsUnbroken' /\ GeneratedBelong'
  BY DEF RegistryInv, RegistryShape, TemplatesKnown, GroupsKnown, VersionsUnbroken, GeneratedBelong,
     GeneratedNames, Numbered, groupTxns
<1>2. SlosStay
  BY DEF SlosStay, SameRow
<1>3. ASSUME NEW n \in Slos, NEW v \in DOMAIN slos[n], slos[n][v].sli # NULL
      PROVE  /\ slos[n][v].ver \in DOMAIN slis'[slos[n][v].sli]
             /\ slos[n][v].objs
                  \subseteq KeysOf(slos[n][v].sli, slis'[slos[n][v].sli][slos[n][v].ver])
  <2> DEFINE s == slos[n][v].sli
             w == slos[n][v].ver
  <2>1. s \in Slis
    <3>1. slos[n][v] \in SloRows
      BY SloTyped DEF RegistryInv
    <3> QED
      BY <1>3, <3>1 DEF SloRows
  <2>2. w \in DOMAIN slis[s] /\ slos[n][v].objs \subseteq KeysOf(s, slis[s][w])
    BY <1>3 DEF RegistryInv, SliVersionsKnown, ObjectivesProducible, IndicatorKeys
  <2> HIDE DEF s, w
  <2>3. /\ w \in DOMAIN slis'[s] /\ slis'[s][w].mode = slis[s][w].mode
        /\ slis'[s][w].inds = slis[s][w].inds
    BY <2>1, <2>2 DEF SlisStay
  <2>4. KeysOf(s, slis'[s][w]) = KeysOf(s, slis[s][w])
    BY <2>3 DEF KeysOf
  <2> QED
    BY <2>2, <2>3, <2>4 DEF s, w
<1>4. SliVersionsKnown'
  BY <1>3 DEF SliVersionsKnown
<1>5. ObjectivesProducible'
  BY <1>3 DEF ObjectivesProducible, IndicatorKeys, KeysOf, Names
<1>6. OneActive' /\ PlansFit'
  <2>1. StandAlone /\ slos' \in [Slos -> Seq(SloRows)]
    BY DEF StandAlone, RegistryInv, RegistryShape
  <2> QED
    BY <1>2, <2>1, PlansUntouched
<1> QED
  BY <1>1, <1>2, <1>4, <1>5, <1>6 DEF RegistryInv

LEMMA SliCreatedKeeps ==
    ASSUME RegistryInv, NEW sli \in Slis, NEW mode \in {"raw", "aggregated"}, NEW inds \in Inds,
           NEW template, SliCreated(sli, mode, inds, template), UNCHANGED groupTxns
    PROVE  RegistryInv' /\ SlisStay /\ SlosStay
<1> DEFINE new == SliRow(mode, inds, Len(slis[sli]))
<1>1. slis \in [Slis -> Seq(SliRows)]
  BY DEF RegistryInv, RegistryShape
<1>2. slis[sli] \in Seq(SliRows) /\ Len(slis[sli]) \in Nat
  BY <1>1
<1>3. new \in SliRows /\ new.mode = mode /\ new.inds = inds
  BY <1>2 DEF SliRow, SliRows
<1>4. slis' = [slis EXCEPT ![sli] = Append(slis[sli], new)]
  BY DEF SliCreated
<1>5. mode = "raw" => Names(inds) # {}
  BY DEF SliCreated, ValidSli
<1> HIDE DEF new
<1>6. slis' \in [Slis -> Seq(SliRows)]
  BY <1>1, <1>3, <1>4
<1>7. \A s \in Slis \ {sli} : slis'[s] = slis[s]
  BY <1>1, <1>4
<1>8. /\ slis'[sli] = Append(slis[sli], new) /\ DOMAIN slis'[sli] = 1..(Len(slis[sli]) + 1)
      /\ DOMAIN slis[sli] = 1..Len(slis[sli])
  BY <1>1, <1>2, <1>3, <1>4
<1>9. /\ \A v \in DOMAIN slis[sli] : v \in DOMAIN slis'[sli] /\ slis'[sli][v] = slis[sli][v]
      /\ \A v \in DOMAIN slis'[sli] : v \in DOMAIN slis[sli] \/ slis'[sli][v] = new
  BY <1>2, <1>3, <1>8
<1>10. SlisStay
  BY <1>7, <1>9 DEF SlisStay
<1>11. RawHasIndicators'
  <2> SUFFICES ASSUME NEW s \in Slis, NEW v \in DOMAIN slis'[s], slis'[s][v].mode = "raw"
               PROVE  Names(slis'[s][v].inds) # {}
    BY DEF RawHasIndicators, Names
  <2>1. CASE v \in DOMAIN slis[s] /\ slis'[s][v] = slis[s][v]
    BY <2>1 DEF RegistryInv, RawHasIndicators
  <2>2. CASE slis'[s][v] = new
    BY <2>2, <1>3, <1>5
  <2> QED
    BY <1>7, <1>9, <2>1, <2>2
<1> QED
  BY <1>6, <1>10, <1>11, SlisKeep DEF SliCreated

LEMMA SliDeactivatedKeeps ==
    ASSUME RegistryInv, NEW sli \in Slis, slis' = [slis EXCEPT ![sli] = Deactivated(@)],
           UNCHANGED <<slos, groups>>, UNCHANGED groupTxns
    PROVE  RegistryInv' /\ SlisStay /\ SlosStay
<1> DEFINE old == slis[sli]
           off == Deactivated(old)
<1>1. slis \in [Slis -> Seq(SliRows)]
  BY DEF RegistryInv, RegistryShape
<1>2. old \in Seq(SliRows) /\ Len(old) \in Nat /\ DOMAIN old = 1..Len(old)
  BY <1>1
<1>3. slis' = [slis EXCEPT ![sli] = off]
  OBVIOUS
<1> HIDE DEF old
<1>4. off = [v \in 1..Len(old) |-> [old[v] EXCEPT !.active = FALSE]]
  BY <1>2 DEF Deactivated
<1>5. ASSUME NEW v \in 1..Len(old)
      PROVE  off[v] \in SliRows /\ off[v].mode = old[v].mode /\ off[v].inds = old[v].inds
  <2>1. off[v] = [old[v] EXCEPT !.active = FALSE] /\ old[v] \in SliRows
    BY <1>2, <1>4
  <2> HIDE DEF off
  <2> QED
    BY <2>1 DEF SliRows
<1>6. off \in [1..Len(old) -> SliRows]
  BY <1>4, <1>5
<1> HIDE DEF off
<1>7. off \in Seq(SliRows) /\ DOMAIN off = 1..Len(old)
  BY <1>2, <1>6
<1>8. slis' \in [Slis -> Seq(SliRows)] /\ slis'[sli] = off /\ \A s \in Slis \ {sli} : slis'[s] = slis[s]
  BY <1>1, <1>3, <1>7
<1>9. ASSUME NEW s \in Slis
      PROVE  /\ DOMAIN slis'[s] = DOMAIN slis[s]
             /\ \A v \in DOMAIN slis[s] :
                  slis'[s][v].mode = slis[s][v].mode /\ slis'[s][v].inds = slis[s][v].inds
  BY <1>2, <1>5, <1>7, <1>8 DEF old
<1>10. SlisStay
  BY <1>9 DEF SlisStay
<1>11. RawHasIndicators'
  BY <1>9 DEF RawHasIndicators, RegistryInv, Names
<1> QED
  BY <1>8, <1>10, <1>11, SlisKeep

-----------------------------------------------------------------------------
(* SLO groups.                                                             *)

\* The active group of a name.
LEMMA GroupOfKnown ==
    ASSUME NEW name, GroupOf(name) # 0
    PROVE  GroupOf(name) \in DOMAIN groups /\ groups[GroupOf(name)].active
           /\ groups[GroupOf(name)].name = name
  BY DEF GroupOf

\* Without one, no group of the name is active.
LEMMA NoGroup ==
    ASSUME RegistryShape, NEW name, GroupOf(name) = 0, NEW g \in DOMAIN groups, groups[g].name = name
    PROVE  ~groups[g].active
<1> DEFINE live == {h \in DOMAIN groups : groups[h].name = name /\ groups[h].active}
<1>1. 0 \notin DOMAIN groups
  BY DEF RegistryShape
<1>2. live # {} => (CHOOSE h \in live : TRUE) \in live
  OBVIOUS
<1>3. live # {} => GroupOf(name) # 0
  BY <1>1, <1>2 DEF GroupOf
<1> QED
  BY <1>3

\* Where a version of the next state comes from.
LEMMA GrownFrom ==
    ASSUME RegistryInv, NEW row, SlosGrow(row), NEW n \in Slos, NEW v \in DOMAIN slos'[n]
    PROVE  \/ v \in DOMAIN slos[n] /\ SameRow(slos'[n][v], slos[n][v])
           \/ Len(slos'[n]) = Len(slos[n]) + 1 /\ SameRow(slos'[n][v], row[n])
<1>1. CASE v \in DOMAIN slos[n]
  BY <1>1, GrownStay DEF SlosStay, RegistryInv
<1>2. CASE v \notin DOMAIN slos[n]
  <2>1. v = Len(slos[n]) + 1 /\ SameRow(slos'[n][v], row[n])
    BY <1>2, GrownStay DEF RegistryInv
  <2>2. slos'[n] \in Seq(SloRows) /\ Len(slos'[n]) \in {Len(slos[n]), Len(slos[n]) + 1}
    BY DEF SlosGrow, Grown
  <2>3. v \in 1..Len(slos'[n]) /\ Len(slos[n]) \in Nat
    BY <2>2, SloTyped DEF RegistryInv
  <2> QED
    BY <2>1, <2>2, <2>3
<1> QED
  BY <1>1, <1>2

\* A request that changes groups: the references still lead somewhere.
LEMMA GroupsChangeKeeps ==
    ASSUME RegistryInv, UNCHANGED slis, NEW row, SlosGrow(row), groups' \in Seq(GroupRows),
           DOMAIN groups \subseteq DOMAIN groups',
           \A h \in DOMAIN groups' : groups'[h].tmpl.ver \in DOMAIN slos[groups'[h].tmpl.name],
           \A n \in Slos : Len(slos'[n]) = Len(slos[n]) + 1 =>
                            row[n].group = NULL \/ row[n].group \in DOMAIN groups',
           GeneratedBelong', OneActive', PlansFit'
    PROVE  RegistryInv' /\ SlisStay /\ SlosStay
<1>1. /\ slos' \in [Slos -> Seq(SloRows)] /\ SlisStay /\ SlosStay
      /\ RawHasIndicators' /\ SliVersionsKnown' /\ VersionsUnbroken' /\ ObjectivesProducible'
  BY GrownSound
<1>2. TemplatesKnown'
  <2> SUFFICES ASSUME NEW h \in DOMAIN groups'
               PROVE  groups'[h].tmpl.ver \in DOMAIN slos'[groups'[h].tmpl.name]
    BY DEF TemplatesKnown
  <2>1. groups'[h].tmpl.name \in Slos
    <3>1. groups'[h] \in GroupRows
      OBVIOUS
    <3> QED
      BY <3>1 DEF GroupRows
  <2> QED
    BY <1>1, <2>1 DEF SlosStay
<1>3. GroupsKnown'
  <2> SUFFICES ASSUME NEW n \in Slos, NEW v \in DOMAIN slos'[n], slos'[n][v].group # NULL
               PROVE  slos'[n][v].group \in DOMAIN groups'
    BY DEF GroupsKnown
  <2>1. CASE v \in DOMAIN slos[n]
    <3>1. slos'[n][v].group = slos[n][v].group
      BY <1>1, <2>1 DEF SlosStay, SameRow
    <3> QED
      BY <2>1, <3>1 DEF RegistryInv, GroupsKnown
  <2>2. CASE v \notin DOMAIN slos[n]
    <3>1. SameRow(slos'[n][v], row[n]) /\ Len(slos'[n]) = Len(slos[n]) + 1
      BY <2>2, GrownFrom DEF RegistryInv
    <3> QED
      BY <3>1 DEF SameRow
  <2> QED
    BY <2>1, <2>2
<1>4. RegistryShape'
  BY <1>1 DEF RegistryInv, RegistryShape
<1> QED
  BY <1>1, <1>2, <1>3, <1>4 DEF RegistryInv

\* A preserved comparable_from_version is one of an earlier version.
CfvFits(cfvOf) ==
    \A n \in Slos : \/ cfvOf[n] = NULL
                    \/ /\ cfvOf[n] \in Nat
                       /\ cfvOf[n] <= IF Len(slos[n]) = 0 THEN 1 ELSE Len(slos[n])

\* One more version at most of each name, of the group g and sound.
GrowsBy(made, g, names, row) ==
    \A n \in Slos :
        /\ Grown(slos[n], made[n], row[n])
        /\ row[n].group = g /\ SoundRow(row[n], Len(slos[n]))
        /\ Len(made[n]) = Len(slos[n]) + 1 => n \in names

\* What the rows of a template generate: sound new versions of the group.
LEMMA GeneratedGrow ==
    ASSUME RegistryInv, NEW tmpl, tmpl.name \in Slos, tmpl.ver \in DOMAIN slos[tmpl.name],
           NEW g \in Nat, NEW name \in GroupNames, NEW names, NEW cfvOf, CfvFits(cfvOf)
    PROVE  \E row : GrowsBy(WithGenerated(names, tmpl, g, name, cfvOf), g, names, row)
<1> DEFINE body == GeneratedBody(tmpl, g, name)
           new(n) == SloRow(body, Len(slos[n]), cfvOf[n])
           row == [n \in Slos |-> new(n)]
           made == WithGenerated(names, tmpl, g, name, cfvOf)
<1>1. TemplateRow(tmpl) \in SloRows
  BY SloTyped DEF RegistryInv, TemplateRow
<1>2. /\ body.sli = TemplateRow(tmpl).sli /\ body.ver = TemplateRow(tmpl).ver
      /\ body.objs = TemplateRow(tmpl).objs /\ body.kind = "standard" /\ body.group = g
      /\ body.tag = name
  BY DEF GeneratedBody
<1> HIDE DEF body
<1>3. /\ body.sli \in Slis \union {NULL} /\ body.ver \in Nat \union {NULL}
      /\ body.objs \in SUBSET Metrics /\ body.kind \in {"standard", "template"}
      /\ body.group \in Nat \union {NULL} /\ body.tag \in GroupNames \union {NULL}
  BY <1>1, <1>2 DEF SloRows
<1>4. body.sli # NULL =>
        body.ver \in DOMAIN slis[body.sli] /\ body.objs \subseteq IndicatorKeys(body.sli, body.ver)
  BY <1>2 DEF RegistryInv, SliVersionsKnown, ObjectivesProducible, TemplateRow
<1>5. ASSUME NEW n \in Slos
      PROVE  new(n) \in SloRows /\ new(n).group = g /\ SoundRow(new(n), Len(slos[n]))
  <2>1. Len(slos[n]) \in Nat
    BY SloTyped DEF RegistryInv
  <2>2. cfvOf[n] \in Nat \union {NULL}
    BY DEF CfvFits
  <2>3. /\ new(n) \in SloRows /\ new(n).version = Len(slos[n]) + 1
        /\ new(n).sli = body.sli /\ new(n).ver = body.ver
        /\ new(n).objs = body.objs /\ new(n).group = body.group
        /\ new(n).cfv = IF cfvOf[n] # NULL THEN cfvOf[n]
                        ELSE IF Len(slos[n]) > 0 THEN Len(slos[n]) ELSE 1
    BY <1>3, <2>1, <2>2, RowOfBody, Zenon
  <2> HIDE DEF new
  <2>4. new(n).cfv <= IF Len(slos[n]) = 0 THEN 1 ELSE Len(slos[n])
    BY <2>1, <2>3 DEF CfvFits
  <2> QED
    BY <1>2, <1>4, <2>3, <2>4 DEF SoundRow
<1>6. ASSUME NEW n \in Slos
      PROVE  /\ Grown(slos[n], made[n], new(n))
             /\ Len(made[n]) = Len(slos[n]) + 1 => n \in names
  <2>1. slos[n] \in Seq(SloRows) /\ Len(slos[n]) \in Nat /\ new(n) \in SloRows
    BY <1>5, SloTyped DEF RegistryInv
  <2>2. made[n] = IF n \notin names THEN slos[n] ELSE Append(slos[n], new(n))
    BY DEF WithGenerated, body
  <2> HIDE DEF new, made
  <2>3. Grown(slos[n], slos[n], new(n)) /\ Grown(slos[n], Append(slos[n], new(n)), new(n))
    BY <2>1, UnchangedGrown, AppendedGrown
  <2> QED
    BY <2>1, <2>2, <2>3
<1>7. \A n \in Slos : row[n] = new(n)
  OBVIOUS
<1> HIDE DEF new, row, made
<1>8. GrowsBy(made, g, names, row)
  BY <1>5, <1>6, <1>7 DEF GrowsBy
<1> QED
  BY <1>8 DEF made

\* create_slo_group.
LEMMA GroupCreatedKeeps ==
    ASSUME RegistryInv, UNCHANGED slis, NEW name \in GroupNames,
           NEW tmpl \in [name: Slos, ver: Nat], NEW rows \in SUBSET Rows,
           MayCreateGroup(name, tmpl, rows), GroupCreated(name, tmpl, rows), UNCHANGED commands,
           raced' = IF \E w \in DOMAIN commands : commands[w] # NULL /\ commands[w].was.name = name
                    THEN raced \union {Len(groups) + 1} ELSE raced
    PROVE  RegistryInv' /\ SlisStay /\ SlosStay
<1> DEFINE names == GeneratedNames(tmpl, rows)
           g == Len(groups) + 1
           cfvOf == [n \in Slos |-> NULL]
           made == [name |-> name, tmpl |-> tmpl, rows |-> rows, active |-> TRUE]
<1>1. groups \in Seq(GroupRows) /\ Len(groups) \in Nat
  BY DEF RegistryInv, RegistryShape
<1>2. /\ g \in Nat /\ tmpl.name \in Slos /\ tmpl.ver \in DOMAIN slos[tmpl.name]
      /\ raced \subseteq raced'
  BY <1>1 DEF MayCreateGroup, IsTemplate
<1>3. /\ made \in GroupRows /\ made.tmpl = tmpl /\ made.rows = rows /\ made.active
      /\ made.name = name
  BY DEF GroupRows
<1>4. groups' = Append(groups, made) /\ slos' = WithGenerated(names, tmpl, g, name, cfvOf)
  BY DEF GroupCreated
<1> HIDE DEF made, g
<1>5. /\ groups' \in Seq(GroupRows) /\ DOMAIN groups' = 1..g /\ groups'[g] = made
      /\ DOMAIN groups = 1..Len(groups)
      /\ \A h \in DOMAIN groups : h \in DOMAIN groups' /\ groups'[h] = groups[h]
  BY <1>1, <1>3, <1>4 DEF g
<1>6. CfvFits(cfvOf)
  BY DEF CfvFits
<1> HIDE DEF cfvOf, names
<1>7. PICK row : GrowsBy(slos', g, names, row)
  <2>1. \E row : GrowsBy(WithGenerated(names, tmpl, g, name, cfvOf), g, names, row)
    BY <1>2, <1>6, GeneratedGrow
  <2> QED
    BY <1>4, <2>1
<1>8. slos' = [n \in Slos |-> slos'[n]]
  BY <1>4 DEF WithGenerated
<1>9. SlosGrow(row)
  BY <1>7, <1>8 DEF SlosGrow, GrowsBy
<1>10. GeneratedBelong'
  <2> SUFFICES ASSUME NEW n \in Slos, NEW v \in DOMAIN slos'[n], slos'[n][v].active,
                      slos'[n][v].group # NULL, slos'[n][v].group \notin raced'
               PROVE  LET h == groups'[slos'[n][v].group]
                      IN  h.active /\ n \in GeneratedNames(h.tmpl, h.rows)
    BY DEF GeneratedBelong, GeneratedNames
  <2>1. CASE v \in DOMAIN slos[n] /\ SameRow(slos'[n][v], slos[n][v])
    <3>1. /\ slos[n][v].active /\ slos[n][v].group # NULL /\ slos'[n][v].group = slos[n][v].group
          /\ slos[n][v].group \notin raced
      BY <1>2, <2>1 DEF SameRow
    <3>2. slos[n][v].group \in DOMAIN groups
      BY <2>1, <3>1 DEF RegistryInv, GroupsKnown
    <3> QED
      BY <1>5, <2>1, <3>1, <3>2 DEF RegistryInv, GeneratedBelong
  <2>2. CASE Len(slos'[n]) = Len(slos[n]) + 1 /\ SameRow(slos'[n][v], row[n])
    <3>1. slos'[n][v].group = g /\ n \in names
      BY <1>7, <2>2 DEF GrowsBy, SameRow
    <3> QED
      BY <1>3, <1>5, <3>1 DEF names
  <2> QED
    BY <1>9, <2>1, <2>2, GrownFrom
<1>11. \A h \in DOMAIN groups' : groups'[h].tmpl.ver \in DOMAIN slos[groups'[h].tmpl.name]
  <2>1. \A h \in DOMAIN groups' : h \in DOMAIN groups \/ h = g
    BY <1>1, <1>5 DEF g
  <2> QED
    BY <1>2, <1>3, <1>5, <2>1 DEF RegistryInv, TemplatesKnown
<1>12. \A n \in Slos : row[n].group \in DOMAIN groups'
  BY <1>1, <1>5, <1>7 DEF GrowsBy, g
<1>13. OneActive'
  <2>1. \A h \in DOMAIN groups : groups[h].name = name => ~groups[h].active
    BY NoGroup DEF RegistryInv, MayCreateGroup
  <2>2. \A h \in DOMAIN groups' : h \in DOMAIN groups \/ h = g
    BY <1>1, <1>5 DEF g
  <2> QED
    BY <1>3, <1>5, <2>1, <2>2 DEF RegistryInv, OneActive
<1>14. ASSUME NEW who \in {"page", "other"}, commands[who] # NULL
       PROVE  PlanFits(commands[who], slis, slos', groups', raced')
  <2>1. PICK d : d = commands[who]
    OBVIOUS
  <2>2. PlanFits(d, slis, slos, groups, raced)
    BY <1>14, <2>1 DEF RegistryInv, PlansFit
  <2>3. slos' \in [Slos -> Seq(SloRows)] /\ SlisStay /\ SlosStay
    BY <1>9, GrownSound
  <2>4. Outlasts(slis, slos, slis, slos')
    BY <2>3 DEF SlosStay, Outlasts
  <2>5. \A n \in Slos : /\ Len(slos[n]) \in Nat /\ Len(slos'[n]) \in Nat
                        /\ Len(slos[n]) <= Len(slos'[n])
    BY <2>3, LensGrow DEF RegistryInv
  <2>6. \A h \in DOMAIN groups : /\ h \in DOMAIN groups' /\ groups'[h].name = groups[h].name
                                 /\ groups'[h].active => groups[h].active
    BY <1>5
  <2>7. \A h \in DOMAIN groups' : h \in DOMAIN groups \/ h \in raced' \/ groups'[h].name # d.was.name
    <3>1. name = d.was.name => g \in raced'
      <4>1. DOMAIN commands = {"page", "other"}
        BY DEF RegistryInv, PlansFit
      <4> QED
        BY <1>14, <2>1, <4>1 DEF g
    <3>2. \A h \in DOMAIN groups' : h \in DOMAIN groups \/ h = g
      BY <1>1, <1>5 DEF g
    <3> QED
      BY <1>3, <1>5, <3>1, <3>2
  <2>8. d.g \in DOMAIN groups /\ d.g # g /\ groups'[d.g] = groups[d.g]
    BY <1>1, <1>5, <2>2 DEF PlanFits, g
  <2>9. \A n \in Slos : \A v \in DOMAIN slos'[n] : v \in DOMAIN slos[n] \/ slos'[n][v].group # d.g
    BY <1>7, <1>9, <2>8, GrownFrom DEF GrowsBy, SameRow
  <2>10. PlanFits(d, slis, slos', groups', raced')
    BY <1>2, <2>2, <2>4, <2>5, <2>6, <2>7, <2>8, <2>9, PlanOutlasts
  <2> QED
    BY <2>1, <2>10
<1>15. PlansFit'
  BY <1>14 DEF RegistryInv, PlansFit
<1> QED
  BY <1>5, <1>9, <1>10, <1>11, <1>12, <1>13, <1>15, GroupsChangeKeeps

\* What a regeneration preserves is the value of an earlier version.
LEMMA PreservedFits ==
    ASSUME RegistryInv, NEW g, NEW n \in Slos, NEW cfv \in PreservedFrom(g, n)
    PROVE  cfv \in Nat /\ cfv <= IF Len(slos[n]) = 0 THEN 1 ELSE Len(slos[n])
<1>1. PICK v \in DOMAIN slos[n] : cfv = slos[n][v].cfv
  BY DEF PreservedFrom
<1>2. slos[n][v] \in SloRows /\ Len(slos[n]) \in Nat /\ DOMAIN slos[n] = 1..Len(slos[n])
  BY SloTyped DEF RegistryInv
<1>3. cfv \in Nat
  BY <1>1, <1>2 DEF SloRows
<1>4. cfv <= IF v = 1 THEN 1 ELSE v - 1
  BY <1>1 DEF RegistryInv, VersionsUnbroken, Numbered
<1> QED
  BY <1>2, <1>3, <1>4

\* A request about an active group plans by what it reads.
LEMMA PlanStarts ==
    ASSUME RegistryInv, NEW g \in DOMAIN groups, groups[g].active, NEW adds, NEW off \in SUBSET Slos,
           NEW ends \in BOOLEAN, NEW tmpl, NEW rows, DOMAIN adds \subseteq Slos,
           rows # NULL => rows \in SUBSET Rows,
           tmpl # NULL => tmpl \in [name: Slos, ver: Nat] /\ tmpl.ver \in DOMAIN slos[tmpl.name],
           \A n \in DOMAIN adds : AddFits(adds[n], g, slis, Len(slos[n])),
           g \notin raced =>
              /\ \A n \in GeneratedBy(g) : n \in off \/ Remains(Plan(g, adds, off, ends, tmpl, rows), n)
              /\ \A n \in DOMAIN adds : adds[n].body.group = g =>
                    Remains(Plan(g, adds, off, ends, tmpl, rows), n)
    PROVE  PlanFits(Plan(g, adds, off, ends, tmpl, rows), slis, slos, groups, raced)
<1> DEFINE c == Plan(g, adds, off, ends, tmpl, rows)
<1>1. /\ c.g = g /\ c.was = groups[g] /\ c.adds = adds /\ c.off = off /\ c.ends = ends
      /\ c.tmpl = tmpl /\ c.rows = rows /\ c.len = [n \in Slos |-> Len(slos[n])]
  BY DEF Plan
<1> HIDE DEF c
<1>2. \A n \in Slos : c.len[n] = Len(slos[n]) /\ c.len[n] \in Nat /\ DOMAIN slos[n] = 1..Len(slos[n])
  BY <1>1, SloTyped DEF RegistryInv
<1>3. \A h \in DOMAIN groups : groups[h].active /\ groups[h].name = c.was.name => h = c.g
  BY <1>1 DEF RegistryInv, OneActive
<1>4. g \notin raced => Owns(c, slos, groups)
  <2> SUFFICES ASSUME g \notin raced PROVE Owns(c, slos, groups)
    OBVIOUS
  <2>1. ASSUME NEW n \in Slos, NEW v \in DOMAIN slos[n], slos[n][v].active, slos[n][v].group = g
        PROVE  v <= c.len[n] /\ (n \in c.off \/ Remains(c, n))
    <3>1. n \in GeneratedBy(g)
      BY <2>1 DEF GeneratedBy
    <3> QED
      BY <1>1, <1>2, <3>1 DEF c
  <2>2. \A n \in DOMAIN adds : adds[n].body.group = g => Remains(c, n)
    BY DEF c
  <2> QED
    BY <1>1, <2>1, <2>2 DEF Owns
<1>5. PlanFits(c, slis, slos, groups, raced)
  BY <1>1, <1>2, <1>3, <1>4 DEF PlanFits
<1> QED
  BY <1>5 DEF c

\* delete_slo_group deactivates all that the group owns.
LEMMA DeletePlanFits ==
    ASSUME RegistryInv, NEW g \in DOMAIN groups, groups[g].active
    PROVE  PlanFits(DeletePlan(g), slis, slos, groups, raced)
<1>1. GeneratedBy(g) \in SUBSET Slos /\ DOMAIN << >> = {}
  BY DEF GeneratedBy
<1> QED
  BY <1>1, PlanStarts DEF DeletePlan

\* extract_slo: the copy stands alone, and the group keeps the rows of its other SLOs.
LEMMA ExtractPlanFits ==
    ASSUME RegistryInv, NEW g \in DOMAIN groups, groups[g].active, NEW name \in Slos,
           NEW copy \in Slos, MayExtract(g, name)
    PROVE  PlanFits(ExtractPlan(g, name, copy), slis, slos, groups, raced)
<1> DEFINE from == slos[name][Latest(slos[name])]
           left == {r \in groups[g].rows : GenName[groups[g].tmpl.name][r] # name}
           body == [sli |-> from.sli, ver |-> from.ver, objs |-> from.objs, kind |-> "standard",
                    group |-> NULL, tag |-> NULL]
           add == [body |-> body, cfv |-> NULL]
           adds == [n \in {copy} |-> add]
<1>1. ExtractPlan(g, name, copy) = Plan(g, adds, {name}, left = {}, NULL, left)
  BY DEF ExtractPlan
<1>2. groups[g].rows \in SUBSET Rows
  BY GroupTyped DEF RegistryInv
<1>3. left \in SUBSET Rows /\ left \subseteq groups[g].rows
  BY <1>2
<1>4. Latest(slos[name]) \in DOMAIN slos[name] /\ from \in SloRows
  <2>1. slos[name] \in Seq(SloRows)
    BY SloTyped DEF RegistryInv
  <2>2. Latest(slos[name]) \in DOMAIN slos[name]
    BY <2>1, LatestKnown DEF MayExtract
  <2> QED
    BY <2>2, SloTyped DEF RegistryInv
<1>5. from.sli # NULL =>
        from.ver \in DOMAIN slis[from.sli] /\ from.objs \subseteq IndicatorKeys(from.sli, from.ver)
  BY <1>4 DEF RegistryInv, SliVersionsKnown, ObjectivesProducible
<1> HIDE DEF from
<1>6. /\ body.sli = from.sli /\ body.ver = from.ver /\ body.objs = from.objs
      /\ body.kind = "standard" /\ body.group = NULL /\ body.tag = NULL
  OBVIOUS
<1> HIDE DEF body
<1>7. AcceptsIn(slis, body)
  BY <1>5, <1>6 DEF AcceptsIn, IndicatorKeys
<1>8. add.body = body /\ add.cfv = NULL /\ adds[copy] = add /\ DOMAIN adds = {copy}
  OBVIOUS
<1> HIDE DEF add, adds, left
<1>9. AddFits(add, g, slis, Len(slos[copy]))
  BY <1>4, <1>6, <1>7, <1>8 DEF AddFits, SloRows
<1>10. ASSUME g \notin raced, NEW n \in GeneratedBy(g), n # name
       PROVE  Remains(Plan(g, adds, {name}, left = {}, NULL, left), n)
  <2> DEFINE c == Plan(g, adds, {name}, left = {}, NULL, left)
  <2>1. /\ c.was = groups[g] /\ c.ends = (left = {}) /\ c.tmpl = NULL
        /\ c.rows = left
    BY DEF Plan
  <2> HIDE DEF c
  <2>2. PICK v \in DOMAIN slos[n] : slos[n][v].active /\ slos[n][v].group = g
    BY <1>10 DEF GeneratedBy
  <2>3. n \in Slos /\ g # NULL
    <3>1. groups \in Seq(GroupRows)
      BY DEF RegistryInv, RegistryShape
    <3>2. g \in Nat
      BY <3>1
    <3> QED
      BY <1>10, <3>2, RegistryAssumption DEF GeneratedBy
  <2>4. n \in GeneratedNames(groups[g].tmpl, groups[g].rows)
    BY <1>10, <2>2, <2>3 DEF RegistryInv, GeneratedBelong
  <2>5. PICK r \in groups[g].rows : n = GenName[groups[g].tmpl.name][r]
    BY <2>4 DEF GeneratedNames
  <2>6. r \in left
    BY <1>10, <2>5 DEF left
  <2>7. left # NULL
    BY <1>3, RegistryAssumption
  <2>8. n \in GeneratedNames(groups[g].tmpl, left)
    BY <2>5, <2>6 DEF GeneratedNames
  <2>9. Remains(c, n)
    BY <2>1, <2>6, <2>7, <2>8 DEF Remains
  <2> QED
    BY <2>9 DEF c
<1>11. \A n \in DOMAIN adds : /\ n = copy /\ n \in Slos /\ AddFits(adds[n], g, slis, Len(slos[n]))
                              /\ adds[n].body.group # g
  <2>1. g # NULL
    <3>1. groups \in Seq(GroupRows)
      BY DEF RegistryInv, RegistryShape
    <3>2. g \in Nat
      BY <3>1
    <3> QED
      BY <3>2, RegistryAssumption
  <2> QED
    BY <1>6, <1>8, <1>9, <2>1
<1>12. {name} \in SUBSET Slos /\ (left = {}) \in BOOLEAN /\ DOMAIN adds \subseteq Slos
  BY <1>11
<1>13. PlanFits(Plan(g, adds, {name}, left = {}, NULL, left), slis, slos, groups, raced)
  BY <1>3, <1>10, <1>11, <1>12, PlanStarts
<1> QED
  BY <1>1, <1>13

\* update_slo_group, the rows: a name that no row generates any more is deactivated with
\* the rest, so what stays active of the group is generated by its rows.
LEMMA RegeneratePlanFits ==
    ASSUME RegistryInv, NEW g \in DOMAIN groups, groups[g].active, NEW body,
           body.tmpl \in Slos \union {NULL}, body.rows \in (SUBSET Rows) \union {NULL},
           MayRegenerate(g, body), NEW plan \in RegeneratePlans(g, body)
    PROVE  PlanFits(plan, slis, slos, groups, raced)
<1> DEFINE tmpl == EffectiveTemplate(g, body)
           rows == IF body.rows # NULL THEN body.rows ELSE groups[g].rows
           old == GeneratedBy(g)
           new == GeneratedNames(tmpl, rows)
           both == old \cap new
           breaks == BreaksBaseline(g, body)
           name == groups[g].name
           made == GeneratedBody(tmpl, g, name)
<1>1. /\ groups \in Seq(GroupRows) /\ DOMAIN groups = 1..Len(groups) /\ Len(groups) \in Nat
      /\ groups[g] \in GroupRows /\ groups[g].tmpl.name \in Slos
      /\ groups[g].rows \in SUBSET Rows /\ groups[g].name \in GroupNames
  BY GroupTyped DEF RegistryInv
<1>2. g \in Nat /\ name \in GroupNames /\ rows \in SUBSET Rows
  BY <1>1
<1>3. /\ tmpl \in [name: Slos, ver: Nat] /\ tmpl.name \in Slos
      /\ tmpl.ver \in DOMAIN slos[tmpl.name]
  <2>1. CASE body.tmpl # NULL
    <3>1. tmpl = [name |-> body.tmpl, ver |-> body.tmplVer]
      BY <2>1 DEF EffectiveTemplate
    <3>2. body.tmplVer \in DOMAIN slos[body.tmpl] /\ body.tmpl \in Slos
      BY <2>1 DEF MayRegenerate, IsTemplate
    <3>3. body.tmplVer \in Nat
      BY <3>2, SloTyped DEF RegistryInv
    <3> QED
      BY <3>1, <3>2, <3>3
  <2>2. CASE body.tmpl = NULL
    <3>1. tmpl = groups[g].tmpl
      BY <2>2 DEF EffectiveTemplate
    <3>2. groups[g].tmpl \in [name: Slos, ver: Nat]
      BY <1>1 DEF GroupRows
    <3> QED
      BY <3>1, <3>2 DEF RegistryInv, TemplatesKnown
  <2> QED
    BY <2>1, <2>2
<1>4. PICK kept \in [both -> UNION {PreservedFrom(g, n) : n \in both}] :
        /\ \A n \in both : kept[n] \in PreservedFrom(g, n)
        /\ plan = Plan(g, [n \in new |-> [body |-> made,
                                         cfv |-> IF n \in both /\ ~breaks THEN kept[n] ELSE NULL]],
                       old \ new, FALSE, tmpl, rows)
  BY DEF RegeneratePlans
<1> DEFINE cfv(n) == IF n \in both /\ ~breaks THEN kept[n] ELSE NULL
           adds == [n \in new |-> [body |-> made, cfv |-> cfv(n)]]
<1>5. plan = Plan(g, adds, old \ new, FALSE, tmpl, rows)
  BY <1>4
<1>6. ASSUME NEW n \in new
      PROVE  cfv(n) = NULL \/ (cfv(n) \in Nat /\ cfv(n) <= IF Len(slos[n]) = 0 THEN 1 ELSE Len(slos[n]))
  <2>1. ASSUME n \in both
        PROVE  kept[n] \in Nat /\ kept[n] <= IF Len(slos[n]) = 0 THEN 1 ELSE Len(slos[n])
    <3>1. n \in Slos /\ kept[n] \in PreservedFrom(g, n)
      BY <1>4, <2>1 DEF GeneratedBy
    <3> QED
      BY <3>1, PreservedFits
  <2> HIDE DEF both, breaks
  <2> QED
    BY <2>1
<1>7. new \subseteq Slos /\ old \in SUBSET Slos
  <2>1. old \in SUBSET Slos
    BY DEF GeneratedBy
  <2>2. new \subseteq Slos
    <3> SUFFICES ASSUME NEW r \in rows PROVE GenName[tmpl.name][r] \in Slos
      BY DEF GeneratedNames
    <3> HIDE DEF rows, tmpl
    <3>1. r \in Rows
      BY <1>2
    <3> QED
      BY <1>3, <3>1, RegistryAssumption
  <2> QED
    BY <2>1, <2>2
<1>8. new = GeneratedNames(tmpl, rows) /\ old = GeneratedBy(g)
  OBVIOUS
<1>9. /\ made.sli = TemplateRow(tmpl).sli /\ made.ver = TemplateRow(tmpl).ver
      /\ made.objs = TemplateRow(tmpl).objs /\ made.kind = "standard" /\ made.group = g
      /\ made.tag = name
  BY DEF GeneratedBody
<1> HIDE DEF tmpl, rows, old, new, both, breaks, name, made, cfv
<1>10. /\ DOMAIN adds = new
       /\ \A n \in new : adds[n].body = made /\ adds[n].cfv = cfv(n)
  OBVIOUS
<1> HIDE DEF adds
<1>11. TemplateRow(tmpl) \in SloRows
  BY <1>3, SloTyped DEF RegistryInv, TemplateRow
<1>12. AcceptsIn(slis, made)
  BY <1>3, <1>9 DEF RegistryInv, SliVersionsKnown, ObjectivesProducible, TemplateRow, AcceptsIn,
     IndicatorKeys
<1>13. /\ made.sli \in Slis \union {NULL} /\ made.ver \in Nat \union {NULL}
       /\ made.objs \in SUBSET Metrics /\ made.kind \in {"standard", "template"}
       /\ made.group \in {g, NULL} /\ made.tag \in GroupNames \union {NULL}
  BY <1>2, <1>9, <1>11 DEF SloRows
<1>14. \A n \in DOMAIN adds : AddFits(adds[n], g, slis, Len(slos[n]))
  BY <1>6, <1>10, <1>12, <1>13 DEF AddFits
<1>15. ASSUME NEW n \in new PROVE Remains(Plan(g, adds, old \ new, FALSE, tmpl, rows), n)
  <2> DEFINE c == Plan(g, adds, old \ new, FALSE, tmpl, rows)
  <2>1. c.was = groups[g] /\ c.ends = FALSE /\ c.tmpl = tmpl /\ c.rows = rows
    BY DEF Plan
  <2> HIDE DEF c
  <2>2. tmpl # NULL /\ rows # NULL
    BY <1>2, <1>3, RegistryAssumption
  <2>3. Remains(c, n)
    BY <1>8, <1>15, <2>1, <2>2 DEF Remains
  <2> QED
    BY <2>3 DEF c
<1>16. old \ new \in SUBSET Slos /\ DOMAIN adds \subseteq Slos /\ FALSE \in BOOLEAN
  BY <1>7, <1>10
<1>17. \A n \in GeneratedBy(g) : n \in old \ new \/ n \in new
  BY <1>8
<1>18. PlanFits(Plan(g, adds, old \ new, FALSE, tmpl, rows), slis, slos, groups, raced)
  BY <1>2, <1>3, <1>10, <1>14, <1>15, <1>16, <1>17, PlanStarts
<1> QED
  BY <1>5, <1>18

\* What the request adds to a name.
AddedRow(c, n) ==
    IF n \in DOMAIN c.adds THEN SloRow(c.adds[n].body, Len(slos[n]), c.adds[n].cfv) ELSE [group |-> NULL]

LEMMA AddedGrow ==
    ASSUME RegistryInv, NEW c, PlanFits(c, slis, slos, groups, raced), NEW n \in Slos
    PROVE  /\ Grown(slos[n], Added(c, n), AddedRow(c, n))
           /\ Len(Added(c, n)) = Len(slos[n]) + 1 =>
                 /\ n \in DOMAIN c.adds /\ SoundRow(AddedRow(c, n), Len(slos[n]))
                 /\ AddedRow(c, n).group = c.adds[n].body.group /\ AddedRow(c, n).group \in {c.g, NULL}
<1>1. slos[n] \in Seq(SloRows) /\ Len(slos[n]) \in Nat
  BY SloTyped DEF RegistryInv
<1>2. CASE n \notin DOMAIN c.adds
  <2>1. Added(c, n) = slos[n]
    BY <1>2 DEF Added
  <2> QED
    BY <1>1, <2>1, UnchangedGrown
<1>3. CASE n \in DOMAIN c.adds
  <2> DEFINE add == c.adds[n]
             new == SloRow(add.body, Len(slos[n]), add.cfv)
  <2>1. Added(c, n) = Append(slos[n], new) /\ AddedRow(c, n) = new
    BY <1>3 DEF Added, AddedRow
  <2>2. AddFits(add, c.g, slis, Len(slos[n])) /\ c.g \in DOMAIN groups
    BY <1>3 DEF PlanFits
  <2> HIDE DEF add
  <2>3. c.g \in Nat
    <3>1. groups \in Seq(GroupRows)
      BY DEF RegistryInv, RegistryShape
    <3> QED
      BY <2>2, <3>1
  <2>4. /\ add.body.sli \in Slis \union {NULL} /\ add.body.ver \in Nat \union {NULL}
        /\ add.body.objs \in SUBSET Metrics /\ add.body.kind \in {"standard", "template"}
        /\ add.body.group \in Nat \union {NULL} /\ add.body.tag \in GroupNames \union {NULL}
        /\ add.cfv \in Nat \union {NULL}
    BY <2>2, <2>3 DEF AddFits
  <2>5. /\ new \in SloRows /\ new.version = Len(slos[n]) + 1 /\ new.sli = add.body.sli
        /\ new.ver = add.body.ver /\ new.objs = add.body.objs /\ new.group = add.body.group
        /\ new.cfv = IF add.cfv # NULL THEN add.cfv
                     ELSE IF Len(slos[n]) > 0 THEN Len(slos[n]) ELSE 1
    BY <1>1, <2>4, RowOfBody, Zenon
  <2> HIDE DEF new
  <2>6. Grown(slos[n], Append(slos[n], new), new)
    BY <1>1, <2>5, AppendedGrown
  <2>7. SoundRow(new, Len(slos[n]))
    <3>1. new.sli # NULL =>
            new.ver \in DOMAIN slis[new.sli] /\ new.objs \subseteq IndicatorKeys(new.sli, new.ver)
      BY <2>2, <2>5 DEF AddFits, AcceptsIn, IndicatorKeys
    <3>2. new.cfv <= IF Len(slos[n]) = 0 THEN 1 ELSE Len(slos[n])
      BY <1>1, <2>2, <2>5 DEF AddFits
    <3> QED
      BY <2>5, <3>1, <3>2 DEF SoundRow
  <2>8. new.group \in {c.g, NULL}
    BY <2>2, <2>5 DEF AddFits
  <2> QED
    BY <1>3, <2>1, <2>5, <2>6, <2>7, <2>8 DEF add
<1> QED
  BY <1>2, <1>3

\* deactivate: the versions that the UPDATE sees.
LEMMA SweptGrown ==
    ASSUME NEW old \in Seq(SloRows), NEW new, NEW row, Grown(old, new, row), NEW sight, NEW own
    PROVE  /\ Grown(old, Swept(new, sight, own), row) /\ Len(Swept(new, sight, own)) = Len(new)
           /\ \A v \in DOMAIN Swept(new, sight, own) :
                Swept(new, sight, own)[v].active => v > sight /\ v <= own
<1> DEFINE off == Swept(new, sight, own)
<1>1. new \in Seq(SloRows) /\ DOMAIN new = 1..Len(new) /\ Len(new) \in Nat
  BY DEF Grown
<1>2. off = [v \in 1..Len(new) |-> [new[v] EXCEPT !.active = @ /\ v > sight /\ v <= own]]
  BY <1>1 DEF Swept
<1>3. ASSUME NEW v \in 1..Len(new)
      PROVE  /\ off[v] \in SloRows /\ SameRow(off[v], new[v])
             /\ off[v].active => v > sight /\ v <= own
  <2> DEFINE on == new[v].active /\ v > sight /\ v <= own
  <2>1. off[v] = [new[v] EXCEPT !.active = on] /\ new[v] \in SloRows
    BY <1>1, <1>2
  <2>2. on \in BOOLEAN /\ (on => new[v].active /\ v > sight /\ v <= own)
    OBVIOUS
  <2> HIDE DEF on, off
  <2>3. off[v] \in SloRows /\ off[v].active = on
    BY <2>1, <2>2 DEF SloRows
  <2>4. SameRow(off[v], new[v])
    BY <2>1, <2>2, <2>3 DEF SloRows, SameRow
  <2> QED
    BY <2>2, <2>3, <2>4
<1>4. off \in [1..Len(new) -> SloRows]
  BY <1>2, <1>3
<1> HIDE DEF off
<1>5. off \in Seq(SloRows) /\ Len(off) = Len(new) /\ DOMAIN off = 1..Len(new)
  BY <1>1, <1>4
<1>6. \A a, b, c : SameRow(a, b) /\ SameRow(b, c) => SameRow(a, c)
  BY DEF SameRow
<1>7. \A v \in 1..Len(old) : v \in 1..Len(new)
  BY DEF Grown
<1>8. \A v \in 1..Len(old) : SameRow(off[v], old[v])
  BY <1>3, <1>6, <1>7 DEF Grown
<1>9. Len(new) = Len(old) + 1 => SameRow(off[Len(old) + 1], row)
  <2> SUFFICES ASSUME Len(new) = Len(old) + 1
               PROVE  SameRow(off[Len(old) + 1], row)
    OBVIOUS
  <2>1. Len(old) + 1 \in 1..Len(new)
    OBVIOUS
  <2> QED
    BY <1>3, <1>6, <2>1 DEF Grown
<1>10. Grown(old, off, row)
  BY <1>5, <1>8, <1>9 DEF Grown
<1> QED
  BY <1>3, <1>5, <1>10 DEF off

\* The end of a request: what nobody raced stays owned, and what others have planned
\* still fits.
LEMMA CarriedKeeps ==
    ASSUME RegistryInv, UNCHANGED slis, NEW who \in {"page", "other"}, commands[who] # NULL,
           Carried(commands[who]), commands' = [commands EXCEPT ![who] = NULL],
           raced' = raced \union Met(who)
    PROVE  RegistryInv' /\ SlisStay /\ SlosStay
<1>1. PICK c : c = commands[who]
  OBVIOUS
<1>2. PlanFits(c, slis, slos, groups, raced) /\ DOMAIN commands = {"page", "other"}
  BY <1>1 DEF RegistryInv, PlansFit
<1>22. Carried(c)
  BY <1>1
<1>3. PICK target \in Targets(c), sight \in [c.off -> UNION {c.len[n]..Len(slos[n]) : n \in c.off}] :
        /\ target = 0 => c.ends
        /\ \A n \in c.off : sight[n] \in c.len[n]..Len(slos[n])
        /\ slos' = [n \in Slos |-> IF n \in c.off THEN Swept(Added(c, n), sight[n], Len(slos[n]))
                                   ELSE Added(c, n)]
        /\ groups' = IF target = 0 THEN groups ELSE [groups EXCEPT ![target] = RowAfter(c, target)]
  BY <1>22 DEF Carried
<1> DEFINE row == [n \in Slos |-> AddedRow(c, n)]
<1>4. \A n \in Slos : row[n] = AddedRow(c, n)
  OBVIOUS
<1> HIDE DEF row
<1>5. \A n \in Slos : slos'[n] = IF n \in c.off THEN Swept(Added(c, n), sight[n], Len(slos[n]))
                                ELSE Added(c, n)
  BY <1>3
<1>6. ASSUME NEW n \in Slos
      PROVE  /\ Grown(slos[n], slos'[n], row[n])
             /\ n \in c.off => \A v \in DOMAIN slos'[n] : slos'[n][v].active => v > sight[n]
             /\ Len(slos'[n]) = Len(slos[n]) + 1 =>
                   /\ n \in DOMAIN c.adds /\ SoundRow(row[n], Len(slos[n]))
                   /\ row[n].group = c.adds[n].body.group /\ row[n].group \in {c.g, NULL}
  <2>1. slos[n] \in Seq(SloRows)
    BY SloTyped DEF RegistryInv
  <2>2. /\ Grown(slos[n], Added(c, n), row[n])
        /\ Len(Added(c, n)) = Len(slos[n]) + 1 =>
                   /\ n \in DOMAIN c.adds /\ SoundRow(row[n], Len(slos[n]))
                   /\ row[n].group = c.adds[n].body.group /\ row[n].group \in {c.g, NULL}
    BY <1>2, <1>4, AddedGrow
  <2>3. CASE n \in c.off
    <3>1. slos'[n] = Swept(Added(c, n), sight[n], Len(slos[n]))
      BY <1>5, <2>3
    <3>2. /\ Grown(slos[n], slos'[n], row[n]) /\ Len(slos'[n]) = Len(Added(c, n))
          /\ \A v \in DOMAIN slos'[n] : slos'[n][v].active => v > sight[n]
      BY <2>1, <2>2, <3>1, SweptGrown
    <3> QED
      BY <2>2, <3>2
  <2>4. CASE n \notin c.off
    BY <1>5, <2>2, <2>4
  <2> QED
    BY <2>3, <2>4
<1>7. SlosGrow(row)
  <2>1. slos' = [n \in Slos |-> slos'[n]]
    BY <1>3
  <2> QED
    BY <1>6, <2>1 DEF SlosGrow
<1>8. slos' \in [Slos -> Seq(SloRows)] /\ SlisStay /\ SlosStay
  BY <1>7, GrownSound
<1>9. /\ groups \in Seq(GroupRows) /\ DOMAIN groups = 1..Len(groups) /\ Len(groups) \in Nat
      /\ c.g \in DOMAIN groups /\ groups[c.g].name = c.was.name
  BY <1>2 DEF RegistryInv, RegistryShape, PlanFits
<1>10. /\ target # 0 => target \in DOMAIN groups /\ groups[target].name = c.was.name
       /\ groups[c.g].active => target = c.g
  BY <1>9 DEF Targets
<1>11. target # 0 =>
         /\ RowAfter(c, target) \in GroupRows /\ RowAfter(c, target).name = groups[target].name
         /\ RowAfter(c, target).tmpl \in {groups[target].tmpl, c.tmpl}
         /\ RowAfter(c, target).tmpl = c.tmpl => c.tmpl # NULL \/ c.tmpl = groups[target].tmpl
         /\ RowAfter(c, target).active = (groups[target].active /\ ~c.ends)
  <2> SUFFICES ASSUME target # 0
               PROVE  /\ RowAfter(c, target) \in GroupRows
                      /\ RowAfter(c, target).name = groups[target].name
                      /\ RowAfter(c, target).tmpl \in {groups[target].tmpl, c.tmpl}
                      /\ RowAfter(c, target).tmpl = c.tmpl => c.tmpl # NULL \/ c.tmpl = groups[target].tmpl
                      /\ RowAfter(c, target).active = (groups[target].active /\ ~c.ends)
    OBVIOUS
  <2> DEFINE kept(field, read) == field = NULL \/ (IF target = c.g THEN field = read ELSE c.ends)
             tmpl == IF kept(c.tmpl, c.was.tmpl) THEN groups[target].tmpl ELSE c.tmpl
             rows == IF kept(c.rows, c.was.rows) THEN groups[target].rows ELSE c.rows
             active == groups[target].active /\ ~c.ends
  <2>1. RowAfter(c, target) = [groups[target] EXCEPT !.tmpl = tmpl, !.rows = rows, !.active = active]
    BY DEF RowAfter
  <2>2. groups[target] \in GroupRows
    BY <1>9, <1>10
  <2>3. groups[target].tmpl \in [name: Slos, ver: Nat] /\ groups[target].rows \in SUBSET Rows
    BY <2>2 DEF GroupRows
  <2>4. /\ tmpl \in {groups[target].tmpl, c.tmpl} /\ tmpl \in [name: Slos, ver: Nat]
        /\ tmpl = c.tmpl => c.tmpl # NULL \/ c.tmpl = groups[target].tmpl
    BY <1>2, <2>3 DEF PlanFits
  <2>5. rows \in SUBSET Rows
    BY <1>2, <2>3 DEF PlanFits
  <2>6. active \in BOOLEAN
    OBVIOUS
  <2> HIDE DEF tmpl, rows, active
  <2>7. /\ RowAfter(c, target) \in GroupRows /\ RowAfter(c, target).name = groups[target].name
        /\ RowAfter(c, target).tmpl = tmpl /\ RowAfter(c, target).active = active
    BY <2>1, <2>2, <2>4, <2>5, <2>6 DEF GroupRows
  <2> QED
    BY <2>4, <2>7 DEF active
<1>12. /\ groups' \in Seq(GroupRows) /\ DOMAIN groups' = DOMAIN groups
       /\ \A h \in DOMAIN groups \ {target} : groups'[h] = groups[h]
       /\ target # 0 => groups'[target] = RowAfter(c, target)
  <2>1. CASE target = 0
    BY <1>3, <1>9, <2>1
  <2>2. CASE target # 0
    <3>1. groups' = [groups EXCEPT ![target] = RowAfter(c, target)]
      BY <1>3, <2>2
    <3> HIDE DEF RowAfter
    <3> QED
      BY <1>9, <1>10, <1>11, <2>2, <3>1
  <2> QED
    BY <2>1, <2>2
<1>13. \A h \in DOMAIN groups : groups'[h].name = groups[h].name /\ (groups'[h].active => groups[h].active)
  <2> SUFFICES ASSUME NEW h \in DOMAIN groups
               PROVE  groups'[h].name = groups[h].name /\ (groups'[h].active => groups[h].active)
    OBVIOUS
  <2>1. CASE h # target
    <3>1. groups'[h] = groups[h]
      BY <1>12, <2>1
    <3> QED
      BY <3>1
  <2>2. CASE h = target
    <3>1. target # 0
      BY <1>9, <2>2
    <3>2. groups'[target] = RowAfter(c, target)
      BY <1>12, <3>1
    <3>3. /\ RowAfter(c, target).name = groups[target].name
          /\ RowAfter(c, target).active = (groups[target].active /\ ~c.ends)
      BY <1>11, <3>1
    <3> QED
      BY <2>2, <3>2, <3>3
  <2> QED
    BY <2>1, <2>2
<1>14. c.g \notin raced => /\ Owns(c, slos, groups) /\ target = c.g /\ groups[c.g].active
  BY <1>2, <1>10 DEF PlanFits, Owns
<1>15. ASSUME c.g \notin raced, NEW n, Remains(c, n)
       PROVE  groups'[c.g].active /\ n \in GeneratedNames(groups'[c.g].tmpl, groups'[c.g].rows)
  <2>1. target = c.g /\ groups[c.g] = c.was /\ groups[c.g].active /\ groups[c.g] \in GroupRows
    BY <1>9, <1>14, <1>15 DEF Owns
  <2>2. c.g # 0
    BY <1>9
  <2>3. groups'[c.g] = RowAfter(c, c.g)
    BY <1>12, <2>1, <2>2
  <2> DEFINE tmpl == IF c.tmpl = NULL \/ c.tmpl = c.was.tmpl THEN groups[c.g].tmpl ELSE c.tmpl
             rows == IF c.rows = NULL \/ c.rows = c.was.rows THEN groups[c.g].rows ELSE c.rows
             active == groups[c.g].active /\ ~c.ends
  <2>4. RowAfter(c, c.g) = [groups[c.g] EXCEPT !.tmpl = tmpl, !.rows = rows, !.active = active]
    BY DEF RowAfter
  <2>5. /\ tmpl = IF c.tmpl = NULL THEN c.was.tmpl ELSE c.tmpl
        /\ rows = IF c.rows = NULL THEN c.was.rows ELSE c.rows
    BY <2>1
  <2>6. active
    BY <1>15, <2>1 DEF Remains
  <2> HIDE DEF tmpl, rows, active
  <2>7. groups'[c.g].tmpl = tmpl /\ groups'[c.g].rows = rows /\ groups'[c.g].active = active
    BY <2>1, <2>3, <2>4 DEF GroupRows
  <2> QED
    BY <1>15, <2>5, <2>6, <2>7 DEF Remains
<1>16. GeneratedBelong'
  <2> SUFFICES ASSUME NEW n \in Slos, NEW v \in DOMAIN slos'[n], slos'[n][v].active,
                      slos'[n][v].group # NULL, slos'[n][v].group \notin raced'
               PROVE  LET h == groups'[slos'[n][v].group]
                      IN  h.active /\ n \in GeneratedNames(h.tmpl, h.rows)
    BY DEF GeneratedBelong, GeneratedNames
  <2>1. CASE v \in DOMAIN slos[n] /\ SameRow(slos'[n][v], slos[n][v])
    <3>1. PICK k : k = slos[n][v].group
      OBVIOUS
    <3>2. slos[n][v].active /\ k # NULL /\ slos'[n][v].group = k /\ k \notin raced
      BY <2>1, <3>1 DEF SameRow
    <3>3. k \in DOMAIN groups /\ groups[k].active /\ n \in GeneratedNames(groups[k].tmpl, groups[k].rows)
      BY <2>1, <3>1, <3>2 DEF RegistryInv, GroupsKnown, GeneratedBelong
    <3>4. CASE k # target
      BY <1>12, <3>2, <3>3, <3>4
    <3>5. CASE k = target
      <4>1. k # 0 /\ groups[k].name = c.was.name
        BY <1>9, <1>10, <3>3, <3>5
      <4>2. k = c.g
        BY <1>2, <3>2, <3>3, <4>1 DEF PlanFits
      <4>3. v <= c.len[n] /\ (n \in c.off \/ Remains(c, n))
        BY <1>14, <2>1, <3>1, <3>2, <4>2 DEF Owns
      <4>4. n \notin c.off
        <5> SUFFICES ASSUME n \in c.off PROVE FALSE
          OBVIOUS
        <5>1. v > sight[n]
          BY <1>6
        <5>2. sight[n] \in c.len[n]..Len(slos[n])
          BY <1>3
        <5>3. c.len[n] \in Nat /\ Len(slos[n]) \in Nat /\ v \in Nat
          <6>1. DOMAIN slos[n] = 1..Len(slos[n]) /\ Len(slos[n]) \in Nat
            BY SloTyped DEF RegistryInv
          <6> QED
            BY <1>2, <2>1, <6>1 DEF PlanFits
        <5> QED
          BY <4>3, <5>1, <5>2, <5>3
      <4> QED
        BY <1>15, <3>2, <4>2, <4>3, <4>4
    <3> QED
      BY <3>4, <3>5
  <2>2. CASE Len(slos'[n]) = Len(slos[n]) + 1 /\ SameRow(slos'[n][v], row[n])
    <3>1. /\ n \in DOMAIN c.adds /\ slos'[n][v].group = c.adds[n].body.group
          /\ c.adds[n].body.group = c.g
      BY <1>6, <2>2 DEF SameRow
    <3>2. c.g \notin raced
      BY <3>1
    <3>3. Remains(c, n)
      BY <1>14, <3>1, <3>2 DEF Owns
    <3> QED
      BY <1>15, <3>1, <3>2, <3>3
  <2> QED
    BY <1>7, <2>1, <2>2, GrownFrom
<1>17. \A h \in DOMAIN groups' : groups'[h].tmpl.ver \in DOMAIN slos[groups'[h].tmpl.name]
  <2>1. \A h \in DOMAIN groups : groups[h].tmpl.ver \in DOMAIN slos[groups[h].tmpl.name]
    BY DEF RegistryInv, TemplatesKnown
  <2>2. c.tmpl # NULL => c.tmpl.ver \in DOMAIN slos[c.tmpl.name]
    BY <1>2 DEF PlanFits
  <2>3. target # 0 => groups'[target].tmpl.ver \in DOMAIN slos[groups'[target].tmpl.name]
    BY <1>10, <1>11, <1>12, <2>1, <2>2
  <2> QED
    BY <1>9, <1>12, <2>1, <2>3
<1>18. \A n \in Slos : Len(slos'[n]) = Len(slos[n]) + 1 => row[n].group = NULL \/ row[n].group \in DOMAIN groups'
  BY <1>6, <1>9, <1>12
<1>19. OneActive'
  BY <1>12, <1>13 DEF RegistryInv, OneActive
<1>20. ASSUME NEW w \in {"page", "other"}, w # who, commands[w] # NULL
       PROVE  PlanFits(commands[w], slis, slos', groups', raced')
  <2>1. PICK d : d = commands[w]
    OBVIOUS
  <2>2. PlanFits(d, slis, slos, groups, raced)
    BY <1>20, <2>1 DEF RegistryInv, PlansFit
  <2>3. Outlasts(slis, slos, slis, slos')
    BY <1>8 DEF SlosStay, Outlasts
  <2>4. \A n \in Slos : /\ Len(slos[n]) \in Nat /\ Len(slos'[n]) \in Nat
                        /\ Len(slos[n]) <= Len(slos'[n])
    BY <1>8, LensGrow DEF RegistryInv
  <2>5. raced \subseteq raced'
    OBVIOUS
  <2>6. ASSUME d.g \notin raced'
        PROVE  /\ groups'[d.g] = groups[d.g]
               /\ \A n \in Slos : \A v \in DOMAIN slos'[n] :
                    v \in DOMAIN slos[n] \/ slos'[n][v].group # d.g
    <3>1. d.was.name # c.was.name
      <4>1. d.was.name = c.was.name => d.g \in Met(who)
        BY <1>1, <1>2, <1>20, <2>1 DEF Met
      <4> QED
        BY <2>6, <4>1
    <3>2. d.g \in DOMAIN groups /\ groups[d.g].name = d.was.name
      BY <2>2 DEF PlanFits
    <3>3. d.g # c.g /\ d.g # target
      BY <1>9, <1>10, <3>1, <3>2
    <3>4. d.g # NULL
      BY <1>9, <3>2, RegistryAssumption
    <3>5. groups'[d.g] = groups[d.g]
      BY <1>12, <3>2, <3>3
    <3>6. ASSUME NEW n \in Slos, NEW v \in DOMAIN slos'[n], v \notin DOMAIN slos[n]
          PROVE  slos'[n][v].group # d.g
      <4>1. Len(slos'[n]) = Len(slos[n]) + 1 /\ SameRow(slos'[n][v], row[n])
        BY <1>7, <3>6, GrownFrom
      <4>2. row[n].group \in {c.g, NULL}
        BY <1>6, <4>1
      <4>3. slos'[n][v].group = row[n].group
        BY <4>1 DEF SameRow
      <4> QED
        BY <3>3, <3>4, <4>2, <4>3
    <3> QED
      BY <3>5, <3>6
  <2>7. PlanFits(d, slis, slos', groups', raced')
    BY <1>12, <1>13, <2>2, <2>3, <2>4, <2>5, <2>6, PlanOutlasts
  <2> QED
    BY <2>1, <2>7
<1>21. PlansFit'
  <2>1. commands = [w \in {"page", "other"} |-> commands[w]]
    BY DEF RegistryInv, PlansFit
  <2>2. /\ commands' = [w \in {"page", "other"} |-> commands'[w]] /\ commands'[who] = NULL
        /\ \A w \in {"page", "other"} \ {who} : commands'[w] = commands[w]
    BY <2>1
  <2>3. \A w \in {"page", "other"} : commands'[w] # NULL => w # who /\ commands'[w] = commands[w]
    BY <2>2
  <2> QED
    BY <1>20, <2>2, <2>3 DEF PlansFit
<1> QED
  BY <1>7, <1>8, <1>12, <1>16, <1>17, <1>18, <1>19, <1>21, GroupsChangeKeeps

-----------------------------------------------------------------------------
(* What the page remembers outlasts any change of the registries.          *)

LEMMA CacheOutlasts ==
    ASSUME NEW I, NEW O, NEW J, NEW P, Outlasts(I, O, J, P)
    PROVE  /\ \A list : ListFits(list, I) => ListFits(list, J)
           /\ \A cache : LatestOnce(cache, I, Slis) => LatestOnce(cache, J, Slis)
           /\ \A cache : LatestOnce(cache, O, Slos) => LatestOnce(cache, P, Slos)
  BY DEF Outlasts, ListFits, LatestOnce

LEMMA EditOutlasts ==
    ASSUME NEW I, NEW O, NEW J, NEW P, Outlasts(I, O, J, P), NEW edit, EditFits(edit, O)
    PROVE  /\ EditFits(edit, P)
           /\ edit # NULL => SameRow(P[edit.name][edit.ver], O[edit.name][edit.ver])
  BY DEF Outlasts, EditFits, Edits

LEMMA RowsOutlast ==
    ASSUME NEW I, NEW O, NEW J, NEW P, Outlasts(I, O, J, P), NEW sli \in Slis,
           NEW ver \in DOMAIN I[sli]
    PROVE  /\ ver \in DOMAIN J[sli] /\ J[sli][ver].mode = I[sli][ver].mode
           /\ RowsIn(J, sli, ver) = RowsIn(I, sli, ver)
           /\ KeysOf(sli, J[sli][ver]) = KeysOf(sli, I[sli][ver])
<1>1. /\ ver \in DOMAIN J[sli] /\ J[sli][ver].mode = I[sli][ver].mode
      /\ J[sli][ver].inds = I[sli][ver].inds
  BY DEF Outlasts
<1> QED
  BY <1>1 DEF RowsIn, KeysOf

LEMMA WizardOutlasts ==
    ASSUME NEW I, NEW O, NEW J, NEW P, Outlasts(I, O, J, P), NEW w, NEW edit, EditFits(edit, O),
           WizardFits(w, edit, I, O)
    PROVE  WizardFits(w, edit, J, P)
<1> SUFFICES ASSUME w # NULL PROVE WizardFits(w, edit, J, P)
  BY DEF WizardFits, Sound
<1>1. WizardShape(w) /\ RowsFit(w, I) /\ TicksKept(w, edit, I, O)
  BY DEF WizardFits, Sound
<1>2. w.sli # NULL => w.sli \in Slis
  BY <1>1 DEF WizardShape
<1>3. w.sli # NULL =>
        /\ w.ver \in DOMAIN I[w.sli] /\ w.ver \in DOMAIN J[w.sli]
        /\ J[w.sli][w.ver].mode = I[w.sli][w.ver].mode
        /\ RowsIn(J, w.sli, w.ver) = RowsIn(I, w.sli, w.ver)
  BY <1>1, <1>2, RowsOutlast DEF RowsFit
<1>4. RowsFit(w, J)
  BY <1>1, <1>3 DEF RowsFit
<1>5. edit # NULL => /\ P[edit.name][edit.ver].sli = O[edit.name][edit.ver].sli
                     /\ P[edit.name][edit.ver].ver = O[edit.name][edit.ver].ver
                     /\ P[edit.name][edit.ver].objs = O[edit.name][edit.ver].objs
  BY EditOutlasts DEF SameRow
<1>6. TicksKept(w, edit, J, P)
  BY <1>1, <1>3, <1>5 DEF TicksKept
<1> QED
  BY <1>1, <1>4, <1>6 DEF WizardFits, Sound

LEMMA TxnOutlasts ==
    ASSUME NEW I, NEW O, NEW J, NEW P, Outlasts(I, O, J, P), NEW t, TxnFits(t, I, O)
    PROVE  TxnFits(t, J, P) /\ (Submitted(t, I, O) => Submitted(t, J, P))
<1> SUFFICES ASSUME t # NULL PROVE TxnFits(t, J, P) /\ (Submitted(t, I, O) => Submitted(t, J, P))
  BY DEF TxnFits, Submitted
<1>1. t \in Txns /\ (t.base # NULL => AcceptsIn(I, t.body)) /\ EditFits(t.edit, O)
  BY DEF TxnFits
<1>2. t.body.sli # NULL => t.body.sli \in Slis
  BY <1>1 DEF Txns, Bodies
<1>3. t.body.sli # NULL /\ t.body.ver \in DOMAIN I[t.body.sli] =>
        /\ t.body.ver \in DOMAIN J[t.body.sli]
        /\ J[t.body.sli][t.body.ver].mode = I[t.body.sli][t.body.ver].mode
        /\ RowsIn(J, t.body.sli, t.body.ver) = RowsIn(I, t.body.sli, t.body.ver)
        /\ KeysOf(t.body.sli, J[t.body.sli][t.body.ver]) = KeysOf(t.body.sli, I[t.body.sli][t.body.ver])
  BY <1>2, RowsOutlast
<1>4. AcceptsIn(I, t.body) => AcceptsIn(J, t.body)
  BY <1>3 DEF AcceptsIn
<1>5. /\ EditFits(t.edit, P)
      /\ t.edit # NULL => SameRow(P[t.edit.name][t.edit.ver], O[t.edit.name][t.edit.ver])
  BY <1>1, EditOutlasts
<1>6. TxnFits(t, J, P)
  BY <1>1, <1>4, <1>5 DEF TxnFits
<1>7. t.edit # NULL => /\ P[t.edit.name][t.edit.ver].sli = O[t.edit.name][t.edit.ver].sli
                       /\ P[t.edit.name][t.edit.ver].objs = O[t.edit.name][t.edit.ver].objs
  BY <1>5 DEF SameRow
<1>8. Submitted(t, I, O) => Submitted(t, J, P)
  BY <1>3, <1>4, <1>7 DEF Submitted
<1> QED
  BY <1>6, <1>8

\* All of it, after a step of the registries.
LEMMA PageOutlasts ==
    ASSUME PageInv, SlisStay, SlosStay
    PROVE  /\ ListFits(listed, slis') /\ LatestOnce(detailed, slis', Slis)
           /\ LatestOnce(seen, slos', Slos) /\ PageFits(page, slos')
           /\ WizardFits(wizard, page.edit, slis', slos') /\ TxnsFit(txns, slis', slos')
<1>1. Outlasts(slis, slos, slis', slos')
  BY DEF SlisStay, SlosStay, Outlasts
<1>2. /\ ListFits(listed, slis') /\ LatestOnce(detailed, slis', Slis)
      /\ LatestOnce(seen, slos', Slos)
  BY <1>1, CacheOutlasts DEF PageInv
<1>3. EditFits(page.edit, slos) /\ EditFits(page.edit, slos')
  <2>1. EditFits(page.edit, slos)
    BY DEF PageInv, PageFits
  <2> QED
    BY <1>1, <2>1, EditOutlasts
<1>4. PageFits(page, slos')
  BY <1>3 DEF PageInv, PageFits
<1>5. WizardFits(wizard, page.edit, slis', slos')
  BY <1>1, <1>3, WizardOutlasts DEF PageInv
<1>6. TxnsFit(txns, slis', slos')
  <2>1. /\ txns = [who \in {"page", "other"} |-> txns[who]] /\ TxnFits(txns["page"], slis, slos)
        /\ TxnFits(txns["other"], slis, slos) /\ Submitted(txns["page"], slis, slos)
    BY DEF PageInv, TxnsFit
  <2>2. TxnFits(txns["page"], slis', slos') /\ Submitted(txns["page"], slis', slos')
    BY <1>1, <2>1, TxnOutlasts
  <2>3. TxnFits(txns["other"], slis', slos')
    BY <1>1, <2>1, TxnOutlasts
  <2> QED
    BY <2>1, <2>2, <2>3 DEF TxnsFit
<1> QED
  BY <1>2, <1>4, <1>5, <1>6

-----------------------------------------------------------------------------
(* The wizard over registries that stay.                                   *)

LEMMA SliTyped ==
    ASSUME RegistryShape, NEW s \in Slis, NEW v \in DOMAIN slis[s]
    PROVE  slis[s][v] \in SliRows /\ v \in Nat
<1>1. slis[s] \in Seq(SliRows)
  BY DEF RegistryShape
<1> QED
  BY <1>1

\* The rows of an SLI are metrics, and what a raw SLI produces.
LEMMA RowsAreMetrics ==
    ASSUME RegistryShape, NEW s \in Slis, NEW v \in DOMAIN slis[s]
    PROVE  /\ RowsIn(slis, s, v) \subseteq Metrics
           /\ slis[s][v].mode = "raw" => KeysOf(s, slis[s][v]) = RowsIn(slis, s, v)
<1>1. slis[s][v].inds \in Inds
  BY SliTyped DEF SliRows
<1>2. Names(slis[s][v].inds) \subseteq Indicators
  BY <1>1 DEF Inds, Names
<1>3. \A i \in Indicators : <<i, "">> \in Metrics
  BY DEF Metrics
<1>4. RowsIn(slis, s, v) \subseteq Metrics
  BY <1>2, <1>3 DEF RowsIn
<1>5. slis[s][v].mode = "raw" => KeysOf(s, slis[s][v]) = RowsIn(slis, s, v)
  BY DEF RowsIn, KeysOf
<1> QED
  BY <1>4, <1>5

\* The ticks after a merge.
LEMMA MergedTicks ==
    ASSUME NEW rows, rows \in [DOMAIN rows -> BOOLEAN], NEW inds
    PROVE  /\ DOMAIN MergedRows(rows, inds) = inds
           /\ MergedRows(rows, inds) \in [inds -> BOOLEAN]
           /\ {i \in inds : MergedRows(rows, inds)[i]} = {i \in DOMAIN rows : rows[i]} \cap inds
<1>1. /\ DOMAIN MergedRows(rows, inds) = inds /\ MergedRows(rows, inds) \in [inds -> BOOLEAN]
  BY DEF MergedRows
<1>2. \A i \in inds : MergedRows(rows, inds)[i] <=> i \in DOMAIN rows /\ rows[i]
  BY DEF MergedRows
<1> QED
  BY <1>1, <1>2

\* WizardStepPickSli's choice: the SLI that is given was without one before.
LEMMA AutoSelectedFits ==
    ASSUME RegistryInv, NEW w, NEW edit, NEW list, ListFits(list, slis), Sound(w, edit, slis, slos)
    PROVE  Sound(AutoSelected(w, edit, list), edit, slis, slos)
<1> DEFINE fits == {s \in Slis : list[s] # 0 /\ RowsOf(s, list[s]) \cap EditedRow(edit).objs # {}}
           sli == CHOOSE s \in fits : TRUE
           inds == RowsOf(sli, list[sli])
           new == [w EXCEPT !.auto = TRUE, !.sli = sli, !.ver = list[sli], !.inds = inds,
                            !.rows = MergedRows(@, inds)]
<1>1. CASE AutoSelected(w, edit, list) = w
  BY <1>1
<1>2. CASE AutoSelected(w, edit, list) # w
  <2>1. /\ edit # NULL /\ w.sli = NULL /\ list # NULL /\ fits # {}
        /\ AutoSelected(w, edit, list) = new
    BY <1>2 DEF AutoSelected
  <2>2. sli \in fits
    BY <2>1
  <2>3. sli \in Slis /\ list[sli] # 0
    BY <2>2
  <2> HIDE DEF fits, sli
  <2>4. list[sli] \in DOMAIN slis[sli] /\ list[sli] \in Nat
    BY <2>1, <2>3 DEF ListFits, LatestOnce
  <2>5. inds = RowsIn(slis, sli, list[sli]) /\ inds \subseteq Metrics
    <3>1. inds = RowsIn(slis, sli, list[sli])
      BY DEF RowsOf, RowsIn
    <3> QED
      BY <2>3, <2>4, <3>1, RowsAreMetrics DEF RegistryInv
  <2> HIDE DEF inds
  <2>6. WizardShape(w) /\ TicksKept(w, edit, slis, slos)
    BY DEF Sound
  <2> DEFINE rows == MergedRows(w.rows, inds)
  <2>7. DOMAIN rows = inds /\ rows \in [inds -> BOOLEAN]
    BY <2>6, MergedTicks DEF WizardShape
  <2> HIDE DEF rows
  <2>8. new = [w EXCEPT !.auto = TRUE, !.sli = sli, !.ver = list[sli], !.inds = inds, !.rows = rows]
    BY DEF rows
  <2> HIDE DEF new
  <2>9. /\ WizardShape(new) /\ new.sli = sli /\ new.ver = list[sli] /\ new.rows = rows
        /\ new.touched = w.touched
    BY <2>3, <2>4, <2>5, <2>6, <2>7, <2>8 DEF WizardShape
  <2>10. RowsFit(new, slis)
    BY <2>4, <2>5, <2>7, <2>9 DEF RowsFit
  <2>11. TicksKept(new, edit, slis, slos)
    BY <2>1, <2>6, <2>9 DEF TicksKept
  <2> QED
    BY <2>1, <2>9, <2>10, <2>11 DEF Sound
<1> QED
  BY <1>1, <1>2

\* The merge effect keeps the ticks that the SLI's version still has.
LEMMA MergedFits ==
    ASSUME RegistryInv, NEW w, NEW edit, NEW details, LatestOnce(details, slis, Slis),
           Sound(w, edit, slis, slos)
    PROVE  Sound(Merged(w, edit, details), edit, slis, slos)
<1> DEFINE ver == details[w.sli]
           inds == RowsOf(w.sli, details[w.sli])
           new == [w EXCEPT !.merged = TRUE, !.ver = ver, !.inds = inds,
                            !.rows = MergedRows(@, inds)]
<1>1. CASE edit = NULL \/ w.merged \/ w.sli = NULL \/ details[w.sli] = 0
  BY <1>1 DEF Merged
<1>2. CASE ~(edit = NULL \/ w.merged \/ w.sli = NULL \/ details[w.sli] = 0)
  <2>1. Merged(w, edit, details) = new
    BY <1>2 DEF Merged
  <2>2. WizardShape(w) /\ TicksKept(w, edit, slis, slos) /\ RowsFit(w, slis)
    BY DEF Sound
  <2>3. w.sli \in Slis
    BY <1>2, <2>2 DEF WizardShape
  <2>4. ver \in DOMAIN slis[w.sli] /\ ver \in Nat
    BY <1>2, <2>3 DEF LatestOnce
  <2>5. inds = RowsIn(slis, w.sli, ver) /\ inds \subseteq Metrics
    <3>1. inds = RowsIn(slis, w.sli, ver)
      BY DEF RowsOf, RowsIn
    <3> QED
      BY <2>3, <2>4, <3>1, RowsAreMetrics DEF RegistryInv
  <2> HIDE DEF inds, ver
  <2> DEFINE rows == MergedRows(w.rows, inds)
  <2>6. /\ DOMAIN rows = inds /\ rows \in [inds -> BOOLEAN]
        /\ {i \in inds : rows[i]} = {i \in DOMAIN w.rows : w.rows[i]} \cap inds
    BY <2>2, MergedTicks DEF WizardShape
  <2> HIDE DEF rows
  <2>7. new = [w EXCEPT !.merged = TRUE, !.ver = ver, !.inds = inds, !.rows = rows]
    BY DEF rows
  <2> HIDE DEF new
  <2>8. /\ WizardShape(new) /\ new.sli = w.sli /\ new.ver = ver /\ new.rows = rows
        /\ new.touched = w.touched /\ new.merged
    BY <2>2, <2>4, <2>5, <2>6, <2>7 DEF WizardShape
  <2>9. RowsFit(new, slis)
    BY <2>3, <2>4, <2>5, <2>6, <2>8 DEF RowsFit
  <2>10. Checked(new) = Checked(w) \cap inds
    BY <2>6, <2>8 DEF Checked
  <2>11. TicksKept(new, edit, slis, slos)
    BY <1>2, <2>2, <2>5, <2>8, <2>10 DEF TicksKept
  <2> QED
    BY <2>1, <2>8, <2>9, <2>11 DEF Sound
<1> QED
  BY <1>1, <1>2

\* The effects after a render.
LEMMA SettleFits ==
    ASSUME RegistryInv, NEW w, NEW edit, NEW list, NEW details, ListFits(list, slis),
           LatestOnce(details, slis, Slis), WizardFits(w, edit, slis, slos)
    PROVE  WizardFits(Settle(w, edit, list, details), edit, slis, slos)
<1>1. CASE w = NULL
  BY <1>1 DEF Settle, WizardFits
<1>2. CASE w # NULL
  <2>1. Settle(w, edit, list, details) = Merged(AutoSelected(w, edit, list), edit, details)
    BY <1>2 DEF Settle
  <2>2. Sound(AutoSelected(w, edit, list), edit, slis, slos)
    BY <1>2, AutoSelectedFits DEF WizardFits
  <2>3. Sound(Merged(AutoSelected(w, edit, list), edit, details), edit, slis, slos)
    BY <2>2, MergedFits
  <2> QED
    BY <2>1, <2>3 DEF WizardFits
<1> QED
  BY <1>1, <1>2

\* A wizard that mounts: empty, or filled from the version that is edited.
LEMMA MountedFits ==
    ASSUME RegistryInv, NEW edit, EditFits(edit, slos)
    PROVE  WizardFits(MountedWizard(edit), edit, slis, slos)
<1> DEFINE row == slos[edit.name][edit.ver]
           rows == [i \in row.objs |-> TRUE]
           empty == [name |-> NULL, sli |-> NULL, ver |-> NULL, inds |-> {}, rows |-> << >>,
                     tag |-> NULL, merged |-> FALSE, auto |-> FALSE, warned |-> FALSE,
                     touched |-> FALSE, sent |-> FALSE]
           filled == [name |-> edit.name, sli |-> row.sli, ver |-> row.ver, inds |-> row.objs,
                      rows |-> rows, tag |-> row.tag, merged |-> FALSE, auto |-> FALSE,
                      warned |-> FALSE, touched |-> FALSE, sent |-> FALSE]
<1>1. CASE edit = NULL
  <2>1. MountedWizard(edit) = empty
    BY <1>1 DEF MountedWizard
  <2>2. empty.sli = NULL /\ empty.rows = << >> /\ empty.inds = {}
    OBVIOUS
  <2>3. DOMAIN << >> = {} /\ << >> \in [{} -> BOOLEAN]
    OBVIOUS
  <2>4. WizardShape(empty)
    BY <2>2, <2>3 DEF WizardShape
  <2> HIDE DEF empty
  <2>5. RowsFit(empty, slis) /\ TicksKept(empty, edit, slis, slos)
    BY <1>1, <2>2 DEF RowsFit, TicksKept
  <2> QED
    BY <2>1, <2>4, <2>5 DEF WizardFits, Sound
<1>2. CASE edit # NULL
  <2>1. MountedWizard(edit) = filled
    BY <1>2 DEF MountedWizard, EditedRow
  <2>2. edit.name \in Slos /\ edit.ver \in DOMAIN slos[edit.name]
    BY <1>2 DEF EditFits, Edits
  <2>3. row \in SloRows
    BY <2>2, SloTyped DEF RegistryInv
  <2>4. row.sli # NULL =>
          row.ver \in DOMAIN slis[row.sli] /\ row.objs \subseteq KeysOf(row.sli, slis[row.sli][row.ver])
    BY <2>2 DEF RegistryInv, SliVersionsKnown, ObjectivesProducible, IndicatorKeys
  <2>5. /\ row.sli \in Slis \union {NULL} /\ row.ver \in Nat \union {NULL}
        /\ row.objs \in SUBSET Metrics /\ row.tag \in GroupNames \union {NULL}
    BY <2>3 DEF SloRows
  <2>6. row = slos[edit.name][edit.ver]
    OBVIOUS
  <2> HIDE DEF row
  <2>7. DOMAIN rows = row.objs /\ rows \in [row.objs -> BOOLEAN] /\ \A i \in row.objs : rows[i]
    OBVIOUS
  <2> HIDE DEF rows
  <2>8. /\ filled.sli = row.sli /\ filled.ver = row.ver /\ filled.rows = rows
        /\ filled.merged = FALSE /\ WizardShape(filled)
    BY <2>2, <2>5, <2>7 DEF WizardShape
  <2> HIDE DEF filled
  <2>9. row.sli # NULL => row.sli \in Slis
    BY <2>5
  <2>10. row.sli # NULL =>
           (slis[row.sli][row.ver].mode = "raw" => row.objs \subseteq RowsIn(slis, row.sli, row.ver))
    BY <2>4, <2>9, RowsAreMetrics DEF RegistryInv
  <2>11. RowsFit(filled, slis)
    BY <2>4, <2>7, <2>8, <2>10 DEF RowsFit
  <2>12. Checked(filled) = row.objs
    BY <2>7, <2>8 DEF Checked
  <2>13. TicksKept(filled, edit, slis, slos)
    BY <2>6, <2>8, <2>12 DEF TicksKept
  <2> QED
    BY <2>1, <2>8, <2>11, <2>13 DEF WizardFits, Sound
<1> QED
  BY <1>1, <1>2

\* handlePickSliChange: a raw SLI has indicators, so its rows replace the old ones.
LEMMA PickedFits ==
    ASSUME RegistryInv, NEW w, NEW edit, NEW sli \in Slis, ListFits(listed, slis), listed # NULL,
           listed[sli] # 0, Sound(w, edit, slis, slos)
    PROVE  Sound(Picked(w, sli), edit, slis, slos)
<1> DEFINE ver == listed[sli]
           inds == RowsOf(sli, ver)
           rows == IF inds = {} THEN w.rows ELSE MergedRows(w.rows, inds)
           new == [w EXCEPT !.sli = sli, !.ver = ver, !.inds = inds, !.touched = TRUE, !.rows = rows]
<1>1. Picked(w, sli) = new
  BY DEF Picked
<1>2. ver \in DOMAIN slis[sli] /\ ver \in Nat
  BY DEF ListFits, LatestOnce
<1>3. inds = RowsIn(slis, sli, ver) /\ inds \subseteq Metrics
  <2>1. inds = RowsIn(slis, sli, ver)
    BY DEF RowsOf, RowsIn
  <2> QED
    BY <1>2, <2>1, RowsAreMetrics DEF RegistryInv
<1> HIDE DEF ver
<1>4. slis[sli][ver].mode = "raw" => inds # {}
  <2> SUFFICES ASSUME slis[sli][ver].mode = "raw" PROVE inds # {}
    OBVIOUS
  <2>1. Names(slis[sli][ver].inds) # {}
    BY <1>2 DEF RegistryInv, RawHasIndicators
  <2> QED
    BY <1>3, <2>1 DEF RowsIn
<1> HIDE DEF inds
<1>5. WizardShape(w)
  BY DEF Sound
<1>6. /\ DOMAIN rows \subseteq Metrics /\ rows \in [DOMAIN rows -> BOOLEAN]
      /\ inds # {} => DOMAIN rows = inds
  <2>1. DOMAIN w.rows \subseteq Metrics /\ w.rows \in [DOMAIN w.rows -> BOOLEAN]
    BY <1>5 DEF WizardShape
  <2>2. /\ DOMAIN MergedRows(w.rows, inds) = inds
        /\ MergedRows(w.rows, inds) \in [inds -> BOOLEAN]
    BY <2>1, MergedTicks
  <2> QED
    BY <1>3, <2>1, <2>2
<1> HIDE DEF rows
<1>7. WizardShape(new) /\ new.sli = sli /\ new.ver = ver /\ new.rows = rows /\ new.touched
  BY <1>2, <1>5, <1>6 DEF WizardShape
<1> HIDE DEF new
<1>8. RowsFit(new, slis)
  BY <1>2, <1>3, <1>4, <1>6, <1>7 DEF RowsFit
<1>9. TicksKept(new, edit, slis, slos)
  BY <1>7 DEF TicksKept
<1> QED
  BY <1>1, <1>7, <1>8, <1>9 DEF Sound

\* The other fields of the wizard: the name, a tick, the warning.
LEMMA FieldsFit ==
    ASSUME NEW w, NEW edit, Sound(w, edit, slis, slos)
    PROVE  /\ \A name \in Slos : edit = NULL => Sound([w EXCEPT !.name = name], edit, slis, slos)
           /\ \A i \in DOMAIN w.rows :
                Sound([w EXCEPT !.rows[i] = ~@, !.touched = TRUE], edit, slis, slos)
           /\ \A b, c \in BOOLEAN : Sound([w EXCEPT !.warned = b, !.sent = c], edit, slis, slos)
           /\ \A b \in BOOLEAN : Sound([w EXCEPT !.warned = b], edit, slis, slos)
<1>1. WizardShape(w) /\ RowsFit(w, slis) /\ TicksKept(w, edit, slis, slos)
  BY DEF Sound
<1>2. ASSUME NEW name \in Slos, edit = NULL PROVE Sound([w EXCEPT !.name = name], edit, slis, slos)
  <2> DEFINE new == [w EXCEPT !.name = name]
  <2>1. /\ WizardShape(new) /\ new.sli = w.sli /\ new.ver = w.ver /\ new.rows = w.rows
    BY <1>1 DEF WizardShape
  <2> HIDE DEF new
  <2>2. RowsFit(new, slis) /\ TicksKept(new, edit, slis, slos)
    BY <1>1, <1>2, <2>1 DEF RowsFit, TicksKept
  <2> QED
    BY <2>1, <2>2 DEF Sound, new
<1>3. ASSUME NEW i \in DOMAIN w.rows
      PROVE  Sound([w EXCEPT !.rows[i] = ~@, !.touched = TRUE], edit, slis, slos)
  <2> DEFINE rows == [w.rows EXCEPT ![i] = ~@]
             new == [w EXCEPT !.rows = rows, !.touched = TRUE]
  <2>1. new = [w EXCEPT !.rows[i] = ~@, !.touched = TRUE]
    BY <1>1 DEF WizardShape
  <2>2. DOMAIN rows = DOMAIN w.rows /\ rows \in [DOMAIN w.rows -> BOOLEAN]
    BY <1>1 DEF WizardShape
  <2> HIDE DEF rows
  <2>3. /\ WizardShape(new) /\ new.sli = w.sli /\ new.ver = w.ver /\ new.rows = rows /\ new.touched
    BY <1>1, <2>2 DEF WizardShape
  <2> HIDE DEF new
  <2>4. RowsFit(new, slis) /\ TicksKept(new, edit, slis, slos)
    BY <1>1, <2>2, <2>3 DEF RowsFit, TicksKept
  <2> QED
    BY <2>1, <2>3, <2>4 DEF Sound
<1>4. ASSUME NEW b \in BOOLEAN, NEW c \in BOOLEAN
      PROVE  Sound([w EXCEPT !.warned = b, !.sent = c], edit, slis, slos)
  <2> DEFINE new == [w EXCEPT !.warned = b, !.sent = c]
  <2>1. /\ WizardShape(new) /\ new.sli = w.sli /\ new.ver = w.ver /\ new.rows = w.rows
        /\ new.touched = w.touched /\ new.merged = w.merged
    BY <1>1 DEF WizardShape
  <2> HIDE DEF new
  <2>2. Checked(new) = Checked(w)
    BY <2>1 DEF Checked
  <2>3. RowsFit(new, slis) /\ TicksKept(new, edit, slis, slos)
    BY <1>1, <2>1, <2>2 DEF RowsFit, TicksKept
  <2> QED
    BY <2>1, <2>3 DEF Sound, new
<1>5. ASSUME NEW b \in BOOLEAN PROVE Sound([w EXCEPT !.warned = b], edit, slis, slos)
  <2>1. [w EXCEPT !.warned = b] = [w EXCEPT !.warned = b, !.sent = w.sent] /\ w.sent \in BOOLEAN
    BY <1>1 DEF WizardShape
  <2> QED
    BY <1>4, <2>1
<1> QED
  BY <1>2, <1>3, <1>4, <1>5

\* doSubmit: the body of an untouched edit and of any raw SLI fits what it names.
LEMMA SubmitFits ==
    ASSUME RegistryInv, PageFits(page, slos), Sound(wizard, page.edit, slis, slos),
           IsValid(wizard), NEW t,
           t = [body |-> WizardBody, base |-> NULL,
                edit |-> IF wizard.touched THEN NULL ELSE page.edit]
    PROVE  TxnFits(t, slis, slos) /\ Submitted(t, slis, slos)
<1> DEFINE w == wizard
           body == WizardBody
           edited == slos[page.edit.name][page.edit.ver]
<1>1. WizardShape(w) /\ RowsFit(w, slis) /\ TicksKept(w, page.edit, slis, slos)
  BY DEF Sound
<1>2. /\ body.name = w.name /\ body.sli = w.sli /\ body.ver = w.ver /\ body.objs = Checked(w)
      /\ body = [name |-> w.name, sli |-> w.sli, ver |-> w.ver, objs |-> Checked(w),
                 kind |-> WizardKind, group |-> NULL, tag |-> w.tag]
  BY DEF WizardBody
<1>3. EditFits(page.edit, slos) /\ page.kind \in {"standard", "template"}
  BY DEF PageFits
<1>4. page.edit # NULL => /\ page.edit \in Edits /\ edited \in SloRows
                          /\ page.edit.name \in Slos /\ page.edit.ver \in DOMAIN slos[page.edit.name]
  <2> SUFFICES ASSUME page.edit # NULL
               PROVE  /\ page.edit \in Edits /\ edited \in SloRows
                      /\ page.edit.name \in Slos /\ page.edit.ver \in DOMAIN slos[page.edit.name]
    OBVIOUS
  <2>1. /\ page.edit \in Edits /\ page.edit.name \in Slos
        /\ page.edit.ver \in DOMAIN slos[page.edit.name]
    BY <1>3 DEF EditFits, Edits
  <2> QED
    BY <2>1, SloTyped DEF RegistryInv
<1>5. WizardKind \in {"standard", "template"}
  BY <1>3, <1>4 DEF WizardKind, EditedRow, SloRows
<1>6. Checked(w) \in SUBSET Metrics /\ Checked(w) \subseteq DOMAIN w.rows
  BY <1>1 DEF Checked, WizardShape
<1>7. w.name \in Slos /\ w.sli \in Slis \union {NULL} /\ w.ver \in Nat \union {NULL}
      /\ w.tag \in GroupNames \union {NULL}
  BY <1>1 DEF WizardShape, IsValid
<1>8. body \in Bodies
  BY <1>2, <1>5, <1>6, <1>7 DEF Bodies
<1>9. /\ t.body = body /\ t.base = NULL
      /\ t.edit = IF wizard.touched THEN NULL ELSE page.edit
  OBVIOUS
<1>10. TxnFits(t, slis, slos)
  <2>1. t.edit \in {NULL} \union Edits /\ EditFits(t.edit, slos)
    BY <1>3, <1>4, <1>9 DEF EditFits
  <2>2. t \in Txns
    <3> HIDE DEF body
    <3>1. t = [body |-> body, base |-> NULL, edit |-> t.edit]
      BY DEF body
    <3> QED
      BY <1>8, <2>1, <3>1 DEF Txns
  <2> QED
    BY <1>9, <2>1, <2>2 DEF TxnFits
<1>11. Submitted(t, slis, slos)
  <2> SUFFICES ASSUME w.sli # NULL
               PROVE  /\ w.ver \in DOMAIN slis[w.sli]
                      /\ slis[w.sli][w.ver].mode = "raw" =>
                           /\ AcceptsIn(slis, body)
                           /\ t.edit # NULL /\ slos[t.edit.name][t.edit.ver].sli # NULL =>
                                Checked(w) = slos[t.edit.name][t.edit.ver].objs
                                               \cap RowsIn(slis, w.sli, w.ver)
    BY <1>2, <1>9 DEF Submitted
  <2>1. w.sli \in Slis /\ w.ver \in DOMAIN slis[w.sli]
    BY <1>1, <1>7 DEF RowsFit
  <2> SUFFICES ASSUME slis[w.sli][w.ver].mode = "raw"
               PROVE  /\ AcceptsIn(slis, body)
                      /\ t.edit # NULL /\ slos[t.edit.name][t.edit.ver].sli # NULL =>
                           Checked(w) = slos[t.edit.name][t.edit.ver].objs
                                          \cap RowsIn(slis, w.sli, w.ver)
    BY <2>1
  <2>2. Checked(w) \subseteq RowsIn(slis, w.sli, w.ver)
    BY <1>1, <1>6 DEF RowsFit
  <2>3. KeysOf(w.sli, slis[w.sli][w.ver]) = RowsIn(slis, w.sli, w.ver)
    BY <2>1, RowsAreMetrics DEF RegistryInv
  <2>4. AcceptsIn(slis, body)
    BY <1>2, <2>1, <2>2, <2>3 DEF AcceptsIn
  <2>5. ASSUME t.edit # NULL, slos[t.edit.name][t.edit.ver].sli # NULL
        PROVE  Checked(w) = slos[t.edit.name][t.edit.ver].objs \cap RowsIn(slis, w.sli, w.ver)
    <3>1. ~w.touched /\ t.edit = page.edit
      BY <1>9, <2>5
    <3>2. CASE w.merged
      BY <1>1, <2>5, <3>1, <3>2 DEF TicksKept
    <3>3. CASE ~w.merged
      <4>1. Checked(w) = edited.objs
        BY <1>1, <2>5, <3>1, <3>3 DEF TicksKept
      <4> QED
        BY <2>2, <3>1, <4>1
    <3> QED
      BY <3>2, <3>3
  <2> QED
    BY <2>4, <2>5
<1> QED
  BY <1>10, <1>11

-----------------------------------------------------------------------------
(* The steps.                                                              *)

LEMMA RegistryKept ==
    ASSUME RegistryInv, UNCHANGED <<slis, slos, groups>>, UNCHANGED groupTxns
    PROVE  RegistryInv' /\ SlisStay /\ SlosStay
<1>1. SlisStay
  BY DEF SlisStay
<1>2. slis' \in [Slis -> Seq(SliRows)] /\ RawHasIndicators'
  BY DEF RegistryInv, RegistryShape, RawHasIndicators
<1> QED
  BY <1>1, <1>2, SlisKeep

\* A step that leaves caches and requests alone, and what the wizard edits unless it closes.
LEMMA PageKeeps ==
    ASSUME PageInv, SlisStay, SlosStay, UNCHANGED <<listed, detailed, seen, txns>>,
           PageFits(page, slos') => PageFits(page', slos'),
           (page'.edit = page.edit /\ UNCHANGED wizard) \/ wizard' = NULL
    PROVE  PageInv'
<1>1. /\ ListFits(listed, slis') /\ LatestOnce(detailed, slis', Slis)
      /\ LatestOnce(seen, slos', Slos) /\ PageFits(page, slos')
      /\ WizardFits(wizard, page.edit, slis', slos') /\ TxnsFit(txns, slis', slos')
  BY PageOutlasts
<1>2. WizardFits(wizard', page'.edit, slis', slos')
  <2>1. CASE wizard' = NULL
    BY <2>1 DEF WizardFits
  <2>2. CASE page'.edit = page.edit /\ wizard' = wizard
    BY <1>1, <2>2
  <2> QED
    BY <2>1, <2>2
<1> QED
  BY <1>1, <1>2 DEF PageInv

\* One field of the page.
LEMMA PageFields ==
    ASSUME NEW p, NEW O, PageFits(p, O)
    PROVE  /\ \A x : /\ PageFits([p EXCEPT !.view = x], O) /\ [p EXCEPT !.view = x].edit = p.edit
                     /\ PageFits([p EXCEPT !.link = x], O) /\ [p EXCEPT !.link = x].edit = p.edit
           /\ \A x \in {NULL} \union [rows: SUBSET Rows, tmplVer: Nat \union {NULL}] :
                PageFits([p EXCEPT !.regen = x], O) /\ [p EXCEPT !.regen = x].edit = p.edit
           /\ \A x \in [open: BOOLEAN, form: SliFields, base: SliFields] :
                PageFits([p EXCEPT !.sli = x], O) /\ [p EXCEPT !.sli = x].edit = p.edit
           /\ \A kind \in {"standard", "template"} :
                /\ PageFits([p EXCEPT !.kind = kind, !.edit = NULL], O)
                /\ [p EXCEPT !.kind = kind, !.edit = NULL].edit = NULL
<1>1. ASSUME NEW x
      PROVE  /\ PageFits([p EXCEPT !.view = x], O) /\ [p EXCEPT !.view = x].edit = p.edit
             /\ PageFits([p EXCEPT !.link = x], O) /\ [p EXCEPT !.link = x].edit = p.edit
  <2> DEFINE a == [p EXCEPT !.view = x]
             b == [p EXCEPT !.link = x]
  <2>1. /\ a.edit = p.edit /\ a.view = x /\ a.link = p.link
        /\ b.edit = p.edit /\ b.view = p.view /\ b.link = x
    BY DEF PageFits
  <2> QED
    BY <2>1 DEF PageFits
<1>2. ASSUME NEW x \in {NULL} \union [rows: SUBSET Rows, tmplVer: Nat \union {NULL}]
      PROVE  PageFits([p EXCEPT !.regen = x], O) /\ [p EXCEPT !.regen = x].edit = p.edit
  <2> DEFINE a == [p EXCEPT !.regen = x]
  <2>1. a.edit = p.edit /\ a.view = p.view /\ a.link = p.link
    BY DEF PageFits
  <2> QED
    BY <2>1 DEF PageFits
<1>3. ASSUME NEW x \in [open: BOOLEAN, form: SliFields, base: SliFields]
      PROVE  PageFits([p EXCEPT !.sli = x], O) /\ [p EXCEPT !.sli = x].edit = p.edit
  <2> DEFINE a == [p EXCEPT !.sli = x]
  <2>1. a.edit = p.edit /\ a.view = p.view /\ a.link = p.link
    BY DEF PageFits
  <2> QED
    BY <2>1 DEF PageFits
<1>4. ASSUME NEW kind \in {"standard", "template"}
      PROVE  /\ PageFits([p EXCEPT !.kind = kind, !.edit = NULL], O)
             /\ [p EXCEPT !.kind = kind, !.edit = NULL].edit = NULL
  <2> DEFINE a == [p EXCEPT !.kind = kind, !.edit = NULL]
  <2>1. a.edit = NULL /\ a.view = p.view /\ a.link = p.link
    BY DEF PageFits
  <2> QED
    BY <2>1 DEF PageFits, EditFits
<1> QED
  BY <1>1, <1>2, <1>3, <1>4

LEMMA EditField ==
    ASSUME NEW p, NEW O, PageFits(p, O), NEW edit, EditFits(edit, O)
    PROVE  PageFits([p EXCEPT !.edit = edit], O) /\ [p EXCEPT !.edit = edit].edit = edit
<1> DEFINE a == [p EXCEPT !.edit = edit]
<1>1. a.edit = edit /\ a.view = p.view /\ a.link = p.link
  BY DEF PageFits
<1> QED
  BY <1>1 DEF PageFits

LEMMA SceneTyped ==
    ASSUME scene \in Scenes
    PROVE  /\ scene.contents \subseteq [mode: {"raw", "aggregated"}, inds: Inds]
           /\ scene.names \subseteq Slos /\ scene.others \subseteq Slos
           /\ scene.posts \subseteq Bodies /\ SoundStart(scene)
  BY RegistryAssumption

\* Answers that arrive are latest versions of their time.
LEMMA FetchesKeep ==
    ASSUME RegistryPageInv, Fetches, UNCHANGED groupTxns
    PROVE  RegistryPageInv'
<1>1. UNCHANGED <<slis, slos, groups, page, txns, scene>>
  BY DEF Fetches, FetchList, FetchDetail, FetchSlo, Act, registryVars
<1>2. RegistryInv' /\ SlisStay /\ SlosStay
  BY <1>1, RegistryKept DEF RegistryPageInv
<1> SUFFICES PageInv'
  BY <1>1, <1>2 DEF RegistryPageInv
<1>3. ASSUME NEW s \in Slis
      PROVE  /\ Latest(slis[s]) \in Nat
             /\ Latest(slis[s]) # 0 => Latest(slis[s]) \in DOMAIN slis[s]
  <2>1. slis[s] \in Seq(SliRows)
    BY DEF RegistryPageInv, RegistryInv, RegistryShape
  <2>2. Latest(slis[s]) # 0 => Latest(slis[s]) \in DOMAIN slis[s]
    BY <2>1, LatestKnown
  <2> QED
    BY <2>1, <2>2
<1>4. ASSUME NEW n \in Slos
      PROVE  /\ Latest(slos[n]) \in Nat
             /\ Latest(slos[n]) # 0 => Latest(slos[n]) \in DOMAIN slos[n]
  <2>1. slos[n] \in Seq(SloRows)
    BY SloTyped DEF RegistryPageInv, RegistryInv
  <2>2. Latest(slos[n]) # 0 => Latest(slos[n]) \in DOMAIN slos[n]
    BY <2>1, LatestKnown
  <2> QED
    BY <2>1, <2>2
<1>5. ASSUME NEW list, NEW details, ListFits(list, slis), LatestOnce(details, slis, Slis),
             Answers(list, details), UNCHANGED seen
      PROVE  PageInv'
  <2>1. WizardFits(wizard, page.edit, slis, slos)
    BY DEF RegistryPageInv, PageInv
  <2>2. WizardFits(wizard', page.edit, slis, slos)
    BY <1>5, <2>1, SettleFits DEF Answers, RegistryPageInv
  <2> QED
    BY <1>1, <1>5, <2>2 DEF RegistryPageInv, PageInv, Answers
<1>6. CASE FetchList
  <2> DEFINE list == [s \in Slis |-> Latest(slis[s])]
  <2>1. ListFits(list, slis)
    BY <1>3 DEF ListFits, LatestOnce
  <2>2. Answers(list, detailed) /\ UNCHANGED seen
    BY <1>6 DEF FetchList
  <2>3. LatestOnce(detailed, slis, Slis)
    BY DEF RegistryPageInv, PageInv
  <2> HIDE DEF list
  <2> QED
    BY <1>5, <2>1, <2>2, <2>3
<1>7. CASE FetchDetail
  <2> DEFINE details == [detailed EXCEPT ![wizard.sli] = Latest(slis[wizard.sli])]
  <2>1. Answers(listed, details) /\ UNCHANGED seen /\ wizard # NULL /\ wizard.sli # NULL
    BY <1>7 DEF FetchDetail
  <2>2. wizard.sli \in Slis
    BY <2>1 DEF RegistryPageInv, PageInv, WizardFits, Sound, WizardShape
  <2>3. LatestOnce(detailed, slis, Slis) /\ ListFits(listed, slis)
    BY DEF RegistryPageInv, PageInv
  <2>4. LatestOnce(details, slis, Slis)
    BY <1>3, <2>2, <2>3 DEF LatestOnce
  <2> HIDE DEF details
  <2> QED
    BY <1>5, <2>1, <2>3, <2>4
<1>8. CASE \E n \in scene.names : FetchSlo(n)
  <2>1. PICK n \in scene.names : FetchSlo(n)
    BY <1>8
  <2>2. n \in Slos
    BY <2>1, SceneTyped DEF RegistryPageInv
  <2>3. UNCHANGED <<listed, detailed, wizard>> /\ seen' = [seen EXCEPT ![n] = Latest(slos[n])]
    BY <2>1 DEF FetchSlo
  <2>4. LatestOnce(seen, slos, Slos)
    BY DEF RegistryPageInv, PageInv
  <2>5. LatestOnce(seen', slos, Slos)
    BY <1>4, <2>2, <2>3, <2>4 DEF LatestOnce
  <2> QED
    BY <1>1, <2>3, <2>5 DEF RegistryPageInv, PageInv
<1> QED
  BY <1>6, <1>7, <1>8 DEF Fetches

\* The wizard, from its mounting to the request it sends.
LEMMA WizardKeeps ==
    ASSUME RegistryPageInv, Wizard, UNCHANGED groupTxns
    PROVE  RegistryPageInv'
<1>1. UNCHANGED <<slis, slos, groups, listed, detailed, seen, scene>>
  BY DEF Wizard, CreateSlo, NewSloVersion, CloseWizard, EnterName, PickSli, ToggleRow, EditWizard,
     Submit, Act, registryVars
<1>2. RegistryInv' /\ SlisStay /\ SlosStay
  BY <1>1, RegistryKept DEF RegistryPageInv
<1>3. /\ PageFits(page, slos) /\ WizardFits(wizard, page.edit, slis, slos)
      /\ ListFits(listed, slis) /\ LatestOnce(detailed, slis, Slis) /\ LatestOnce(seen, slos, Slos)
      /\ TxnsFit(txns, slis, slos) /\ RegistryInv
  BY DEF RegistryPageInv, PageInv
<1> SUFFICES ASSUME TRUE
             PROVE  /\ PageFits(page', slos) /\ WizardFits(wizard', page'.edit, slis, slos)
                    /\ TxnsFit(txns', slis, slos)
  BY <1>1, <1>2, <1>3 DEF RegistryPageInv, PageInv
<1>4. ASSUME NEW w, Sound(w, page.edit, slis, slos), EditWizard(w)
      PROVE  /\ PageFits(page', slos) /\ WizardFits(wizard', page'.edit, slis, slos)
             /\ TxnsFit(txns', slis, slos)
  <2>1. UNCHANGED <<page, txns>> /\ wizard' = Settle(w, page.edit, listed, detailed)
    BY <1>4 DEF EditWizard
  <2>2. WizardFits(w, page.edit, slis, slos)
    BY <1>4 DEF WizardFits
  <2>3. WizardFits(wizard', page.edit, slis, slos)
    BY <1>3, <2>1, <2>2, SettleFits
  <2> QED
    BY <1>3, <2>1, <2>3
<1>5. ASSUME NEW k \in {"standard", "template"}, CreateSlo(k)
      PROVE  /\ PageFits(page', slos) /\ WizardFits(wizard', page'.edit, slis, slos)
             /\ TxnsFit(txns', slis, slos)
  <2>1. /\ page' = [page EXCEPT !.kind = k, !.edit = NULL] /\ UNCHANGED txns
        /\ wizard' = IF wizard # NULL THEN wizard ELSE MountedWizard(NULL)
    BY <1>5 DEF CreateSlo
  <2>2. PageFits(page', slos) /\ page'.edit = NULL
    BY <1>3, <2>1, PageFields
  <2>3. WizardFits(MountedWizard(NULL), NULL, slis, slos)
    BY <1>3, MountedFits DEF EditFits
  <2>4. WizardFits(wizard, NULL, slis, slos)
    BY <1>3 DEF WizardFits, Sound, TicksKept
  <2> QED
    BY <1>3, <2>1, <2>2, <2>3, <2>4
<1>6. ASSUME NEW n \in scene.names, NewSloVersion(n)
      PROVE  /\ PageFits(page', slos) /\ WizardFits(wizard', page'.edit, slis, slos)
             /\ TxnsFit(txns', slis, slos)
  <2> DEFINE edit == [name |-> n, ver |-> seen[n]]
  <2>1. /\ seen[n] # 0 /\ page' = [page EXCEPT !.edit = edit] /\ UNCHANGED txns
        /\ wizard' = Settle(MountedWizard(edit), edit, listed, detailed)
    BY <1>6 DEF NewSloVersion
  <2>2. n \in Slos
    BY SceneTyped DEF RegistryPageInv
  <2>3. EditFits(edit, slos)
    BY <1>3, <2>1, <2>2 DEF EditFits, Edits, LatestOnce
  <2> HIDE DEF edit
  <2>4. PageFits(page', slos) /\ page'.edit = edit
    <3>1. PageFits([page EXCEPT !.edit = edit], slos) /\ [page EXCEPT !.edit = edit].edit = edit
      BY <1>3, <2>3, EditField
    <3> QED
      BY <2>1, <3>1
  <2>5. WizardFits(MountedWizard(edit), edit, slis, slos)
    BY <1>3, <2>3, MountedFits
  <2>6. WizardFits(wizard', edit, slis, slos)
    BY <1>3, <2>1, <2>5, SettleFits
  <2> QED
    BY <1>3, <2>1, <2>4, <2>6
<1>7. ASSUME NEW n \in scene.names, wizard # NULL, EnterName(n)
      PROVE  /\ PageFits(page', slos) /\ WizardFits(wizard', page'.edit, slis, slos)
             /\ TxnsFit(txns', slis, slos)
  <2>1. n \in Slos
    BY SceneTyped DEF RegistryPageInv
  <2>2. Sound([wizard EXCEPT !.name = n], page.edit, slis, slos)
    BY <1>3, <1>7, <2>1, FieldsFit DEF WizardFits, EnterName
  <2> QED
    BY <1>4, <1>7, <2>2 DEF EnterName
<1>8. CASE CloseWizard
  <2>1. page' = [page EXCEPT !.edit = NULL] /\ wizard' = NULL /\ UNCHANGED txns
    BY <1>8 DEF CloseWizard
  <2>2. PageFits(page', slos)
    BY <1>3, <2>1, EditField DEF EditFits
  <2> QED
    BY <1>3, <2>1, <2>2 DEF WizardFits
<1>9. CASE Submit
  <2>1. wizard # NULL /\ IsValid(wizard) /\ UNCHANGED page
    BY <1>9 DEF Submit
  <2>2. Sound(wizard, page.edit, slis, slos)
    BY <1>3, <2>1 DEF WizardFits
  <2>3. CASE wizard' = [wizard EXCEPT !.warned = TRUE] /\ UNCHANGED txns
    <3>1. Sound(wizard', page.edit, slis, slos)
      BY <2>2, <2>3, FieldsFit
    <3> QED
      BY <1>3, <2>1, <2>3, <3>1 DEF WizardFits
  <2>4. CASE /\ txns' = [txns EXCEPT !["page"] = [body |-> WizardBody, base |-> NULL,
                                               edit |-> IF wizard.touched THEN NULL ELSE page.edit]]
             /\ wizard' = [wizard EXCEPT !.warned = FALSE, !.sent = TRUE]
    <3> DEFINE t == [body |-> WizardBody, base |-> NULL,
                     edit |-> IF wizard.touched THEN NULL ELSE page.edit]
    <3>1. Sound(wizard', page.edit, slis, slos)
      BY <2>2, <2>4, FieldsFit
    <3>2. TxnFits(t, slis, slos) /\ Submitted(t, slis, slos)
      BY <1>3, <2>1, <2>2, SubmitFits
    <3>3. txns' = [txns EXCEPT !["page"] = t]
      BY <2>4
    <3> HIDE DEF t
    <3>4. txns' = [who \in {"page", "other"} |-> txns'[who]] /\ txns'["page"] = t
          /\ txns'["other"] = txns["other"]
      BY <1>3, <3>3 DEF TxnsFit
    <3>5. TxnsFit(txns', slis, slos)
      BY <1>3, <3>2, <3>4 DEF TxnsFit
    <3> QED
      BY <1>3, <2>1, <3>1, <3>5 DEF WizardFits
  <2> QED
    BY <1>9, <2>3, <2>4 DEF Submit
<1>10. ASSUME wizard # NULL, NEW s \in Slis, PickSli(s)
       PROVE  /\ PageFits(page', slos) /\ WizardFits(wizard', page'.edit, slis, slos)
              /\ TxnsFit(txns', slis, slos)
  <2>1. listed # NULL /\ listed[s] # 0 /\ EditWizard(Picked(wizard, s))
    BY <1>10 DEF PickSli
  <2>2. Sound(wizard, page.edit, slis, slos)
    BY <1>3, <1>10 DEF WizardFits
  <2>3. Sound(Picked(wizard, s), page.edit, slis, slos)
    BY <1>3, <2>1, <2>2, PickedFits
  <2> QED
    BY <1>4, <2>1, <2>3
<1>11. ASSUME wizard # NULL, NEW i \in DOMAIN wizard.rows, ToggleRow(i)
       PROVE  /\ PageFits(page', slos) /\ WizardFits(wizard', page'.edit, slis, slos)
              /\ TxnsFit(txns', slis, slos)
  <2>1. EditWizard([wizard EXCEPT !.rows[i] = ~@, !.touched = TRUE])
    BY <1>11 DEF ToggleRow
  <2>2. Sound(wizard, page.edit, slis, slos)
    BY <1>3, <1>11 DEF WizardFits
  <2>3. Sound([wizard EXCEPT !.rows[i] = ~@, !.touched = TRUE], page.edit, slis, slos)
    BY <2>2, FieldsFit
  <2> QED
    BY <1>4, <2>1, <2>3
<1> QED
  BY <1>5, <1>6, <1>7, <1>8, <1>9, <1>10, <1>11 DEF Wizard

\* What a step that changes the page at most keeps.
LEMMA PageStep ==
    ASSUME RegistryPageInv, UNCHANGED groupTxns,
           UNCHANGED <<slis, slos, groups, listed, detailed, seen, wizard, txns, scene>>,
           PageFits(page', slos), page'.edit = page.edit
    PROVE  RegistryPageInv'
<1>1. RegistryInv' /\ SlisStay /\ SlosStay
  BY RegistryKept DEF RegistryPageInv
<1>2. PageInv'
  BY <1>1, PageKeeps DEF RegistryPageInv
<1> QED
  BY <1>1, <1>2 DEF RegistryPageInv

\* What a step of the registries keeps that leaves the page alone.
LEMMA RegistryStep ==
    ASSUME RegistryPageInv, RegistryInv', SlisStay, SlosStay,
           UNCHANGED <<listed, detailed, seen, page, wizard, txns, scene>>
    PROVE  RegistryPageInv'
<1>1. PageInv'
  BY PageKeeps DEF RegistryPageInv
<1> QED
  BY <1>1 DEF RegistryPageInv

\* The SLI form.
LEMMA FormsKeep ==
    ASSUME RegistryPageInv, Forms, UNCHANGED groupTxns
    PROVE  RegistryPageInv'
<1>1. /\ UNCHANGED <<listed, detailed, seen, wizard, txns, scene, slos, groups>>
      /\ RegistryInv /\ PageInv /\ PageFits(page, slos)
  BY DEF Forms, NewSli, CloseSliForm, SubmitSli, NewSliVersion, EditSli, SliForm, SliCreated, Act,
     registryVars, RegistryPageInv, PageInv
<1>2. page.sli \in [open: BOOLEAN, form: SliFields, base: SliFields]
  BY <1>1 DEF PageFits
<1>3. ASSUME NEW open \in BOOLEAN, NEW form \in SliFields, NEW base \in SliFields,
             SliForm(open, form, base)
      PROVE  PageFits(page', slos) /\ page'.edit = page.edit
  <2> DEFINE x == [open |-> open, form |-> form, base |-> base]
  <2>1. x \in [open: BOOLEAN, form: SliFields, base: SliFields] /\ page' = [page EXCEPT !.sli = x]
    BY <1>3 DEF SliForm
  <2> HIDE DEF x
  <2>2. PageFits([page EXCEPT !.sli = x], slos) /\ [page EXCEPT !.sli = x].edit = page.edit
    BY <1>1, <2>1, PageFields
  <2> QED
    BY <2>1, <2>2
<1>4. ASSUME NEW open \in BOOLEAN, NEW form \in SliFields, NEW base \in SliFields,
             SliForm(open, form, base), UNCHANGED registryVars
      PROVE  RegistryPageInv'
  BY <1>1, <1>3, <1>4, PageStep DEF registryVars
<1>5. CASE NewSli
  BY <1>2, <1>4, <1>5 DEF NewSli
<1>6. CASE CloseSliForm
  BY <1>2, <1>4, <1>6 DEF CloseSliForm
<1>7. ASSUME NEW s \in Slis, NewSliVersion(s) PROVE RegistryPageInv'
  <2> DEFINE def == slis[s][Latest(slis[s])]
  <2>1. Latest(slis[s]) # 0 /\ SliForm(TRUE, FormOf(s), FormOf(s)) /\ UNCHANGED registryVars
    BY <1>7 DEF NewSliVersion
  <2>2. slis[s] \in Seq(SliRows)
    BY <1>1 DEF RegistryInv, RegistryShape
  <2>3. def \in SliRows
    BY <2>1, <2>2, LatestKnown
  <2>4. FormOf(s) = [name |-> s, mode |-> def.mode, inds |-> def.inds,
                     template |-> def.mode = "aggregated" /\ Names(def.inds) = {}]
    BY DEF FormOf
  <2> HIDE DEF def
  <2>5. FormOf(s) \in SliFields
    BY <2>3, <2>4 DEF SliRows, SliFields
  <2> QED
    BY <1>4, <2>1, <2>5
<1>8. ASSUME NEW s \in Slis, NEW c \in scene.contents, NEW template \in BOOLEAN,
             EditSli([name |-> s, mode |-> c.mode, inds |-> c.inds, template |-> template])
      PROVE  RegistryPageInv'
  <2> DEFINE form == [name |-> s, mode |-> c.mode, inds |-> c.inds, template |-> template]
  <2>1. c \in [mode: {"raw", "aggregated"}, inds: Inds]
    BY SceneTyped DEF RegistryPageInv
  <2>2. form \in SliFields
    BY <2>1 DEF SliFields
  <2>3. SliForm(TRUE, form, page.sli.base) /\ UNCHANGED registryVars
    BY <1>8 DEF EditSli
  <2> HIDE DEF form
  <2> QED
    BY <1>2, <1>4, <2>2, <2>3
<1>9. CASE SubmitSli
  <2> DEFINE f == page.sli.form
             base == page.sli.base
             reset == [f EXCEPT !.name = base.name, !.inds = base.inds]
             inds == IF f.mode = "raw" THEN f.inds ELSE << >>
             template == f.mode = "aggregated" /\ f.template
  <2>1. f \in SliFields /\ base \in SliFields
    BY <1>2
  <2>2. f.name # NULL /\ SliForm(FALSE, reset, base) /\ SliCreated(f.name, f.mode, inds, template)
    BY <1>9 DEF SubmitSli
  <2>3. << >> \in Inds
    <3>1. << >> \in [{} -> Queries] /\ {} \in SUBSET Indicators
      OBVIOUS
    <3> QED
      BY <3>1 DEF Inds
  <2> HIDE DEF f, base
  <2>4. reset \in SliFields /\ f.name \in Slis /\ f.mode \in {"raw", "aggregated"} /\ f.inds \in Inds
    BY <2>1, <2>2 DEF SliFields
  <2>5. inds \in Inds
    BY <2>3, <2>4
  <2> HIDE DEF reset, inds, template
  <2>6. RegistryInv' /\ SlisStay /\ SlosStay
    BY <1>1, <2>2, <2>4, <2>5, SliCreatedKeeps
  <2>7. PageFits(page', slos) /\ page'.edit = page.edit
    BY <1>3, <2>1, <2>2, <2>4
  <2>8. PageInv'
    BY <1>1, <2>6, <2>7, PageKeeps
  <2> QED
    BY <1>1, <2>6, <2>8 DEF RegistryPageInv
<1> QED
  BY <1>5, <1>6, <1>7, <1>8, <1>9 DEF Forms

\* Assignments change neither definitions nor what the page holds of them.
LEMMA LinksKeep ==
    ASSUME RegistryPageInv, Links, UNCHANGED groupTxns
    PROVE  RegistryPageInv'
<1>1. UNCHANGED <<slis, slos, groups, listed, detailed, seen, wizard, txns, scene>>
  BY DEF Links, OpenLink, Link, AssignAsset, AllotGroup, Unlink, Act, registryVars
<1>2. (\E x : page' = [page EXCEPT !.link = x]) \/ UNCHANGED page
  BY DEF Links, OpenLink, Link, AssignAsset, AllotGroup, Unlink
<1>3. PageFits(page, slos)
  BY DEF RegistryPageInv, PageInv
<1>4. PageFits(page', slos) /\ page'.edit = page.edit
  <2>1. CASE UNCHANGED page
    BY <1>3, <2>1
  <2>2. CASE \E x : page' = [page EXCEPT !.link = x]
    <3>1. PICK x : page' = [page EXCEPT !.link = x]
      BY <2>2
    <3>2. PageFits([page EXCEPT !.link = x], slos) /\ [page EXCEPT !.link = x].edit = page.edit
      BY <1>3, PageFields
    <3> QED
      BY <3>1, <3>2
  <2> QED
    BY <1>2, <2>1, <2>2
<1> QED
  BY <1>1, <1>4, PageStep

\* The view of a group and its form.
LEMMA GroupViewsKeep ==
    ASSUME RegistryPageInv, GroupViews, UNCHANGED groupTxns
    PROVE  RegistryPageInv'
<1>1. /\ UNCHANGED <<slis, slos, groups, listed, detailed, seen, txns, scene>>
      /\ RegistryInv /\ PageInv /\ PageFits(page, slos)
  BY DEF GroupViews, Select, OpenRegenerate, EditRegenerate, Act, registryVars, RegistryPageInv,
     PageInv
<1>2. ASSUME NEW x \in {NULL} \union [rows: SUBSET Rows, tmplVer: Nat \union {NULL}],
             page' = [page EXCEPT !.regen = x], UNCHANGED wizard
      PROVE  RegistryPageInv'
  <2>1. PageFits([page EXCEPT !.regen = x], slos) /\ [page EXCEPT !.regen = x].edit = page.edit
    BY <1>1, PageFields
  <2>2. PageFits(page', slos) /\ page'.edit = page.edit
    BY <1>2, <2>1
  <2> QED
    BY <1>1, <1>2, <2>2, PageStep
<1>3. ASSUME NEW n \in GroupNames, Select(n) PROVE RegistryPageInv'
  <2>1. page' = [page EXCEPT !.view = n] /\ wizard' = NULL
    BY <1>3 DEF Select
  <2>2. RegistryInv' /\ SlisStay /\ SlosStay
    BY <1>1, RegistryKept
  <2>3. PageFits(page', slos)
    BY <1>1, <2>1, PageFields
  <2>4. PageInv'
    BY <1>1, <2>1, <2>2, <2>3, PageKeeps
  <2> QED
    BY <1>1, <2>2, <2>4 DEF RegistryPageInv
<1>4. CASE OpenRegenerate
  <2> DEFINE x == [rows |-> groups[ShownGroup].rows, tmplVer |-> NULL]
  <2>1. ShownGroup # 0 /\ page' = [page EXCEPT !.regen = x] /\ UNCHANGED wizard
    BY <1>4 DEF OpenRegenerate
  <2>2. ShownGroup \in DOMAIN groups
    BY <2>1, GroupOfKnown DEF ShownGroup
  <2>3. groups[ShownGroup].rows \in SUBSET Rows
    BY <1>1, <2>2, GroupTyped DEF RegistryInv
  <2>4. x \in {NULL} \union [rows: SUBSET Rows, tmplVer: Nat \union {NULL}]
    BY <2>3
  <2> HIDE DEF x
  <2> QED
    BY <1>2, <2>1, <2>4
<1>5. ASSUME NEW rows \in (SUBSET Rows) \ {{}}, NEW v \in {1, 2},
             EditRegenerate([rows |-> rows, tmplVer |-> v])
      PROVE  RegistryPageInv'
  <2> DEFINE x == [rows |-> rows, tmplVer |-> v]
  <2>1. page' = [page EXCEPT !.regen = x] /\ UNCHANGED wizard
    BY <1>5 DEF EditRegenerate
  <2>2. x \in {NULL} \union [rows: SUBSET Rows, tmplVer: Nat \union {NULL}]
    OBVIOUS
  <2> HIDE DEF x
  <2> QED
    BY <1>2, <2>1, <2>2
<1>6. CASE EditRegenerate(NULL)
  BY <1>2, <1>6 DEF EditRegenerate
<1> QED
  BY <1>3, <1>4, <1>5, <1>6 DEF GroupViews

\* What the requests under way have planned, when one begins or ends and the
\* registries stay.
LEMMA CommandMoves ==
    ASSUME RegistryPageInv, NEW who \in {"page", "other"}, NEW plan,
           plan # NULL => PlanFits(plan, slis, slos, groups, raced),
           commands' = [commands EXCEPT ![who] = plan],
           UNCHANGED <<slis, slos, groups, raced, listed, detailed, seen, page, wizard, txns, scene>>
    PROVE  RegistryPageInv'
<1>1. /\ commands = [w \in {"page", "other"} |-> commands[w]]
      /\ \A w \in {"page", "other"} :
           commands[w] # NULL => PlanFits(commands[w], slis, slos, groups, raced)
  BY DEF RegistryPageInv, RegistryInv, PlansFit
<1>2. /\ commands' = [w \in {"page", "other"} |-> IF w = who THEN plan ELSE commands[w]]
  BY <1>1
<1>3. \A w \in {"page", "other"} :
        commands'[w] # NULL => PlanFits(commands'[w], slis', slos', groups', raced')
  <2> SUFFICES ASSUME NEW w \in {"page", "other"}, commands'[w] # NULL
               PROVE  PlanFits(commands'[w], slis, slos, groups, raced)
    OBVIOUS
  <2>1. commands'[w] = IF w = who THEN plan ELSE commands[w]
    BY <1>2
  <2>2. CASE w = who
    <3>1. commands'[w] = plan
      BY <2>1, <2>2
    <3> QED
      BY <3>1
  <2>3. CASE w # who
    <3>1. commands'[w] = commands[w]
      BY <2>1, <2>3
    <3> QED
      BY <1>1, <3>1
  <2> QED
    BY <2>2, <2>3
<1>4. commands' = [w \in {"page", "other"} |-> commands'[w]]
  BY <1>2
<1>5. PlansFit'
  BY <1>3, <1>4 DEF PlansFit
<1>6. /\ SlisStay /\ SlosStay /\ RegistryShape' /\ RawHasIndicators' /\ TemplatesKnown'
      /\ SliVersionsKnown' /\ GroupsKnown' /\ OneActive'
  BY DEF RegistryPageInv, RegistryInv, SlisStay, SlosStay, SameRow, RegistryShape,
     RawHasIndicators, TemplatesKnown, SliVersionsKnown, GroupsKnown, OneActive
<1>7. VersionsUnbroken' /\ ObjectivesProducible' /\ GeneratedBelong'
  BY DEF RegistryPageInv, RegistryInv, VersionsUnbroken, ObjectivesProducible, IndicatorKeys,
     GeneratedBelong, GeneratedNames
<1>8. RegistryInv'
  BY <1>5, <1>6, <1>7 DEF RegistryInv
<1> QED
  BY <1>6, <1>8, RegistryStep

\* A request about a group begins with what it reads.
LEMMA BeginKeeps ==
    ASSUME RegistryPageInv, NEW who \in {"page", "other"}, NEW plans, Begin(who, plans),
           \A plan \in plans : PlanFits(plan, slis, slos, groups, raced)
    PROVE  RegistryPageInv'
<1>1. PICK plan \in plans : commands' = [commands EXCEPT ![who] = plan]
  BY DEF Begin
<1>2. UNCHANGED <<slis, slos, groups, raced, listed, detailed, seen, page, wizard, txns, scene>>
  BY DEF Begin, Act, registryVars
<1> QED
  BY <1>1, <1>2, CommandMoves

\* The requests about groups.
LEMMA CommandsKeep ==
    ASSUME RegistryPageInv, Commands
    PROVE  RegistryPageInv'
<1>1. RegistryInv /\ PageInv /\ PageFits(page, slos) /\ DOMAIN commands = {"page", "other"}
  BY DEF RegistryPageInv, PageInv, RegistryInv, PlansFit
<1>2. ShownGroup # 0 => ShownGroup \in DOMAIN groups /\ groups[ShownGroup].active
  BY GroupOfKnown DEF ShownGroup
<1>3. CASE Regenerate
  <2> DEFINE g == ShownGroup
             body == RegenerateBody
  <2>1. /\ g # 0 /\ page.regen # NULL /\ MayRegenerate(g, body)
        /\ Begin("page", RegeneratePlans(g, body))
    BY <1>3 DEF Regenerate
  <2>2. body.tmpl \in Slos \union {NULL} /\ body.rows \in (SUBSET Rows) \union {NULL}
    <3>1. page.regen.rows \in SUBSET Rows
      BY <1>1, <2>1 DEF PageFits
    <3> QED
      BY <3>1 DEF RegenerateBody
  <2>3. g \in DOMAIN groups /\ groups[g].active
    BY <1>2, <2>1
  <2> HIDE DEF body, g
  <2>4. \A plan \in RegeneratePlans(g, body) : PlanFits(plan, slis, slos, groups, raced)
    BY <1>1, <2>1, <2>2, <2>3, RegeneratePlanFits
  <2> QED
    BY <2>1, <2>4, BeginKeeps
<1>4. CASE DeleteGroup
  <2>1. ShownGroup # 0 /\ Begin("page", {DeletePlan(ShownGroup)})
    BY <1>4 DEF DeleteGroup
  <2>2. PlanFits(DeletePlan(ShownGroup), slis, slos, groups, raced)
    BY <1>1, <1>2, <2>1, DeletePlanFits
  <2> QED
    BY <2>1, <2>2, BeginKeeps
<1>5. ASSUME NEW n \in GroupNames, DropGroup(n) PROVE RegistryPageInv'
  <2>1. GroupOf(n) # 0 /\ Begin("other", {DeletePlan(GroupOf(n))})
    BY <1>5 DEF DropGroup
  <2>2. PlanFits(DeletePlan(GroupOf(n)), slis, slos, groups, raced)
    BY <1>1, <2>1, GroupOfKnown, DeletePlanFits
  <2> QED
    BY <2>1, <2>2, BeginKeeps
<1>6. ASSUME NEW n \in GroupNames, Retarget(n) PROVE RegistryPageInv'
  <2> DEFINE g == GroupOf(n)
             tmpl == groups[g].tmpl.name
             body == [rows |-> NULL, tmpl |-> tmpl, tmplVer |-> Latest(slos[tmpl])]
  <2>1. g \in DOMAIN groups /\ groups[g].active
    BY <1>6, GroupOfKnown DEF Retarget
  <2>2. MayRegenerate(g, body) /\ Begin("other", RegeneratePlans(g, body))
    BY <1>6 DEF Retarget
  <2>3. tmpl \in Slos
    BY <1>1, <2>1, GroupTyped DEF RegistryInv
  <2>4. body.tmpl \in Slos \union {NULL} /\ body.rows \in (SUBSET Rows) \union {NULL}
    BY <2>3
  <2> HIDE DEF body, g
  <2>5. \A plan \in RegeneratePlans(g, body) : PlanFits(plan, slis, slos, groups, raced)
    BY <1>1, <2>1, <2>2, <2>4, RegeneratePlanFits
  <2> QED
    BY <2>2, <2>5, BeginKeeps
<1>7. ASSUME NEW name \in GroupNames, NEW n \in Slos, NEW copy \in scene.names,
             ExtractSlo(name, n, copy)
      PROVE  RegistryPageInv'
  <2> DEFINE g == GroupOf(name)
  <2>1. /\ g \in DOMAIN groups /\ groups[g].active /\ MayExtract(g, n)
        /\ Begin("other", {ExtractPlan(g, n, copy)})
    BY <1>7, GroupOfKnown DEF ExtractSlo
  <2>2. copy \in Slos
    BY SceneTyped DEF RegistryPageInv
  <2> HIDE DEF g
  <2>3. PlanFits(ExtractPlan(g, n, copy), slis, slos, groups, raced)
    BY <1>1, <2>1, <2>2, ExtractPlanFits
  <2> QED
    BY <2>1, <2>3, BeginKeeps
<1>8. ASSUME NEW who \in {"page", "other"}, Finish(who) PROVE RegistryPageInv'
  <2>1. /\ commands[who] # NULL /\ Carried(commands[who]) /\ raced' = raced \union Met(who)
        /\ commands' = [commands EXCEPT ![who] = NULL]
        /\ UNCHANGED <<slis, listed, detailed, seen, wizard, txns, scene>>
        /\ page' = [page EXCEPT !.regen = NULL] \/ page' = page
    BY <1>8 DEF Finish
  <2>2. RegistryInv' /\ SlisStay /\ SlosStay
    BY <1>1, <2>1, CarriedKeeps
  <2>3. PageFits(page, slos')
    BY <1>1, <2>2, PageOutlasts
  <2>4. PageFits([page EXCEPT !.regen = NULL], slos') /\ [page EXCEPT !.regen = NULL].edit = page.edit
    BY <2>3, PageFields
  <2>5. PageFits(page', slos') /\ page'.edit = page.edit
    <3>1. CASE page' = page
      BY <2>3, <3>1
    <3>2. CASE page' = [page EXCEPT !.regen = NULL]
      BY <2>4, <3>2
    <3> QED
      BY <2>1, <3>1, <3>2
  <2>6. PageInv'
    BY <1>1, <2>1, <2>2, <2>5, PageKeeps
  <2> QED
    BY <2>1, <2>2, <2>6 DEF RegistryPageInv
<1>9. ASSUME NEW who \in {"page", "other"}, Fail(who) PROVE RegistryPageInv'
  <2>1. /\ commands' = [commands EXCEPT ![who] = NULL]
        /\ UNCHANGED <<slis, slos, groups, raced, listed, detailed, seen, page, wizard, txns, scene>>
    BY <1>9 DEF Fail, registryVars, pageVars
  <2> QED
    BY <2>1, CommandMoves
<1>10. ASSUME NEW n \in GroupNames, NEW t \in scene.names, NEW rows \in SUBSET Rows,
              CreateGroup(n, t, rows)
       PROVE  RegistryPageInv'
  <2> DEFINE tmpl == [name |-> t, ver |-> Latest(slos[t])]
  <2>1. /\ Latest(slos[t]) # 0 /\ MayCreateGroup(n, tmpl, rows) /\ GroupCreated(n, tmpl, rows)
        /\ UNCHANGED <<slis, commands, listed, detailed, seen, page, wizard, txns, scene>>
        /\ raced' = IF \E w \in DOMAIN commands : commands[w] # NULL /\ commands[w].was.name = n
                    THEN raced \union {Len(groups) + 1} ELSE raced
    BY <1>10 DEF CreateGroup, Act
  <2>2. t \in Slos
    BY SceneTyped DEF RegistryPageInv
  <2>3. slos[t] \in Seq(SloRows)
    BY <1>1, <2>2, SloTyped DEF RegistryInv
  <2>4. Latest(slos[t]) \in DOMAIN slos[t]
    BY <2>1, <2>3, LatestKnown
  <2>5. tmpl \in [name: Slos, ver: Nat]
    BY <2>2, <2>3, <2>4
  <2> HIDE DEF tmpl
  <2>6. RegistryInv' /\ SlisStay /\ SlosStay
    BY <1>1, <2>1, <2>5, GroupCreatedKeeps
  <2> QED
    BY <2>1, <2>6, RegistryStep
<1> QED
  BY <1>1, <1>3, <1>4, <1>5, <1>6, <1>7, <1>8, <1>9, <1>10 DEF Commands

\* One request begins, goes on or ends.
LEMMA TxnMoves ==
    ASSUME NEW ts, NEW I, NEW O, TxnsFit(ts, I, O), NEW who \in {"page", "other"}, NEW t,
           TxnFits(t, I, O), who = "page" => Submitted(t, I, O)
    PROVE  TxnsFit([ts EXCEPT ![who] = t], I, O)
<1> DEFINE new == [ts EXCEPT ![who] = t]
<1>1. /\ new = [w \in {"page", "other"} |-> new[w]] /\ new[who] = t
      /\ \A w \in {"page", "other"} \ {who} : new[w] = ts[w]
  BY DEF TxnsFit
<1> HIDE DEF new
<1>2. TxnsFit(new, I, O)
  <2>1. CASE who = "page"
    BY <1>1, <2>1 DEF TxnsFit
  <2>2. CASE who = "other"
    BY <1>1, <2>2 DEF TxnsFit
  <2> QED
    BY <2>1, <2>2
<1> QED
  BY <1>2 DEF new

\* What the other user does.
LEMMA OtherKeeps ==
    ASSUME RegistryPageInv, Other, UNCHANGED groupTxns
    PROVE  RegistryPageInv'
<1>1. /\ UNCHANGED <<groups, listed, detailed, seen, page, wizard, scene>>
      /\ RegistryInv /\ PageInv
  BY DEF Other, PostSlo, DeactivateSlo, DeactivateSli, PostSli, SliCreated, Act, registryVars,
     RegistryPageInv
<1>2. ASSUME NEW b \in scene.posts, PostSlo(b) PROVE RegistryPageInv'
  <2> DEFINE t == [body |-> b, base |-> NULL, edit |-> NULL]
  <2>1. UNCHANGED <<slis, slos>> /\ txns' = [txns EXCEPT !["other"] = t]
    BY <1>2 DEF PostSlo, registryVars
  <2>2. b \in Bodies
    BY SceneTyped DEF RegistryPageInv
  <2>3. t \in Txns /\ t.base = NULL /\ t.edit = NULL
    BY <2>2 DEF Txns
  <2> HIDE DEF t
  <2>4. TxnFits(t, slis, slos)
    BY <2>3 DEF TxnFits, EditFits
  <2>5. TxnsFit(txns', slis, slos)
    BY <1>1, <2>1, <2>4, TxnMoves DEF PageInv
  <2>6. RegistryInv'
    BY <1>1, <2>1, RegistryKept
  <2> QED
    BY <1>1, <2>1, <2>5, <2>6 DEF RegistryPageInv, PageInv
<1>3. ASSUME NEW n \in scene.others, DeactivateSlo(n) PROVE RegistryPageInv'
  <2>1. slos' = [slos EXCEPT ![n] = Deactivated(@)] /\ UNCHANGED <<slis, txns>>
    BY <1>3 DEF DeactivateSlo
  <2>2. n \in Slos
    BY SceneTyped DEF RegistryPageInv
  <2>3. RegistryInv' /\ SlisStay /\ SlosStay
    BY <1>1, <2>1, <2>2, DeactivateKeeps
  <2> QED
    BY <1>1, <2>1, <2>3, RegistryStep
<1>4. ASSUME NEW s \in Slis, DeactivateSli(s) PROVE RegistryPageInv'
  <2>1. slis' = [slis EXCEPT ![s] = Deactivated(@)] /\ UNCHANGED <<slos, txns>>
    BY <1>4 DEF DeactivateSli
  <2>2. RegistryInv' /\ SlisStay /\ SlosStay
    BY <1>1, <2>1, SliDeactivatedKeeps
  <2> QED
    BY <1>1, <2>1, <2>2, RegistryStep
<1>5. ASSUME NEW s \in Slis, NEW c \in scene.contents, PostSli(s, c) PROVE RegistryPageInv'
  <2> DEFINE template == c.mode = "aggregated" /\ Names(c.inds) = {}
  <2>1. SliCreated(s, c.mode, c.inds, template) /\ UNCHANGED txns
    BY <1>5 DEF PostSli
  <2>2. c \in [mode: {"raw", "aggregated"}, inds: Inds]
    BY SceneTyped DEF RegistryPageInv
  <2> HIDE DEF template
  <2>3. c.mode \in {"raw", "aggregated"} /\ c.inds \in Inds
    BY <2>2
  <2>4. RegistryInv' /\ SlisStay /\ SlosStay
    BY <1>1, <2>1, <2>3, SliCreatedKeeps
  <2> QED
    BY <1>1, <2>1, <2>4, RegistryStep
<1> QED
  BY <1>2, <1>3, <1>4, <1>5 DEF Other

\* A create that passed the checks inserts a version that fits.
LEMMA CommitKeeps ==
    ASSUME RegistryPageInv, UNCHANGED groupTxns, NEW who \in {"page", "other"}, Open(who),
           txns[who].base # NULL,
           slos' \in Inserted(txns[who].body, txns[who].base), txns' = [txns EXCEPT ![who] = NULL],
           UNCHANGED <<slis, groups, listed, detailed, seen, scene>>,
           UNCHANGED <<wizard, page>> \/ (wizard' = NULL /\ page' = [page EXCEPT !.edit = NULL])
    PROVE  RegistryPageInv'
<1> DEFINE t == txns[who]
<1>1. RegistryInv /\ PageInv /\ TxnsFit(txns, slis, slos)
  BY DEF RegistryPageInv, PageInv
<1>2. t \in Txns /\ AcceptsIn(slis, t.body)
  BY <1>1 DEF TxnsFit, TxnFits, Open
<1>3. t.body \in Bodies /\ Accepts(t.body)
  BY <1>2 DEF Txns, Accepts, AcceptsIn, IndicatorKeys
<1> HIDE DEF t
<1>4. RegistryInv' /\ SlisStay /\ SlosStay
  BY <1>1, <1>3, InsertKeeps DEF t
<1>5. /\ ListFits(listed, slis') /\ LatestOnce(detailed, slis', Slis)
      /\ LatestOnce(seen, slos', Slos) /\ PageFits(page, slos')
      /\ WizardFits(wizard, page.edit, slis', slos') /\ TxnsFit(txns, slis', slos')
  BY <1>1, <1>4, PageOutlasts
<1>6. TxnsFit(txns', slis', slos')
  <2>1. TxnFits(NULL, slis', slos') /\ Submitted(NULL, slis', slos')
    BY DEF TxnFits, Submitted
  <2> QED
    BY <1>5, <2>1, TxnMoves
<1>7. PageFits(page', slos') /\ WizardFits(wizard', page'.edit, slis', slos')
  <2>1. CASE UNCHANGED <<wizard, page>>
    BY <1>5, <2>1
  <2>2. CASE wizard' = NULL /\ page' = [page EXCEPT !.edit = NULL]
    <3>1. PageFits(page', slos')
      BY <1>5, <2>2, EditField DEF EditFits
    <3> QED
      BY <2>2, <3>1 DEF WizardFits
  <2> QED
    BY <2>1, <2>2
<1> QED
  BY <1>4, <1>5, <1>6, <1>7 DEF RegistryPageInv, PageInv

\* The server's steps on a request.
LEMMA ServerKeeps ==
    ASSUME RegistryPageInv, UNCHANGED groupTxns,
           LoseResponse \/ \E who \in DOMAIN txns : ReadVersion(who) \/ Commit(who) \/ Refuse(who)
    PROVE  RegistryPageInv'
<1>1. RegistryInv /\ PageInv /\ TxnsFit(txns, slis, slos) /\ DOMAIN txns = {"page", "other"}
  BY DEF RegistryPageInv, PageInv, TxnsFit
<1>2. ASSUME NEW who \in {"page", "other"}, NEW t, TxnFits(t, slis, slos),
             who = "page" => Submitted(t, slis, slos), txns' = [txns EXCEPT ![who] = t],
             UNCHANGED <<slis, slos, groups, listed, detailed, seen, page, wizard, scene>>
      PROVE  RegistryPageInv'
  <2>1. TxnsFit(txns', slis, slos)
    BY <1>1, <1>2, TxnMoves
  <2>2. RegistryInv'
    BY <1>1, <1>2, RegistryKept
  <2> QED
    BY <1>1, <1>2, <2>1, <2>2 DEF RegistryPageInv, PageInv
<1>3. CASE LoseResponse
  <2>1. /\ Open("page") /\ txns["page"].base # NULL
        /\ slos' \in Inserted(txns["page"].body, txns["page"].base)
        /\ txns' = [txns EXCEPT !["page"] = NULL]
        /\ UNCHANGED <<slis, groups, listed, detailed, seen, page, wizard, scene>>
    BY <1>3 DEF LoseResponse, Act
  <2> QED
    BY <2>1, CommitKeeps
<1>4. ASSUME NEW who \in {"page", "other"}, ReadVersion(who) PROVE RegistryPageInv'
  <2> DEFINE t == txns[who]
             new == [t EXCEPT !.base = Len(slos[t.body.name])]
  <2>1. /\ t # NULL /\ Accepts(t.body) /\ txns' = [txns EXCEPT ![who] = new]
        /\ UNCHANGED <<slis, slos, groups, listed, detailed, seen, page, wizard, scene>>
    BY <1>4 DEF ReadVersion, Open, registryVars
  <2>2. TxnFits(t, slis, slos) /\ (who = "page" => Submitted(t, slis, slos))
    BY <1>1 DEF TxnsFit
  <2>3. t \in Txns /\ EditFits(t.edit, slos)
    BY <2>1, <2>2 DEF TxnFits
  <2> HIDE DEF t
  <2>4. t.body.name \in Slos
    BY <2>3 DEF Txns, Bodies
  <2>5. Len(slos[t.body.name]) \in Nat
    BY <1>1, <2>4, SloTyped DEF RegistryInv
  <2>6. new \in Txns /\ new.body = t.body /\ new.edit = t.edit
    BY <2>3, <2>5 DEF Txns
  <2> HIDE DEF new
  <2>7. AcceptsIn(slis, t.body)
    BY <2>1 DEF Accepts, AcceptsIn, IndicatorKeys
  <2>8. TxnFits(new, slis, slos)
    BY <2>3, <2>6, <2>7 DEF TxnFits
  <2>9. who = "page" => Submitted(new, slis, slos)
    BY <2>1, <2>2, <2>6 DEF Submitted
  <2> QED
    BY <1>2, <2>1, <2>8, <2>9
<1>5. ASSUME NEW who \in {"page", "other"}, Commit(who) PROVE RegistryPageInv'
  <2>1. /\ Open(who) /\ txns[who].base # NULL
        /\ slos' \in Inserted(txns[who].body, txns[who].base)
        /\ txns' = [txns EXCEPT ![who] = NULL]
        /\ UNCHANGED <<slis, groups, listed, detailed, seen, scene>>
        /\ UNCHANGED <<wizard, page>> \/ (wizard' = NULL /\ page' = [page EXCEPT !.edit = NULL])
    BY <1>5 DEF Commit
  <2> QED
    BY <2>1, CommitKeeps
<1>6. ASSUME NEW who \in {"page", "other"}, Refuse(who) PROVE RegistryPageInv'
  <2>1. TxnFits(NULL, slis, slos) /\ Submitted(NULL, slis, slos)
    BY DEF TxnFits, Submitted
  <2>2. /\ txns' = [txns EXCEPT ![who] = NULL]
        /\ UNCHANGED <<slis, slos, groups, listed, detailed, seen, page, wizard, scene>>
    BY <1>6 DEF Refuse, registryVars
  <2> QED
    BY <1>2, <2>1, <2>2
<1> QED
  BY <1>1, <1>3, <1>4, <1>5, <1>6

-----------------------------------------------------------------------------
(* The invariants of the specification.                                    *)

LEMMA StartSound ==
    ASSUME Init
    PROVE  RegistryPageInv
<1>1. scene \in Scenes /\ SoundStart(scene)
  BY SceneTyped DEF Init
<1>2. slis = scene.slis /\ slos = scene.slos /\ groups = scene.groups
  BY DEF Init
<1>3. RegistryShape /\ RawHasIndicators /\ TemplatesKnown
  BY <1>1, <1>2 DEF SoundStart, RegistryShape, RawHasIndicators, TemplatesKnown
<1>4. VersionsUnbroken
  BY <1>1, <1>2 DEF SoundStart, VersionsUnbroken
<1>5. ASSUME NEW n \in Slos, NEW v \in DOMAIN slos[n]
      PROVE  /\ slos[n][v].sli # NULL =>
                  /\ slos[n][v].ver \in DOMAIN slis[slos[n][v].sli]
                  /\ slos[n][v].objs
                       \subseteq KeysOf(slos[n][v].sli, slis[slos[n][v].sli][slos[n][v].ver])
             /\ slos[n][v].group # NULL =>
                  /\ slos[n][v].group \in DOMAIN groups
                  /\ slos[n][v].active =>
                       /\ groups[slos[n][v].group].active
                       /\ n \in GeneratedNames(groups[slos[n][v].group].tmpl,
                                               groups[slos[n][v].group].rows)
  BY <1>1, <1>2 DEF SoundStart
<1>6. SliVersionsKnown /\ ObjectivesProducible
  BY <1>5 DEF SliVersionsKnown, ObjectivesProducible, IndicatorKeys
<1>7. GroupsKnown /\ GeneratedBelong
  BY <1>5 DEF GroupsKnown, GeneratedBelong
<1>12. OneActive
  BY <1>1, <1>2 DEF SoundStart, OneActive
<1>13. PlansFit
  BY DEF Init, PlansFit
<1>8. LatestOnce(detailed, slis, Slis) /\ LatestOnce(seen, slos, Slos) /\ ListFits(listed, slis)
  BY DEF Init, LatestOnce, ListFits
<1>9. PageFits(page, slos)
  <2>1. << >> \in Inds
    <3>1. << >> \in [{} -> Queries] /\ {} \in SUBSET Indicators
      OBVIOUS
    <3> QED
      BY <3>1 DEF Inds
  <2>2. EmptySli \in SliFields
    BY <2>1 DEF EmptySli, SliFields
  <2> DEFINE sli == [open |-> FALSE, form |-> EmptySli, base |-> EmptySli]
  <2>3. sli \in [open: BOOLEAN, form: SliFields, base: SliFields]
    BY <2>2
  <2>4. page = [kind |-> "standard", edit |-> NULL, view |-> NULL, regen |-> NULL, link |-> NULL,
                sli |-> sli]
    BY DEF Init
  <2> HIDE DEF sli
  <2> QED
    BY <2>3, <2>4 DEF PageFits, EditFits
<1>10. TxnsFit(txns, slis, slos)
  BY DEF Init, TxnsFit, TxnFits, Submitted
<1>11. WizardFits(wizard, page.edit, slis, slos)
  BY DEF Init, WizardFits
<1> QED
  BY <1>1, <1>3, <1>4, <1>6, <1>7, <1>8, <1>9, <1>10, <1>11, <1>12, <1>13
     DEF RegistryPageInv, RegistryInv, PageInv

LEMMA StepsSound ==
    ASSUME RegistryPageInv, [Next]_vars
    PROVE  RegistryPageInv'
<1>1. CASE UNCHANGED vars
  <2>1. /\ UNCHANGED <<slis, slos, groups, listed, detailed, seen, page, wizard, txns, scene>>
        /\ UNCHANGED groupTxns
    BY <1>1 DEF vars, registryVars, groupTxns, pageVars
  <2>2. PageFits(page', slos) /\ page'.edit = page.edit
    BY <2>1 DEF RegistryPageInv, PageInv
  <2> QED
    BY <2>1, <2>2, PageStep
<1>2. CASE Quiet /\ UNCHANGED groupTxns
  BY <1>2, FetchesKeep, WizardKeeps, FormsKeep, GroupViewsKeep, LinksKeep, OtherKeeps, ServerKeeps
     DEF Quiet
<1>3. CASE Commands
  BY <1>3, CommandsKeep
<1> QED
  BY <1>1, <1>2, <1>3 DEF Next

\* Registries and page always fit each other: every reference leads somewhere, every
\* cached version was once the latest, and the wizard's rows are rows of its SLI.
THEOREM RegistryAndPageFit == Spec => []RegistryPageInv
<1>1. Init => RegistryPageInv
  BY StartSound
<1>2. RegistryPageInv /\ [Next]_vars => RegistryPageInv'
  BY StepsSound
<1> QED
  BY <1>1, <1>2, PTL DEF Spec

\* SLORepository.create, the groups' regeneration and the extraction number the versions
\* of every SLO without gap or repetition, and none is comparable from a later one.
THEOREM VersionsStayUnbroken == Spec => []VersionsUnbroken
<1>1. RegistryPageInv => VersionsUnbroken
  BY DEF RegistryPageInv, RegistryInv
<1> QED
  BY <1>1, RegistryAndPageFit, PTL

\* Objectives stay producible by the SLI version that their SLO names, whoever wrote the
\* version: the wizard, another user, a group or an extraction.
THEOREM ObjectivesStayProducible == Spec => []ObjectivesProducible
<1>1. RegistryPageInv => ObjectivesProducible
  BY DEF RegistryPageInv, RegistryInv
<1> QED
  BY <1>1, RegistryAndPageFit, PTL

\* What is active of a group's generated SLOs belongs to an active group and one of its
\* rows, after any sequence of regenerations, extractions, deletions and edits, unless two
\* requests about that group were under way at once (raced).
THEOREM GeneratedStayOwned == Spec => []GeneratedBelong
<1>1. RegistryPageInv => GeneratedBelong
  BY DEF RegistryPageInv, RegistryInv
<1> QED
  BY <1>1, RegistryAndPageFit, PTL

\* The wizard never submits, for a raw SLI, what the API's checks refuse, and an edit
\* left as it was filled in keeps every objective that its SLI version still has.
THEOREM WizardRequestsSound == Spec => []WizardSubmitsSound
<1>1. RegistryPageInv => WizardSubmitsSound
  <2> SUFFICES ASSUME RegistryPageInv PROVE WizardSubmitsSound
    OBVIOUS
  <2>1. Submitted(txns["page"], slis, slos)
    BY DEF RegistryPageInv, PageInv, TxnsFit
  <2>2. \A body : AcceptsIn(slis, body) => Accepts(body)
    BY DEF Accepts, AcceptsIn, IndicatorKeys
  <2>3. \A s, v : RowsOf(s, v) = RowsIn(slis, s, v)
    BY DEF RowsOf, RowsIn
  <2> QED
    BY <2>1, <2>2, <2>3 DEF WizardSubmitsSound, Submitted, Open, EditedRow
<1> QED
  BY <1>1, RegistryAndPageFit, PTL

\* The tree of the sidebar shows every binding that resolve_for_asset resolves: its own
\* assignments, those of its groups, and the generated ones that are still tagged.
THEOREM BindingsAlwaysShown == Spec => []BindingsShown
<1>1. RegistryPageInv => BindingsShown
  <2> SUFFICES ASSUME RegistryPageInv, NEW g \in DOMAIN Member, NEW x \in Member[g],
                      NEW c \in Candidates(x), c.rank = 1 => StillTagged(c)
               PROVE  <<x, c.slo, c.ds>> \in TreeBindings
    BY DEF BindingsShown, Resolved
  <2>1. ASSUME NEW h \in DOMAIN Member, x \in Member[h], NEW b,
               b \in AssetBindings(x) \union GroupBindings(h)
        PROVE  <<x, b[1], b[2]>> \in TreeBindings
    <3>1. h \in TreeGroups
      BY TreeAssumption
    <3> QED
      BY <2>1, <3>1 DEF TreeBindings
  <2>2. ASSUME NEW a \in assigned, a.target = x, c.slo = a.slo, c.ds = a.ds
        PROVE  <<x, c.slo, c.ds>> \in TreeBindings
    <3>1. <<a.slo, a.ds>> \in AssetBindings(x)
      BY <2>2 DEF AssetBindings
    <3> QED
      BY <2>1, <2>2, <3>1
  <2>3. ASSUME NEW a \in assigned, a.target \in DOMAIN Member, x \in Member[a.target],
               c.slo = a.slo, c.ds = a.ds
        PROVE  <<x, c.slo, c.ds>> \in TreeBindings
    <3>1. <<a.slo, a.ds>> \in GroupBindings(a.target)
      BY DEF GroupBindings
    <3> QED
      BY <2>1, <2>3, <3>1
  <2>4. ASSUME NEW n \in Slos, NEW y \in allotted, y.target = x, NEW v \in DOMAIN slos[n],
               slos[n][v].active, slos[n][v].group = y.group,
               c = [slo |-> n, ver |-> v, ds |-> y.ds, rank |-> 1]
        PROVE  <<x, c.slo, c.ds>> \in TreeBindings
    <3>1. c.slo = n /\ c.ver = v /\ c.ds = y.ds /\ c.rank = 1
      BY <2>4
    <3>2. slos[n][Latest(slos[n])].tag = groups[y.group].name
      BY <2>4, <3>1 DEF StillTagged
    <3>3. slos[n] \in Seq(SloRows)
      BY SloTyped DEF RegistryPageInv, RegistryInv
    <3>4. Latest(slos[n]) # 0
      BY <2>4, <3>3, ActiveHasLatest
    <3>5. n \in SloGroupMap(groups[y.group].name)
      BY <3>2, <3>4 DEF SloGroupMap
    <3>6. <<n, y.ds>> \in SloGroupMap(groups[y.group].name) \X {y.ds}
      BY <3>5
    <3>7. <<n, y.ds>> \in AssetBindings(x)
      BY <2>4, <3>5, <3>6 DEF AssetBindings
    <3> QED
      BY <2>1, <3>1, <3>7
  <2> QED
    BY <2>2, <2>3, <2>4 DEF Candidates
<1> QED
  BY <1>1, RegistryAndPageFit, PTL

=============================================================================
