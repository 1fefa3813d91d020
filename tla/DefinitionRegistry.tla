------------------------- MODULE DefinitionRegistry -------------------------
(***************************************************************************)
(* The registries of the API: versioned SLI and SLO definitions, SLO       *)
(* groups that generate SLOs from a template, and the assignments that     *)
(* bind SLOs to assets. Operators give the effect of each request; the     *)
(* requests themselves are sent by RegistryPage. A request about a group   *)
(* runs several statements at READ COMMITTED and locks no group: it plans  *)
(* by what it reads first, and others commit before it ends.               *)
(*                                                                         *)
(* An SLI version maps its indicators to queries. A metric is a pair: the  *)
(* indicator and the statistic, "" for an SLI in raw mode.                 *)
(***************************************************************************)
EXTENDS Integers, Sequences, FiniteSets

CONSTANTS
    NULL,
    Slis,       \* names of SLIs
    Slos,       \* names of SLOs
    Indicators, \* names of indicators
    Queries,    \* what an indicator is computed from
    Methods,    \* statistics of every aggregated SLI
    Rows,       \* rows of generator variables
    GenName,    \* GenName[template][row]: the name with $__gen_ placeholders replaced
    Assets,     \* names of assets
    Member,     \* Member[asset group]: the assets that are direct members
    GroupNames  \* names of SLO groups

VARIABLES
    slis,       \* slis[name]: the versions, oldest first
    slos,       \* slos[name]: the versions, oldest first
    groups,     \* rows of slo_groups, a row's id is its place
    assigned,   \* slo_assignments
    allotted,   \* slo_group_assignments, of assets
    commands,   \* commands[who]: a request about a group under way, or NULL
    raced       \* history: groups of which two requests were under way at once

registryVars == <<slis, slos, groups, assigned, allotted>>
groupTxns == <<commands, raced>>

-----------------------------------------------------------------------------
(* The rows of the tables.                                                 *)

Inds == UNION {[names -> Queries] : names \in SUBSET Indicators}
Metrics == (Indicators \union Slis) \X (Methods \union {""})

SliRows ==
    [mode: {"raw", "aggregated"}, inds: Inds, active: BOOLEAN, cfv: Nat]

\* group is the column generated_by_group_id, tag the tag slo_group.
SloRows ==
    [version: Nat, sli: Slis \union {NULL}, ver: Nat \union {NULL}, objs: SUBSET Metrics,
     kind: {"standard", "template"}, group: Nat \union {NULL}, tag: GroupNames \union {NULL},
     active: BOOLEAN, cfv: Nat]

GroupRows ==
    [name: GroupNames, tmpl: [name: Slos, ver: Nat], rows: SUBSET Rows, active: BOOLEAN]

-----------------------------------------------------------------------------
(* Versions.                                                               *)

\* get_latest: the highest active version, 0 when there is none.
Latest(versions) ==
    LET live == {v \in DOMAIN versions : versions[v].active}
    IN  IF live = {} THEN 0 ELSE CHOOSE v \in live : \A w \in live : w <= v

Names(inds) == DOMAIN inds

\* build_indicator_keys: an aggregated SLI without indicators has one query
\* template, whose key is the name of the SLI.
KeysOf(sli, def) ==
    LET keys == IF Names(def.inds) = {} THEN {sli} ELSE Names(def.inds)
    IN  IF def.mode = "raw" THEN {<<i, "">> : i \in Names(def.inds)}
        ELSE keys \X Methods

IndicatorKeys(sli, ver) == KeysOf(sli, slis[sli][ver])

Accepts_SliOnly(body) == body.sli # NULL => body.ver \in DOMAIN slis[body.sli]

\* create_slo_definition: the version named in the body need not be active.
Accepts(body) ==
    body.sli # NULL =>
        /\ body.ver \in DOMAIN slis[body.sli]
        /\ body.objs \subseteq IndicatorKeys(body.sli, body.ver)

\* SLORepository.create, the row: an explicit comparable_from_version, or the
\* previous version, or 1.
SloRow(body, base, cfv) ==
    [version |-> base + 1, sli |-> body.sli, ver |-> body.ver, objs |-> body.objs,
     kind |-> body.kind, group |-> body.group, tag |-> body.tag, active |-> TRUE,
     cfv |-> IF cfv # NULL THEN cfv ELSE IF base > 0 THEN base ELSE 1]

Inserted_NoConstraint(body, base) ==
    {[slos EXCEPT ![body.name] = Append(@, SloRow(body, base, NULL))]}

\* The highest version is read before the row is inserted. The read locks the
\* row (FOR UPDATE), but one that waited for the lock returns the row it waited
\* for and not a newer version: uq_slo_name_version refuses the second of two
\* inserts that read the same one. The requests of the registry page leave
\* comparable_from_version to the repository.
Inserted(body, base) ==
    IF Len(slos[body.name]) = base
    THEN {[slos EXCEPT ![body.name] = Append(@, SloRow(body, base, NULL))]}
    ELSE {}

\* deactivate: every version of the name.
Deactivated(versions) == [v \in DOMAIN versions |-> [versions[v] EXCEPT !.active = FALSE]]

SliRow(mode, inds, base) ==
    [mode |-> mode, inds |-> inds, active |-> TRUE, cfv |-> IF base > 0 THEN base ELSE 1]

\* SLIDefinitionCreate: a raw SLI has indicators, an aggregated one has either
\* indicators or a query template.
ValidSli(mode, inds, template) ==
    IF mode = "raw" THEN Names(inds) # {} /\ ~template ELSE template # (Names(inds) # {})

-----------------------------------------------------------------------------
(* SLO groups.                                                             *)

\* get_by_name: the active group of a name, 0 when there is none.
GroupOf(name) ==
    LET live == {g \in DOMAIN groups : groups[g].name = name /\ groups[g].active}
    IN  IF live = {} THEN 0 ELSE CHOOSE g \in live : TRUE

\* list_by_group_id: the active versions generated by the group, by name.
GeneratedBy(g) ==
    {n \in Slos : \E v \in DOMAIN slos[n] : slos[n][v].group = g /\ slos[n][v].active}

GeneratedNames(tmpl, rows) == {GenName[tmpl.name][r] : r \in rows}

TemplateRow(tmpl) == slos[tmpl.name][tmpl.ver]

\* _load_template_slo.
IsTemplate(tmpl) ==
    tmpl.ver \in DOMAIN slos[tmpl.name] /\ TemplateRow(tmpl).kind = "template"

GeneratedBody(tmpl, g, name) ==
    [sli |-> TemplateRow(tmpl).sli, ver |-> TemplateRow(tmpl).ver, objs |-> TemplateRow(tmpl).objs,
     kind |-> "standard", group |-> g, tag |-> name]

\* create_slo_group: names that are taken by an active SLO are refused.
MayCreateGroup(name, tmpl, rows) ==
    /\ IsTemplate(tmpl) /\ rows # {} /\ GroupOf(name) = 0
    /\ \A n \in GeneratedNames(tmpl, rows) : Latest(slos[n]) = 0

WithGenerated(names, tmpl, g, name, cfvOf) ==
    [n \in Slos |->
        IF n \notin names THEN slos[n]
        ELSE Append(slos[n], SloRow(GeneratedBody(tmpl, g, name), Len(slos[n]), cfvOf[n]))]

GroupCreated(name, tmpl, rows) ==
    /\ groups' = Append(groups, [name |-> name, tmpl |-> tmpl, rows |-> rows, active |-> TRUE])
    /\ slos' = WithGenerated(GeneratedNames(tmpl, rows), tmpl, Len(groups) + 1, name,
                             [n \in Slos |-> NULL])

\* _indicators_changed: indicators that are gone or have another query.
IndicatorsChanged(old, new) == \E i \in Names(old) : i \notin Names(new) \/ old[i] # new[i]

IndicatorsOf(row) == IF row.sli = NULL THEN << >> ELSE slis[row.sli][row.ver].inds

\* update_slo_group: the version of the template counts only together with its
\* name, and with a name the old indicators are taken to be empty.
EffectiveTemplate(g, body) ==
    IF body.tmpl # NULL THEN [name |-> body.tmpl, ver |-> body.tmplVer] ELSE groups[g].tmpl

BreaksBaseline(g, body) ==
    LET old == IF body.tmpl = NULL THEN IndicatorsOf(TemplateRow(groups[g].tmpl)) ELSE << >>
        new == IndicatorsOf(TemplateRow(EffectiveTemplate(g, body)))
    IN  \/ IndicatorsChanged(old, new)
        \/ body.rows # NULL /\ body.rows # groups[g].rows

\* The versions of one name are listed in no order: the value to preserve is
\* that of any active one. A broken baseline passes no value on.
PreservedFrom(g, name) ==
    {slos[name][v].cfv : v \in {w \in DOMAIN slos[name] : slos[name][w].group = g /\ slos[name][w].active}}

\* What a request about group g will write, by what it has read: versions to
\* add, names to deactivate, the group's template and rows (NULL: left alone),
\* and whether the group ends. It has read the group's row, and len versions of
\* each name.
Plan(g, adds, off, ends, tmpl, rows) ==
    [g |-> g, was |-> groups[g], adds |-> adds, off |-> off, ends |-> ends,
     tmpl |-> tmpl, rows |-> rows, len |-> [n \in Slos |-> Len(slos[n])]]

\* update_slo_group, plan_regeneration: all that is active under a name will be
\* deactivated when the name has no row any more.
RegeneratePlans(g, body) ==
    LET tmpl == EffectiveTemplate(g, body)
        rows == IF body.rows # NULL THEN body.rows ELSE groups[g].rows
        old == GeneratedBy(g)
        new == GeneratedNames(tmpl, rows)
        both == old \cap new
        made == GeneratedBody(tmpl, g, groups[g].name)
        adds(kept) == [n \in new |->
            [body |-> made, cfv |-> IF n \in both /\ ~BreaksBaseline(g, body) THEN kept[n] ELSE NULL]]
    IN  {Plan(g, adds(kept), old \ new, FALSE, tmpl, rows) :
            kept \in {k \in [both -> UNION {PreservedFrom(g, n) : n \in both}] :
                        \A n \in both : k[n] \in PreservedFrom(g, n)}}

MayRegenerate(g, body) ==
    g # 0 /\ (body.tmpl # NULL => IsTemplate([name |-> body.tmpl, ver |-> body.tmplVer]))

DeletePlan_KeepsSlos(g) == Plan(g, << >>, {}, TRUE, NULL, NULL)

\* delete_slo_group.
DeletePlan(g) == Plan(g, << >>, GeneratedBy(g), TRUE, NULL, NULL)

MayExtract(g, name) == Latest(slos[name]) # 0 /\ slos[name][Latest(slos[name])].group = g

\* extract_slo: a standalone copy without the tag, the original deactivated, and its row taken
\* out of the group, which ends with its last row.
ExtractPlan(g, name, copy) ==
    LET row == slos[name][Latest(slos[name])]
        left == {r \in groups[g].rows : GenName[groups[g].tmpl.name][r] # name}
        body == [sli |-> row.sli, ver |-> row.ver, objs |-> row.objs, kind |-> "standard",
                 group |-> NULL, tag |-> NULL]
    IN  Plan(g, [n \in {copy} |-> [body |-> body, cfv |-> NULL]], {name}, left = {}, NULL, left)

\* The versions a plan adds are numbered when they are inserted.
Added(c, n) ==
    IF n \in DOMAIN c.adds
    THEN Append(slos[n], SloRow(c.adds[n].body, Len(slos[n]), c.adds[n].cfv))
    ELSE slos[n]

\* deactivate, an UPDATE: it sees the versions committed when it starts and the
\* request's own, not those of a request whose lock it waits for.
Swept(versions, sight, own) ==
    [v \in DOMAIN versions |->
        [versions[v] EXCEPT !.active = @ /\ v > sight /\ v <= own]]

\* SLOGroupRepository.update and deactivate look the group up by name again:
\* once the group has ended they find none (0) or a newer one, which may end
\* while they wait for the lock on its row.
Targets(c) ==
    IF groups[c.g].active THEN {c.g}
    ELSE {0} \union {h \in c.g..Len(groups) : groups[h].name = c.was.name}

\* The target's row after the request. Fields that equal what the request has
\* read of the row are not written; a deactivated row's are not looked at again.
RowAfter(c, target) ==
    LET kept(field, read) == field = NULL \/ (IF target = c.g THEN field = read ELSE c.ends)
    IN  [groups[target] EXCEPT
            !.tmpl = IF kept(c.tmpl, c.was.tmpl) THEN @ ELSE c.tmpl,
            !.rows = IF kept(c.rows, c.was.rows) THEN @ ELSE c.rows,
            !.active = @ /\ ~c.ends]

\* The end of the request: without an active group an update is refused, while
\* a deactivation does nothing.
Carried(c) ==
    \E target \in Targets(c), sight \in [c.off -> UNION {c.len[n]..Len(slos[n]) : n \in c.off}] :
        /\ target = 0 => c.ends
        /\ \A n \in c.off : sight[n] \in c.len[n]..Len(slos[n])
        /\ slos' = [n \in Slos |-> IF n \in c.off THEN Swept(Added(c, n), sight[n], Len(slos[n]))
                                   ELSE Added(c, n)]
        /\ groups' = IF target = 0 THEN groups ELSE [groups EXCEPT ![target] = RowAfter(c, target)]

\* The update finds no group, or uq_slo_name_version refuses a version: the
\* request is rolled back.
RolledBack(c) ==
    \/ ~groups[c.g].active /\ ~c.ends
    \/ \E n \in DOMAIN c.adds : Len(slos[n]) # c.len[n]

-----------------------------------------------------------------------------
(* Assignments.                                                            *)

\* upsert_slo_assignment by target and definition; the unique indexes are on
\* target and name, so a second version of one SLO is refused.
Upserted(target, slo, ver, ds) ==
    LET same == {a \in assigned : a.target = target /\ a.slo = slo}
    IN  IF \E a \in same : a.ver # ver THEN {}
        ELSE {(assigned \ same) \union {[target |-> target, slo |-> slo, ver |-> ver, ds |-> ds]}}

Unassigned(target, slo, ver) ==
    {a \in assigned : ~(a.target = target /\ a.slo = slo /\ a.ver = ver)}

\* resolve_for_asset without the assignments of SLO groups to asset groups:
\* a direct assignment wins over one of a group, that over a generated one.
Candidates(asset) ==
    {[slo |-> a.slo, ver |-> a.ver, ds |-> a.ds, rank |-> IF a.target = asset THEN 3 ELSE 2] :
        a \in {b \in assigned : b.target = asset
                                \/ (b.target \in DOMAIN Member /\ asset \in Member[b.target])}}
    \union
    UNION {{[slo |-> n, ver |-> v, ds |-> x.ds, rank |-> 1] :
                v \in {w \in DOMAIN slos[n] : slos[n][w].active /\ slos[n][w].group = x.group}} :
           n \in Slos, x \in {y \in allotted : y.target = asset /\ groups[y.group].active}}

Resolved(asset) ==
    {c \in Candidates(asset) : \A d \in Candidates(asset) : d.slo = c.slo => d.rank <= c.rank}

-----------------------------------------------------------------------------
(* Properties.                                                             *)

Numbered(versions) ==
    \A v \in DOMAIN versions :
        versions[v].version = v /\ versions[v].cfv <= IF v = 1 THEN 1 ELSE v - 1

\* The versions of an SLO are numbered without gap or repetition, and each is
\* comparable with an earlier one at most, whatever creates ran concurrently
\* and whatever the groups regenerated in between.
VersionsUnbroken == \A n \in Slos : Numbered(slos[n])

\* Every objective names a metric that the SLI version of its SLO produces,
\* through new versions of the SLI, generation and extraction: an evaluation
\* never waits for a metric that no query returns.
ObjectivesProducible ==
    \A n \in Slos : \A v \in DOMAIN slos[n] :
        slos[n][v].sli # NULL => slos[n][v].objs \subseteq IndicatorKeys(slos[n][v].sli, slos[n][v].ver)

\* A group owns its generated SLOs: one that is active belongs to an active
\* group and to one of its rows, after any sequence of regenerations,
\* extractions, deletions and direct edits of the generated SLOs. The exception
\* are groups of which two such requests were under way at once: none of them
\* locks the group, a version inserted while the deletion waits to deactivate
\* its name stays active, and the group ends.
GeneratedBelong ==
    \A n \in Slos : \A v \in DOMAIN slos[n] :
        slos[n][v].active /\ slos[n][v].group # NULL /\ slos[n][v].group \notin raced =>
            LET g == groups[slos[n][v].group]
            IN  g.active /\ n \in GeneratedNames(g.tmpl, g.rows)
=============================================================================
