---------------------------- MODULE RegistryPage ----------------------------
(***************************************************************************)
(* The registry page of the UI over the registries of DefinitionRegistry:  *)
(* the sidebar and the detail views, the wizard that writes a new SLO or a *)
(* new version of one, the SLI form, the inline form of an SLO group, and  *)
(* the dialog that assigns an SLO. The page works from cached answers; a   *)
(* second user changes the registries meanwhile.                           *)
(***************************************************************************)
EXTENDS DefinitionRegistry

CONSTANTS
    Sources,        \* data sources
    Roots,          \* asset groups at the top of the tree
    Subgroups,      \* Subgroups[asset group]
    Scenes          \* the start, and what the users do: kinds of action, inputs, moves

\* What a request to create an SLO holds.
Bodies ==
    [name: Slos, sli: Slis \union {NULL}, ver: Nat \union {NULL}, objs: SUBSET Metrics,
     kind: {"standard", "template"}, group: {NULL}, tag: GroupNames \union {NULL}]

\* A registry the users start from: the tables as earlier requests left them.
SoundStart(s) ==
    /\ s.slis \in [Slis -> Seq(SliRows)] /\ s.slos \in [Slos -> Seq(SloRows)]
    /\ s.groups \in Seq(GroupRows)
    /\ \A g, h \in DOMAIN s.groups :
         s.groups[g].active /\ s.groups[h].active /\ s.groups[g].name = s.groups[h].name => g = h
    /\ \A i \in Slis : \A v \in DOMAIN s.slis[i] :
         s.slis[i][v].mode = "raw" => Names(s.slis[i][v].inds) # {}
    /\ \A g \in DOMAIN s.groups : s.groups[g].tmpl.ver \in DOMAIN s.slos[s.groups[g].tmpl.name]
    /\ \A n \in Slos :
         /\ Numbered(s.slos[n])
         /\ \A v \in DOMAIN s.slos[n] :
              LET row == s.slos[n][v]
              IN  /\ row.sli # NULL =>
                       /\ row.ver \in DOMAIN s.slis[row.sli]
                       /\ row.objs \subseteq KeysOf(row.sli, s.slis[row.sli][row.ver])
                  /\ row.group # NULL =>
                       /\ row.group \in DOMAIN s.groups
                       /\ row.active =>
                            LET g == s.groups[row.group]
                            IN  g.active /\ n \in GeneratedNames(g.tmpl, g.rows)

ASSUME RegistryAssumption ==
    /\ NULL \notin Nat /\ NULL \notin Slis /\ NULL \notin Slos
    /\ NULL \notin [name: Slos, ver: Nat] /\ \A rows \in SUBSET Rows : NULL # rows
    /\ GenName \in [Slos -> [Rows -> Slos]]
    /\ \A s \in Scenes :
         /\ s.moves \in Nat
         /\ s.contents \subseteq [mode: {"raw", "aggregated"}, inds: Inds]
         /\ s.names \subseteq Slos /\ s.others \subseteq Slos /\ s.posts \subseteq Bodies
         /\ SoundStart(s)

VARIABLES
    listed,     \* the cached list of SLIs: their versions, NULL before the first answer
    detailed,   \* the cached SLI details: their versions
    seen,       \* the cached SLO details: their versions
    page,       \* selection and open forms of the page
    wizard,     \* the mounted SLO wizard, or NULL
    txns,       \* creates under way: of the page and of the other user
    scene, moves

pageVars == <<listed, detailed, seen, page, wizard, txns, scene, moves>>
vars == <<registryVars, groupTxns, pageVars>>

Act(kind) == kind \in scene.acts /\ moves < scene.moves /\ moves' = moves + 1 /\ UNCHANGED scene

-----------------------------------------------------------------------------
(* The wizard.                                                             *)

MergedRows_Kept(rows, inds) ==
    [i \in inds \union DOMAIN rows |-> i \in DOMAIN rows /\ rows[i]]

\* The rows an SLI's indicators give, keeping the ticks of rows that stay.
MergedRows(rows, inds) == [i \in inds |-> i \in DOMAIN rows /\ rows[i]]

\* The rows of an SLI: an indicator's name is spelt like the raw metric.
RowsOf(sli, ver) == {<<i, "">> : i \in Names(slis[sli][ver].inds)}

EditedRow(edit) == slos[edit.name][edit.ver]

\* The fields of a wizard when it mounts.
MountedWizard(edit) ==
    IF edit = NULL
    THEN [name |-> NULL, sli |-> NULL, ver |-> NULL, inds |-> {}, rows |-> << >>, tag |-> NULL,
          merged |-> FALSE, auto |-> FALSE, warned |-> FALSE, touched |-> FALSE, sent |-> FALSE]
    ELSE LET row == EditedRow(edit)
         IN  [name |-> edit.name, sli |-> row.sli, ver |-> row.ver, inds |-> row.objs,
              rows |-> [i \in row.objs |-> TRUE], tag |-> row.tag, merged |-> FALSE, auto |-> FALSE,
              warned |-> FALSE, touched |-> FALSE, sent |-> FALSE]

\* WizardStepPickSli: an SLO without an SLI is given one whose indicators
\* overlap its objectives, once the list is there.
AutoSelected(w, edit, list) ==
    LET fits == {s \in Slis : list[s] # 0 /\ RowsOf(s, list[s]) \cap EditedRow(edit).objs # {}}
        sli == CHOOSE s \in fits : TRUE
        inds == RowsOf(sli, list[sli])
    IN  IF edit = NULL \/ w.auto \/ w.sli # NULL \/ list = NULL THEN w
        ELSE IF fits = {} THEN w
        ELSE [w EXCEPT !.auto = TRUE, !.sli = sli, !.ver = list[sli], !.inds = inds,
                       !.rows = MergedRows(@, inds)]

\* The merge effect: once, in edit mode, with the first detail of the SLI.
Merged(w, edit, details) ==
    IF edit = NULL \/ w.merged \/ w.sli = NULL \/ details[w.sli] = 0 THEN w
    ELSE LET inds == RowsOf(w.sli, details[w.sli])
         IN  [w EXCEPT !.merged = TRUE, !.ver = details[w.sli], !.inds = inds,
                       !.rows = MergedRows(@, inds)]

\* The effects after a render with the cached answers.
Settle(w, edit, list, details) ==
    IF w = NULL THEN NULL ELSE Merged(AutoSelected(w, edit, list), edit, details)

\* handlePickSliChange: an SLI without indicators leaves the rows alone.
Picked(w, sli) ==
    LET inds == RowsOf(sli, listed[sli])
    IN  [w EXCEPT !.sli = sli, !.ver = listed[sli], !.inds = inds, !.touched = TRUE,
                  !.rows = IF inds = {} THEN @ ELSE MergedRows(@, inds)]

\* The step shows the criteria of the methods instead of the rows once the
\* SLI is known to be aggregated.
KnownAggregated(w) ==
    w.sli # NULL /\ detailed[w.sli] # 0 /\ slis[w.sli][detailed[w.sli]].mode = "aggregated"

RowsShown(w) ==
    /\ IF page.edit # NULL THEN DOMAIN w.rows # {} ELSE w.inds # {}
    /\ ~KnownAggregated(w)

Checked(w) == {i \in DOMAIN w.rows : w.rows[i]}

WizardKind == IF page.edit # NULL THEN EditedRow(page.edit).kind ELSE page.kind

IsValid(w) == w.name # NULL /\ Checked(w) # {}

\* doSubmit. The tags are those of the version that is edited.
WizardBody ==
    [name |-> wizard.name, sli |-> wizard.sli, ver |-> wizard.ver,
     objs |-> Checked(wizard), kind |-> WizardKind, group |-> NULL, tag |-> wizard.tag]

-----------------------------------------------------------------------------
(* Cached answers and navigation.                                          *)

\* What stays mounted, and its effects, when the page's answers change.
Answers(list, details) ==
    /\ listed' = list /\ detailed' = details
    /\ wizard' = Settle(wizard, page.edit, list, details)

FetchList ==
    /\ Act("fetch")
    /\ Answers([s \in Slis |-> Latest(slis[s])], detailed)
    /\ UNCHANGED <<registryVars, seen, page, txns>>

\* The detail is asked for while an SLI is picked; a deleted SLI is not found
\* and the cached detail stays.
FetchDetail ==
    /\ Act("fetch")
    /\ wizard # NULL /\ wizard.sli # NULL /\ Latest(slis[wizard.sli]) # 0
    /\ Answers(listed, [detailed EXCEPT ![wizard.sli] = Latest(slis[wizard.sli])])
    /\ UNCHANGED <<registryVars, seen, page, txns>>

FetchSlo(name) ==
    /\ Act("fetch")
    /\ Latest(slos[name]) # 0 /\ seen' = [seen EXCEPT ![name] = Latest(slos[name])]
    /\ UNCHANGED <<registryVars, listed, detailed, page, wizard, txns>>


\* handleSelect, handleNavigate and handleModeChange: the wizard closes, what
\* it edits is remembered. The view of a group keeps its open form.
Select(node) ==
    /\ Act("select")
    /\ page' = [page EXCEPT !.view = node]
    /\ wizard' = NULL
    /\ UNCHANGED <<registryVars, listed, detailed, seen, txns>>

\* handleCreateAction: the wizard may be open already, then it stays mounted.
CreateSlo(kind) ==
    /\ Act("wizard")
    /\ page' = [page EXCEPT !.kind = kind, !.edit = NULL]
    /\ wizard' = IF wizard # NULL THEN wizard ELSE MountedWizard(NULL)
    /\ UNCHANGED <<registryVars, listed, detailed, seen, txns>>

\* handleNewSloVersion, from the detail view: the version that is cached.
NewSloVersion(name) ==
    /\ Act("wizard")
    /\ wizard = NULL /\ seen[name] # 0
    /\ LET edit == [name |-> name, ver |-> seen[name]]
       IN  /\ page' = [page EXCEPT !.edit = edit]
           /\ wizard' = Settle(MountedWizard(edit), edit, listed, detailed)
    /\ UNCHANGED <<registryVars, listed, detailed, seen, txns>>

CloseWizard ==
    /\ Act("wizard")
    /\ wizard # NULL /\ wizard' = NULL /\ page' = [page EXCEPT !.edit = NULL]
    /\ UNCHANGED <<registryVars, listed, detailed, seen, txns>>

EditWizard(w) ==
    /\ Act("wizard")
    /\ wizard # NULL
    /\ wizard' = Settle(w, page.edit, listed, detailed)
    /\ UNCHANGED <<registryVars, listed, detailed, seen, page, txns>>

EnterName(name) == page.edit = NULL /\ EditWizard([wizard EXCEPT !.name = name])

PickSli(sli) ==
    listed # NULL /\ listed[sli] # 0 /\ wizard.name # NULL /\ EditWizard(Picked(wizard, sli))

ToggleRow(i) ==
    /\ RowsShown(wizard) /\ i \in DOMAIN wizard.rows
    /\ EditWizard([wizard EXCEPT !.rows[i] = ~@, !.touched = TRUE])

\* handleSubmit: a template without $__gen_ variables asks first.
Submit ==
    /\ Act("wizard")
    /\ wizard # NULL /\ IsValid(wizard) /\ txns["page"] = NULL
    /\ \/ /\ WizardKind = "template" /\ ~wizard.warned
          /\ wizard' = [wizard EXCEPT !.warned = TRUE] /\ UNCHANGED txns
       \/ /\ txns' = [txns EXCEPT !["page"] = [body |-> WizardBody, base |-> NULL,
                                               edit |-> IF wizard.touched THEN NULL ELSE page.edit]]
          /\ wizard' = [wizard EXCEPT !.warned = FALSE, !.sent = TRUE]
    /\ UNCHANGED <<registryVars, listed, detailed, seen, page>>

-----------------------------------------------------------------------------
(* Creates on the server.                                                  *)

\* The other user posts an SLO of their own.
PostSlo(body) ==
    /\ Act("other")
    /\ txns["other"] = NULL
    /\ txns' = [txns EXCEPT !["other"] = [body |-> body, base |-> NULL, edit |-> NULL]]
    /\ UNCHANGED <<registryVars, listed, detailed, seen, page, wizard>>

Open(who) == txns[who] # NULL

\* create_slo_definition: the checks and the read of the highest version.
ReadVersion(who) ==
    /\ Open(who) /\ txns[who].base = NULL /\ Accepts(txns[who].body)
    /\ txns' = [txns EXCEPT ![who].base = Len(slos[txns[who].body.name])]
    /\ UNCHANGED <<registryVars, listed, detailed, seen, page, wizard, scene, moves>>

\* The insert and the commit; onSuccess closes the wizard that sent it, if that is
\* still open.
Commit(who) ==
    /\ Open(who) /\ txns[who].base # NULL
    /\ slos' \in Inserted(txns[who].body, txns[who].base)
    /\ txns' = [txns EXCEPT ![who] = NULL]
    /\ IF who = "page" /\ wizard # NULL /\ wizard.sent
       THEN wizard' = NULL /\ page' = [page EXCEPT !.edit = NULL]
       ELSE UNCHANGED <<wizard, page>>
    /\ UNCHANGED <<slis, groups, assigned, allotted, listed, detailed, seen, scene, moves>>

\* A refused create: the wizard stays open with an error.
Refuse(who) ==
    /\ Open(who)
    /\ \/ txns[who].base = NULL /\ ~Accepts(txns[who].body)
       \/ txns[who].base # NULL /\ Inserted(txns[who].body, txns[who].base) = {}
    /\ txns' = [txns EXCEPT ![who] = NULL]
    /\ UNCHANGED <<registryVars, listed, detailed, seen, page, wizard, scene, moves>>

\* The response of a committed create is lost: the wizard stays open and the
\* same create can be sent again.
LoseResponse ==
    /\ Act("lose")
    /\ Open("page") /\ txns["page"].base # NULL
    /\ slos' \in Inserted(txns["page"].body, txns["page"].base)
    /\ txns' = [txns EXCEPT !["page"] = NULL]
    /\ UNCHANGED <<slis, groups, assigned, allotted, listed, detailed, seen, page, wizard>>

DeactivateSlo(name) ==
    /\ Act("other")
    /\ Latest(slos[name]) # 0
    /\ slos' = [slos EXCEPT ![name] = Deactivated(@)]
    /\ UNCHANGED <<slis, groups, assigned, allotted, listed, detailed, seen, page, wizard, txns>>

-----------------------------------------------------------------------------
(* SLIs.                                                                   *)

\* SliForm stays mounted: it is reset to the SLI that is edited, and left as it
\* was for a new one. The reset after a submit gives back the fields that the
\* last edit filled in. An aggregated SLI is sent with its query template only.
EmptySli == [name |-> NULL, mode |-> "raw", inds |-> << >>, template |-> FALSE]

FormOf(sli) ==
    LET def == slis[sli][Latest(slis[sli])]
    IN  [name |-> sli, mode |-> def.mode, inds |-> def.inds,
         template |-> def.mode = "aggregated" /\ Names(def.inds) = {}]

SliForm(open, form, base) ==
    /\ Act("sli")
    /\ page' = [page EXCEPT !.sli = [open |-> open, form |-> form, base |-> base]]
    /\ UNCHANGED <<listed, detailed, seen, wizard, txns>>

NewSli == ~page.sli.open /\ SliForm(TRUE, page.sli.form, page.sli.base) /\ UNCHANGED registryVars

NewSliVersion(sli) ==
    /\ ~page.sli.open /\ Latest(slis[sli]) # 0
    /\ SliForm(TRUE, FormOf(sli), FormOf(sli)) /\ UNCHANGED registryVars

EditSli(form) == page.sli.open /\ SliForm(TRUE, form, page.sli.base) /\ UNCHANGED registryVars

CloseSliForm == page.sli.open /\ SliForm(FALSE, page.sli.form, page.sli.base) /\ UNCHANGED registryVars

SliCreated(sli, mode, inds, template) ==
    /\ ValidSli(mode, inds, template)
    /\ slis' = [slis EXCEPT ![sli] = Append(@, SliRow(mode, inds, Len(@)))]
    /\ UNCHANGED <<slos, groups, assigned, allotted>>

SubmitSli ==
    LET f == page.sli.form
        base == page.sli.base
    IN  /\ page.sli.open /\ f.name # NULL
        /\ SliForm(FALSE, [f EXCEPT !.name = base.name, !.inds = base.inds], base)
        /\ SliCreated(f.name, f.mode, IF f.mode = "raw" THEN f.inds ELSE << >>,
                      f.mode = "aggregated" /\ f.template)

PostSli(sli, content) ==
    /\ Act("other")
    /\ SliCreated(sli, content.mode, content.inds, content.mode = "aggregated" /\ Names(content.inds) = {})
    /\ UNCHANGED <<listed, detailed, seen, page, wizard, txns>>

DeactivateSli(sli) ==
    /\ Act("other")
    /\ Latest(slis[sli]) # 0
    /\ slis' = [slis EXCEPT ![sli] = Deactivated(@)]
    /\ UNCHANGED <<slos, groups, assigned, allotted, listed, detailed, seen, page, wizard, txns>>

-----------------------------------------------------------------------------
(* SLO groups: the view of a group and its inline form.                    *)

ShownGroup == IF page.view = NULL THEN 0 ELSE GroupOf(page.view)

\* The view of a group stays mounted when another group is selected: an open
\* form keeps the variables it was opened with.
OpenRegenerate ==
    /\ Act("group")
    /\ ShownGroup # 0
    /\ page' = [page EXCEPT !.regen = [rows |-> groups[ShownGroup].rows, tmplVer |-> NULL]]
    /\ UNCHANGED <<registryVars, listed, detailed, seen, wizard, txns>>

\* The cells, the version picker, and Cancel.
EditRegenerate(form) ==
    /\ Act("group")
    /\ page.regen # NULL
    /\ page' = [page EXCEPT !.regen = form]
    /\ UNCHANGED <<registryVars, listed, detailed, seen, wizard, txns>>

\* The Regenerate button: only what differs from the shown group is sent, and
\* the version of the template without its name.
RegenerateBody ==
    [rows |-> IF page.regen.rows # groups[ShownGroup].rows THEN page.regen.rows ELSE NULL,
     tmpl |-> NULL, tmplVer |-> page.regen.tmplVer]

\* A request about a group has read what it plans by.
Begin(who, plans) ==
    /\ Act("group")
    /\ commands[who] = NULL
    /\ \E plan \in plans : commands' = [commands EXCEPT ![who] = plan]
    /\ UNCHANGED <<registryVars, raced, listed, detailed, seen, page, wizard, txns>>

Regenerate ==
    /\ ShownGroup # 0 /\ page.regen # NULL
    /\ MayRegenerate(ShownGroup, RegenerateBody)
    /\ Begin("page", RegeneratePlans(ShownGroup, RegenerateBody))

DeleteGroup == ShownGroup # 0 /\ Begin("page", {DeletePlan(ShownGroup)})

\* The other user deletes a group too, and sends requests that no view of the
\* page sends: extraction, and an update that names the template.
DropGroup(name) == GroupOf(name) # 0 /\ Begin("other", {DeletePlan(GroupOf(name))})

ExtractSlo(name, slo, copy) ==
    /\ GroupOf(name) # 0 /\ MayExtract(GroupOf(name), slo)
    /\ Begin("other", {ExtractPlan(GroupOf(name), slo, copy)})

Retarget(name) ==
    LET g == GroupOf(name)
        tmpl == groups[g].tmpl.name
        body == [rows |-> NULL, tmpl |-> tmpl, tmplVer |-> Latest(slos[tmpl])]
    IN  g # 0 /\ MayRegenerate(g, body) /\ Begin("other", RegeneratePlans(g, body))

\* Groups two requests meet on: who's request ends, another is under way.
Met(who) ==
    UNION {{commands[who].g, commands[w].g} : w \in {x \in DOMAIN commands \ {who} :
        commands[x] # NULL /\ commands[x].was.name = commands[who].was.name}}

\* The request is committed. On success the view closes the form of a group.
Finish(who) ==
    /\ commands[who] # NULL
    /\ Carried(commands[who])
    /\ commands' = [commands EXCEPT ![who] = NULL]
    /\ raced' = raced \union Met(who)
    /\ page' = IF who = "page" /\ ~commands[who].ends THEN [page EXCEPT !.regen = NULL] ELSE page
    /\ UNCHANGED <<slis, assigned, allotted, listed, detailed, seen, wizard, txns, scene, moves>>

Fail(who) ==
    /\ commands[who] # NULL
    /\ RolledBack(commands[who])
    /\ commands' = [commands EXCEPT ![who] = NULL]
    /\ UNCHANGED <<registryVars, raced, pageVars>>

\* SloGroupForm: the template is the latest version.
CreateGroup(name, tmpl, rows) ==
    /\ Act("group")
    /\ Latest(slos[tmpl]) # 0
    /\ LET t == [name |-> tmpl, ver |-> Latest(slos[tmpl])]
       IN  MayCreateGroup(name, t, rows) /\ GroupCreated(name, t, rows)
    /\ raced' = IF \E w \in DOMAIN commands : commands[w] # NULL /\ commands[w].was.name = name
                THEN raced \union {Len(groups) + 1} ELSE raced
    /\ UNCHANGED <<slis, assigned, allotted, commands, listed, detailed, seen, page, wizard, txns>>

-----------------------------------------------------------------------------
(* Assignments and the tree of the sidebar.                                *)

\* SloLinkDialogRevised: the version of the cached list, not a name that the
\* cached assignments of the asset group already hold.
OpenLink(target) ==
    /\ Act("link")
    /\ page' = [page EXCEPT !.link =
          [target |-> target, held |-> {a.slo : a \in {b \in assigned : b.target = target}}]]
    /\ UNCHANGED <<registryVars, listed, detailed, seen, wizard, txns>>

Link(slo, ds) ==
    /\ Act("link")
    /\ page.link # NULL /\ seen[slo] # 0 /\ slo \notin page.link.held
    /\ assigned' \in Upserted(page.link.target, slo, seen[slo], ds)
    /\ page' = [page EXCEPT !.link = NULL]
    /\ UNCHANGED <<slis, slos, groups, allotted, listed, detailed, seen, wizard, txns>>

Unlink(a) ==
    /\ Act("link")
    /\ assigned' = Unassigned(a.target, a.slo, a.ver)
    /\ UNCHANGED <<slis, slos, groups, allotted, listed, detailed, seen, page, wizard, txns>>

AssignAsset(asset, slo, ds) ==
    /\ Act("link")
    /\ Latest(slos[slo]) # 0 /\ assigned' \in Upserted(asset, slo, Latest(slos[slo]), ds)
    /\ UNCHANGED <<slis, slos, groups, allotted, listed, detailed, seen, page, wizard, txns>>

AllotGroup(asset, name, ds) ==
    /\ Act("link")
    /\ GroupOf(name) # 0
    /\ allotted' = {x \in allotted : ~(x.target = asset /\ x.group = GroupOf(name))}
                   \union {[target |-> asset, group |-> GroupOf(name), ds |-> ds]}
    /\ UNCHANGED <<slis, slos, groups, assigned, listed, detailed, seen, page, wizard, txns>>

\* buildSloGroupMap: by the tag every generated version carries; the list of
\* SLOs holds their latest active versions.
SloGroupMap(name) ==
    {n \in Slos : Latest(slos[n]) # 0 /\ slos[n][Latest(slos[n])].tag = name}

AssetBindings_NoExpansion(asset) ==
    {<<a.slo, a.ds>> : a \in {b \in assigned : b.target = asset}}
    \union {<<groups[x.group].name, x.ds>> : x \in {y \in allotted : y.target = asset}}

\* mergeBindings, for one asset: its own assignments and those of SLO groups.
AssetBindings(asset) ==
    {<<a.slo, a.ds>> : a \in {b \in assigned : b.target = asset}}
    \union UNION {IF SloGroupMap(groups[x.group].name) = {} THEN {<<groups[x.group].name, x.ds>>}
                  ELSE SloGroupMap(groups[x.group].name) \X {x.ds} :
                  x \in {y \in allotted : y.target = asset}}

GroupBindings(group) == {<<a.slo, a.ds>> : a \in {b \in assigned : b.target = group}}

\* buildAssetTree: the nodes of the groups below the roots, with their members
\* and the bindings of each member.
TreeGroups ==
    LET below[k \in 0..Cardinality(DOMAIN Member)] ==
          IF k = 0 THEN Roots ELSE below[k - 1] \union UNION {Subgroups[g] : g \in below[k - 1]}
    IN  below[Cardinality(DOMAIN Member)]

\* Every group is below a group without a parent.
ASSUME TreeAssumption == TreeGroups = DOMAIN Member

TreeBindings ==
    UNION {UNION {{<<asset, b[1], b[2]>> : b \in AssetBindings(asset) \union GroupBindings(g)} :
                  asset \in Member[g]} : g \in TreeGroups}

-----------------------------------------------------------------------------
Init ==
    /\ scene \in Scenes
    /\ slis = scene.slis /\ slos = scene.slos
    /\ groups = scene.groups /\ assigned = {} /\ allotted = {}
    /\ listed = NULL /\ detailed = [s \in Slis |-> 0] /\ seen = [n \in Slos |-> 0]
    /\ page = [kind |-> "standard", edit |-> NULL, view |-> NULL, regen |-> NULL, link |-> NULL,
               sli |-> [open |-> FALSE, form |-> EmptySli, base |-> EmptySli]]
    /\ wizard = NULL
    /\ txns = [who \in {"page", "other"} |-> NULL]
    /\ commands = [who \in {"page", "other"} |-> NULL] /\ raced = {}
    /\ moves = 0

Fetches == FetchList \/ FetchDetail \/ \E n \in scene.names : FetchSlo(n)

Wizard ==
    \/ \E k \in {"standard", "template"} : CreateSlo(k)
    \/ \E n \in scene.names : NewSloVersion(n) \/ (wizard # NULL /\ EnterName(n))
    \/ CloseWizard \/ Submit
    \/ wizard # NULL /\ \E s \in Slis : PickSli(s)
    \/ wizard # NULL /\ \E i \in DOMAIN wizard.rows : ToggleRow(i)

Forms ==
    \/ NewSli \/ CloseSliForm \/ SubmitSli
    \/ \E s \in Slis : NewSliVersion(s)
    \/ \E s \in Slis, c \in scene.contents, template \in BOOLEAN :
          EditSli([name |-> s, mode |-> c.mode, inds |-> c.inds, template |-> template])

GroupViews ==
    \/ \E n \in GroupNames : Select(n)
    \/ OpenRegenerate
    \/ \E rows \in (SUBSET Rows) \ {{}}, v \in {1, 2} :
          EditRegenerate([rows |-> rows, tmplVer |-> v])
    \/ EditRegenerate(NULL)

Commands ==
    \/ Regenerate \/ DeleteGroup
    \/ \E n \in GroupNames : Retarget(n) \/ DropGroup(n)
    \/ \E g \in GroupNames, n \in Slos, copy \in scene.names : ExtractSlo(g, n, copy)
    \/ \E who \in DOMAIN commands : Finish(who) \/ Fail(who)
    \/ \E n \in GroupNames, t \in scene.names, rows \in SUBSET Rows : CreateGroup(n, t, rows)

Links ==
    \/ \E g \in DOMAIN Member : OpenLink(g)
    \/ \E n \in scene.names, d \in Sources : Link(n, d) \/ \E x \in Assets : AssignAsset(x, n, d)
    \/ \E x \in Assets, g \in GroupNames, d \in Sources : AllotGroup(x, g, d)
    \/ \E x \in assigned : Unlink(x)

Other ==
    \/ \E b \in scene.posts : PostSlo(b)
    \/ \E n \in scene.others : DeactivateSlo(n)
    \/ \E s \in Slis : DeactivateSli(s) \/ \E c \in scene.contents : PostSli(s, c)

Quiet ==
    \/ Fetches \/ Wizard \/ Forms \/ GroupViews \/ Links \/ Other \/ LoseResponse
    \/ \E who \in DOMAIN txns : ReadVersion(who) \/ Commit(who) \/ Refuse(who)

Next == (Quiet /\ UNCHANGED groupTxns) \/ Commands

Spec == Init /\ [][Next]_vars

-----------------------------------------------------------------------------
(* Properties.                                                             *)

\* What the wizard submits for a raw SLI passes the checks of the API: ticks,
\* indicators and SLI version fit each other, whichever of the cached list,
\* the cached detail and the edited SLO came first and however old they are. A
\* new version that is submitted as the wizard filled it in has exactly the
\* objectives that its SLI version still has.
WizardSubmitsSound ==
    LET body == txns["page"].body
        edited == EditedRow(txns["page"].edit)
    IN  Open("page") /\ body.sli # NULL /\ slis[body.sli][body.ver].mode = "raw" =>
            /\ Accepts(body)
            /\ txns["page"].edit # NULL /\ edited.sli # NULL =>
                  body.objs = edited.objs \cap RowsOf(body.sli, body.ver)

\* The tree knows the SLOs of a group by their tag. A generated SLO that is given
\* a newer version without it, which the wizard's edit never does, is lost to it.
StillTagged(c) ==
    slos[c.slo][Latest(slos[c.slo])].tag = groups[slos[c.slo][c.ver].group].name

\* The tree of the sidebar shows, below the asset, every SLO and data source
\* that a trigger would resolve for it, from each kind of assignment it reads,
\* the generated ones as long as they are still tagged.
BindingsShown ==
    \A x \in UNION {Member[g] : g \in DOMAIN Member} : \A c \in Resolved(x) :
        (c.rank = 1 => StillTagged(c)) => <<x, c.slo, c.ds>> \in TreeBindings
=============================================================================
