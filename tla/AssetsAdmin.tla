---------------------------- MODULE AssetsAdmin ----------------------------
(***************************************************************************)
(* The assets page of the UI over the tables of AssetGroups: the tree of   *)
(* groups, the panel of the selected group, and the dialogs that create,   *)
(* edit and delete groups, assets and asset types. The page works from     *)
(* cached answers, a dialog saves with one request or with two in a row,   *)
(* and another user changes the tables meanwhile.                          *)
(***************************************************************************)
EXTENDS AssetGroups, Sequences

CONSTANTS
    Rank,           \* Rank[group]: its place in the list of groups, by name
    MaxRequests,    \* saves under way at a time (bound)
    Scenes          \* the start, what the users do, and how many moves they make

\* What a request creates has a name.
Named(op) ==
    /\ op[1] = "createType" => op[2] \in Types
    /\ op[1] = "renameType" => op[3] \in Types
    /\ op[1] = "createGroup" => op[2] \in Groups

\* A start has a default type, as the migration that seeds the table leaves it,
\* and no cycle of groups. NULL is no name and no set of links.
ASSUME AdminAssumption ==
    /\ Evaluated \subseteq Assets /\ MaxRequests \in Nat /\ IsFiniteSet(Groups)
    /\ Rank \in [Groups -> Nat]
    /\ NULL \notin Types \union Groups \union Assets
    /\ \A ls \in SUBSET (Groups \X Groups) : NULL # ls
    /\ \A s \in Scenes :
         /\ s.types \subseteq Types /\ s.default \in s.types /\ s.groups \subseteq Groups
         /\ s.links \subseteq s.groups \X s.groups /\ ~Cyclic(s.links)
         /\ \A op \in s.others : Named(op)

VARIABLES
    tree,           \* the cached tree: [groups, links, members], or NULL
    seenTypes,      \* the cached types: [names, default, used], or NULL
    seenAsset,      \* seenAsset[asset]: its cached type, NULL before an answer
    selected,       \* the selected group, or NULL
    dialog,         \* the open dialog, or NULL
    fields,         \* the fields that dialogs keep while they are closed
    requests,       \* saves under way: [by, ops, first, known, was]
    scene, moves

pageVars == <<tree, seenTypes, seenAsset, selected, dialog, fields, requests>>
vars == <<tableVars, pageVars, scene, moves>>

Act(kind) == kind \in scene.acts /\ moves < scene.moves /\ moves' = moves + 1 /\ UNCHANGED scene

-----------------------------------------------------------------------------
(* The tree, and the dialog that edits a group.                            *)

MembersOf(t, g) == {a \in Assets : <<g, a>> \in t.members}

Roots(t) == {g \in t.groups : Parents(t.links, g) = {}}

Offered_AllBelow(t, hidden) ==
    (Roots(t) \union UNION {Below(t.links, r) : r \in Roots(t)}) \ {hidden}

\* GroupTreeSelector: the roots and what is below them, without the hidden
\* group and what is only below it.
Offered(t, hidden) ==
    LET ls == {l \in t.links : hidden \notin {l[1], l[2]}}
        tops == Roots(t) \ {hidden}
    IN  tops \union UNION {Below(ls, r) : r \in tops}

\* A tree in which a root leads into a cycle is unfolded without end.
Unfolds(t) == t # NULL /\ \A r \in Roots(t) : \A g \in Below(t.links, r) : ~OnCycle(t.links, g)

\* The first group of the list that has g as a subgroup.
CurrentParent(t, g) ==
    IF Parents(t.links, g) = {} THEN NULL
    ELSE CHOOSE p \in Parents(t.links, g) : \A q \in Parents(t.links, g) : Rank[p] <= Rank[q]

Edits(d, via) == d # NULL /\ d.kind = "editGroup" /\ d.via = via

\* There are two such dialogs and both stay mounted: the tree's has no group while
\* it is closed, the panel's always has the selected one.
EditTarget(via, d, s) ==
    IF via = "panel" THEN s ELSE IF Edits(d, "tree") THEN d.target ELSE NULL

\* choice is a history: whether the parent was chosen "now", since the dialog was
\* opened, or "before", in an earlier opening that was cancelled.
EmptyEdit == [of |-> NULL, parent |-> NULL, choice |-> "none"]

Filled_Once(f, g, t) ==
    IF g \in t.groups /\ f.of = NULL
    THEN [of |-> g, parent |-> CurrentParent(t, g), choice |-> "none"] ELSE f

\* The effect. It runs whenever the cached group or its parent is another object,
\* and as each one holds dates, every answer brings new objects.
Filled(f, g, t) ==
    IF g \in t.groups
    THEN [of |-> g, parent |-> CurrentParent(t, g), choice |-> "none"] ELSE f

Shown(d) == d # NULL /\ d.kind = "editGroup" /\ d.target \in tree.groups

-----------------------------------------------------------------------------
(* Answers and navigation.                                                 *)

Snapshot == [groups |-> groups, links |-> links, members |-> members]

FetchTree ==
    /\ Act("fetch")
    /\ tree' = Snapshot
    /\ fields' = [fields EXCEPT !.edits =
                    [via \in {"tree", "panel"} |-> Filled(@[via], EditTarget(via, dialog, selected), Snapshot)]]
    /\ UNCHANGED <<tableVars, seenTypes, seenAsset, selected, dialog, requests>>

FetchTypes ==
    /\ Act("fetch")
    /\ seenTypes' = [names |-> types, default |-> default, used |-> {t \in types : InUse(t)}]
    /\ UNCHANGED <<tableVars, tree, seenAsset, selected, dialog, fields, requests>>

EditsAsset(d, a) == d # NULL /\ d.kind = "editAsset" /\ d.target = a

\* The effect of AssetEditDialog: every answer for the asset, another object by its
\* dates, sets the fields. picked is a history: the user has changed the type since.
Loaded(f, d, a, new) ==
    IF EditsAsset(d, a) /\ new # NULL THEN [of |-> a, type |-> new, picked |-> FALSE] ELSE f

FetchAsset(a) ==
    /\ Act("fetch")
    /\ typeOf[a] # NULL
    /\ seenAsset' = [seenAsset EXCEPT ![a] = typeOf[a]]
    /\ fields' = [fields EXCEPT !.edit = Loaded(@, dialog, a, typeOf[a])]
    /\ UNCHANGED <<tableVars, tree, seenTypes, selected, dialog, requests>>

\* A dialog of the panel stays open for the next group; the panel of all
\* assets has none of them.
Retargeted(d, g) ==
    IF d = NULL THEN NULL
    ELSE IF d.via # "panel" THEN d
    ELSE IF g = NULL THEN NULL ELSE [d EXCEPT !.target = g]

\* Its fields: gone with the panel, and filled anew for another group.
EditSelected(f, g) ==
    IF g = NULL THEN EmptyEdit ELSE IF g = selected THEN f ELSE Filled(f, g, tree)

\* A click in the tree or on a subgroup's card; with a dialog open, the
\* browser's Back and Forward.
Select(g) ==
    /\ Act("select")
    /\ selected' = g
    /\ dialog' = Retargeted(dialog, g)
    /\ fields' = [fields EXCEPT !.edits.panel = EditSelected(@, g)]
    /\ UNCHANGED <<tableVars, tree, seenTypes, seenAsset, requests>>

\* Where a dialog can be opened from, and for which group.
Opened(via, g) ==
    /\ dialog = NULL
    /\ Unfolds(tree)
    /\ g \in tree.groups
    /\ IF via = "panel" THEN g = selected ELSE g \in Offered(tree, NULL)

CloseDialog ==
    /\ Act("dialog")
    /\ dialog # NULL
    /\ dialog' = NULL
    /\ UNCHANGED <<tableVars, tree, seenTypes, seenAsset, selected, fields, requests>>

-----------------------------------------------------------------------------
(* Saves. The operations of a save are asked for one after the other; the  *)
(* first that fails ends it and leaves the dialog open.                    *)

\* A button is disabled while its first request is pending, not the second.
Pending(by) ==
    /\ by.kind \notin {"none", "types", "addMember"}
    /\ \E i \in DOMAIN requests : requests[i].by = by /\ requests[i].first

\* known is a history: the links that the user saw at the click.
Send(by, ops) ==
    /\ Len(requests) < MaxRequests
    /\ ~Pending(by)
    /\ requests' = Append(requests,
           [by |-> by, ops |-> ops, first |-> TRUE, was |-> selected, known |-> tree.links])

\* One request of the API.
Perform(op, known) ==
    \/ op[1] = "createType" /\ CreateType(op[2])
    \/ op[1] = "setDefault" /\ BeginDefault(op[2])
    \/ op[1] = "deleteType" /\ DeleteType(op[2])
    \/ op[1] = "renameType" /\ RenameType(op[2], op[3])
    \/ op[1] = "createAsset" /\ CreateAsset(op[2], op[3])
    \/ op[1] = "updateAsset" /\ UpdateAsset(op[2], op[3])
    \/ op[1] = "deleteAsset" /\ DeleteAsset(op[2])
    \/ op[1] = "createGroup" /\ CreateGroup(op[2])
    \/ op[1] = "updateGroup" /\ op[2] \in groups /\ UNCHANGED tableVars
    \/ op[1] = "deleteGroup" /\ DeleteGroup(op[2])
    \/ op[1] = "addMember" /\ AddMember(op[2], op[3])
    \/ op[1] = "removeMember" /\ RemoveMember(op[2], op[3])
    \/ op[1] = "addSubgroup" /\ AddSubgroup(op[2], op[3], known)
    \/ op[1] = "removeSubgroup" /\ RemoveSubgroup(op[2], op[3])

Without(i) == SubSeq(requests, 1, i - 1) \o SubSeq(requests, i + 1, Len(requests))

Emptied == [group |-> [name |-> NULL, parent |-> NULL],
            asset |-> [name |-> NULL, type |-> NULL, group |-> NULL]]

\* What a dialog does when its last request succeeded: it closes the one that
\* is open in its place now. A deleted group is deselected: by the panel in
\* any case, by the tree if it was selected at the click; the panel's dialogs
\* go with the panel.
Deselects(r) == r.by.kind = "deleteGroup" /\ (r.by.via = "panel" \/ r.ops[1][2] = r.was)

ClosedBy(r) ==
    IF dialog = NULL THEN NULL
    ELSE IF dialog.kind # r.by.kind \/ dialog.via # r.by.via THEN dialog
    ELSE IF r.by.kind # "types" THEN NULL
    ELSE [dialog EXCEPT !.op = IF @ = NULL THEN NULL ELSE IF @[1] = r.ops[1][1] THEN NULL ELSE @]

Finish(r) ==
    /\ dialog' = IF Deselects(r) THEN Retargeted(ClosedBy(r), NULL) ELSE ClosedBy(r)
    /\ fields' = IF r.by.kind = "createGroup" THEN [fields EXCEPT !.group = Emptied.group]
                 ELSE IF r.by.kind = "createAsset" THEN [fields EXCEPT !.asset = Emptied.asset]
                 ELSE IF Deselects(r) THEN [fields EXCEPT !.edits.panel = EmptyEdit]
                 ELSE fields
    /\ selected' = IF Deselects(r) THEN NULL ELSE selected

Served(i) ==
    LET r == requests[i] IN
    /\ Perform(r.ops[1], r.known)
    /\ IF Len(r.ops) > 1
       THEN /\ requests' = [requests EXCEPT ![i].ops = Tail(@), ![i].first = FALSE]
            /\ UNCHANGED <<dialog, fields, selected>>
       ELSE requests' = Without(i) /\ Finish(r)

Serve ==
    /\ Act("serve")
    /\ \E i \in DOMAIN requests : Served(i)
    /\ UNCHANGED <<tree, seenTypes, seenAsset>>

\* Refused, or not delivered at all.
Reject ==
    /\ Act("serve")
    /\ \E i \in DOMAIN requests : requests' = Without(i)
    /\ UNCHANGED <<tableVars, tree, seenTypes, seenAsset, selected, dialog, fields>>

\* Committed, but the answer is lost: for the page it failed.
LoseAnswer ==
    /\ Act("lose")
    /\ \E i \in DOMAIN requests :
         Perform(requests[i].ops[1], requests[i].known) /\ requests' = Without(i)
    /\ UNCHANGED <<tree, seenTypes, seenAsset, selected, dialog, fields>>

By(d) == [kind |-> d.kind, via |-> d.via]

-----------------------------------------------------------------------------
(* Dialogs of groups.                                                      *)

\* The tree's dialog gets its group, and so fills its fields; the panel's had it all
\* along, and a parent chosen and cancelled before is still there.
Reopened(via, f, g) ==
    IF via = "tree" THEN Filled(f, g, tree)
    ELSE IF f.choice = "now" THEN [f EXCEPT !.choice = "before"] ELSE f

OpenEditGroup(via, g) ==
    /\ Act("dialog")
    /\ Opened(via, g)
    /\ dialog' = [kind |-> "editGroup", via |-> via, target |-> g]
    /\ fields' = [fields EXCEPT !.edits[via] = Reopened(via, @, g)]
    /\ UNCHANGED <<tableVars, tree, seenTypes, seenAsset, selected, requests>>

ChooseParent(p) ==
    /\ Act("dialog")
    /\ Shown(dialog) /\ Unfolds(tree)
    /\ p \in Offered(tree, dialog.target) \union {NULL}
    /\ fields' = [fields EXCEPT !.edits[dialog.via].parent = p, !.edits[dialog.via].choice = "now"]
    /\ UNCHANGED <<tableVars, tree, seenTypes, seenAsset, selected, dialog, requests>>

\* handleSave: the link to the old parent stays, and no parent asks nothing.
SaveGroup ==
    /\ Act("dialog")
    /\ Shown(dialog)
    /\ LET parent == fields.edits[dialog.via].parent IN
       Send(By(dialog),
            <<<<"updateGroup", dialog.target>>>> \o
            IF parent \in {NULL, CurrentParent(tree, dialog.target)} THEN << >>
            ELSE <<<<"addSubgroup", parent, dialog.target>>>>)
    /\ UNCHANGED <<tableVars, tree, seenTypes, seenAsset, selected, dialog, fields>>

\* A tree dialog has a name and a parent; both outlive a cancel.
OpenCreateGroup(via) ==
    /\ Act("dialog")
    /\ dialog = NULL
    /\ via = "panel" => selected # NULL
    /\ dialog' = [kind |-> "createGroup", via |-> via, target |-> NULL]
    /\ UNCHANGED <<tableVars, tree, seenTypes, seenAsset, selected, fields, requests>>

EnterGroup(g, p) ==
    /\ Act("dialog")
    /\ dialog # NULL /\ dialog.kind = "createGroup" /\ Unfolds(tree)
    /\ p \in Offered(tree, NULL) \union {NULL}
    /\ fields' = [fields EXCEPT !.group = [name |-> g, parent |-> p]]
    /\ UNCHANGED <<tableVars, tree, seenTypes, seenAsset, selected, dialog, requests>>

ConfirmCreateGroup ==
    /\ Act("dialog")
    /\ dialog # NULL /\ dialog.kind = "createGroup"
    /\ fields.group.name # NULL
    /\ Send(By(dialog),
            <<<<"createGroup", fields.group.name>>>> \o
            IF fields.group.parent = NULL THEN << >>
            ELSE <<<<"addSubgroup", fields.group.parent, fields.group.name>>>>)
    /\ UNCHANGED <<tableVars, tree, seenTypes, seenAsset, selected, dialog, fields>>

\* GroupDeleteDialog up to its confirmation.
OpenDeleteGroup(via, g) ==
    /\ Act("dialog")
    /\ Opened(via, g)
    /\ dialog' = [kind |-> "deleteGroup", via |-> via, target |-> g]
    /\ UNCHANGED <<tableVars, tree, seenTypes, seenAsset, selected, fields, requests>>

ConfirmDeleteGroup ==
    /\ Act("dialog")
    /\ dialog # NULL /\ dialog.kind = "deleteGroup"
    /\ dialog.target \in tree.groups
    /\ Send(By(dialog), <<<<"deleteGroup", dialog.target>>>>)
    /\ UNCHANGED <<tableVars, tree, seenTypes, seenAsset, selected, dialog, fields>>

OpenAddMember(via, g) ==
    /\ Act("member")
    /\ Opened(via, g)
    /\ dialog' = [kind |-> "addMember", via |-> via, target |-> g]
    /\ UNCHANGED <<tableVars, tree, seenTypes, seenAsset, selected, fields, requests>>

\* The picker lists the assets that are not in the cached group.
PickMember(a) ==
    /\ Act("member")
    /\ dialog # NULL /\ dialog.kind = "addMember"
    /\ typeOf[a] # NULL /\ a \notin MembersOf(tree, dialog.target)
    /\ Send(By(dialog), <<<<"addMember", dialog.target, a>>>>)
    /\ UNCHANGED <<tableVars, tree, seenTypes, seenAsset, selected, dialog, fields>>

\* From the panel's table or the tree's menu, without a confirmation.
TakeOut(g, a) ==
    /\ Act("member")
    /\ dialog = NULL /\ Unfolds(tree)
    /\ <<g, a>> \in tree.members
    /\ Send([kind |-> "none", via |-> "tree"], <<<<"removeMember", g, a>>>>)
    /\ UNCHANGED <<tableVars, tree, seenTypes, seenAsset, selected, dialog, fields>>

-----------------------------------------------------------------------------
(* Dialogs of assets and types.                                            *)

OpenCreateAsset ==
    /\ Act("asset")
    /\ dialog = NULL
    /\ dialog' = [kind |-> "createAsset", via |-> "page", target |-> NULL]
    /\ UNCHANGED <<tableVars, tree, seenTypes, seenAsset, selected, fields, requests>>

EnterAsset(a, g) ==
    /\ Act("asset")
    /\ dialog # NULL /\ dialog.kind = "createAsset" /\ Unfolds(tree)
    /\ g \in Offered(tree, NULL) \union {NULL}
    /\ \E t \in {NULL} \union (IF seenTypes = NULL THEN {} ELSE seenTypes.names) :
         fields' = [fields EXCEPT !.asset = [name |-> a, type |-> t, group |-> g]]
    /\ UNCHANGED <<tableVars, tree, seenTypes, seenAsset, selected, dialog, requests>>

\* The type picked, or the cached default, or the first one.
EffectiveType(t) ==
    IF t # NULL THEN t
    ELSE IF seenTypes.default # NULL THEN seenTypes.default
    ELSE CHOOSE u \in seenTypes.names : TRUE

ConfirmCreateAsset ==
    /\ Act("asset")
    /\ dialog # NULL /\ dialog.kind = "createAsset"
    /\ seenTypes # NULL
    /\ seenTypes.names # {}
    /\ LET f == fields.asset IN
       /\ f.name # NULL
       /\ Send(By(dialog),
               <<<<"createAsset", f.name, EffectiveType(f.type)>>>> \o
               IF f.group = NULL THEN << >> ELSE <<<<"addMember", f.group, f.name>>>>)
    /\ UNCHANGED <<tableVars, tree, seenTypes, seenAsset, selected, dialog, fields>>

\* The fields stay those of the asset edited before until this one is loaded.
OpenEditAsset(a) ==
    /\ Act("asset")
    /\ dialog = NULL /\ typeOf[a] # NULL
    /\ LET d == [kind |-> "editAsset", via |-> "tree", target |-> a]
       IN  dialog' = d /\ fields' = [fields EXCEPT !.edit = Loaded(@, d, a, seenAsset[a])]
    /\ UNCHANGED <<tableVars, tree, seenTypes, seenAsset, selected, requests>>

PickType(t) ==
    /\ Act("asset")
    /\ dialog # NULL /\ dialog.kind = "editAsset" /\ seenTypes # NULL
    /\ t \in seenTypes.names
    /\ fields' = [fields EXCEPT !.edit.type = t, !.edit.picked = TRUE]
    /\ UNCHANGED <<tableVars, tree, seenTypes, seenAsset, selected, dialog, requests>>

SaveAsset ==
    /\ Act("asset")
    /\ dialog # NULL /\ dialog.kind = "editAsset"
    /\ Send(By(dialog), <<<<"updateAsset", dialog.target, fields.edit.type>>>>)
    /\ UNCHANGED <<tableVars, tree, seenTypes, seenAsset, selected, dialog, fields>>

RemoveAsset(a) ==
    /\ Act("asset")
    /\ dialog = NULL /\ typeOf[a] # NULL
    /\ Send([kind |-> "none", via |-> "tree"], <<<<"deleteAsset", a>>>>)
    /\ UNCHANGED <<tableVars, tree, seenTypes, seenAsset, selected, dialog, fields>>

TypesDialog == [kind |-> "types", via |-> "tree", target |-> NULL, op |-> NULL]

OpenTypes ==
    /\ Act("types")
    /\ dialog = NULL /\ seenTypes # NULL
    /\ dialog' = TypesDialog
    /\ UNCHANGED <<tableVars, tree, seenTypes, seenAsset, selected, fields, requests>>

\* canDelete.
MayAskDelete(t) == t \notin seenTypes.used /\ t # seenTypes.default

\* A row is being deleted or renamed, or a new name typed. (Asking to delete
\* leaves an open rename open; one of the two is confirmed at a time.)
BeginTypeOp ==
    /\ Act("types")
    /\ dialog # NULL /\ dialog.kind = "types"
    /\ \E op \in {<<"createType", new>> : new \in Types}
                 \union {<<"renameType", t, new>> : t \in seenTypes.names, new \in Types}
                 \union {<<"deleteType", t>> : t \in {u \in seenTypes.names : MayAskDelete(u)}} :
         dialog' = [dialog EXCEPT !.op = op]
    /\ UNCHANGED <<tableVars, tree, seenTypes, seenAsset, selected, fields, requests>>

\* A row that is no longer listed cannot be confirmed.
ConfirmTypeOp ==
    /\ Act("types")
    /\ dialog # NULL /\ dialog.kind = "types"
    /\ dialog.op # NULL
    /\ dialog.op[1] # "createType" => dialog.op[2] \in seenTypes.names
    /\ dialog.op[1] = "renameType" => dialog.op[2] # dialog.op[3]
    /\ Send(By(dialog), <<dialog.op>>)
    /\ UNCHANGED <<tableVars, tree, seenTypes, seenAsset, selected, dialog, fields>>

Star(t) ==
    /\ Act("types")
    /\ dialog # NULL /\ dialog.kind = "types"
    /\ t \in seenTypes.names \ {seenTypes.default}
    /\ Send(By(dialog), <<<<"setDefault", t>>>>)
    /\ UNCHANGED <<tableVars, tree, seenTypes, seenAsset, selected, dialog, fields>>

-----------------------------------------------------------------------------

\* The other user, through the API.
Other ==
    /\ Act("other")
    /\ \E op \in scene.others : Perform(op, NULL)
    /\ UNCHANGED pageVars

\* An open set_default ends.
CommitDefault ==
    /\ EndDefault
    /\ UNCHANGED <<pageVars, scene, moves>>

Init ==
    /\ scene \in Scenes
    /\ types = scene.types /\ default = scene.default /\ defaulting = NULL
    /\ typeOf = scene.typeOf
    /\ groups = scene.groups /\ spent = scene.groups
    /\ links = scene.links /\ members = scene.members
    /\ defaultGone = FALSE /\ unguarded = FALSE
    /\ tree = Snapshot
    /\ seenTypes = [names |-> types, default |-> default, used |-> {t \in types : InUse(t)}]
    /\ seenAsset = [a \in Assets |-> NULL]
    /\ selected = NULL /\ dialog = NULL /\ requests = << >>
    /\ fields = [edit |-> [of |-> NULL, type |-> NULL, picked |-> FALSE],
                 edits |-> [via \in {"tree", "panel"} |-> EmptyEdit],
                 group |-> Emptied.group, asset |-> Emptied.asset]
    /\ moves = 0

Answers == FetchTree \/ FetchTypes \/ \E a \in Assets : FetchAsset(a)

GroupDialogs ==
    \/ \E via \in {"tree", "panel"}, g \in Groups :
         OpenEditGroup(via, g) \/ OpenDeleteGroup(via, g) \/ OpenAddMember(via, g)
    \/ \E via \in {"tree", "panel"} : OpenCreateGroup(via)
    \/ \E p \in Groups \union {NULL} : ChooseParent(p) \/ \E g \in Groups : EnterGroup(g, p)
    \/ SaveGroup \/ ConfirmCreateGroup \/ ConfirmDeleteGroup
    \/ \E a \in Assets : PickMember(a) \/ \E g \in Groups : TakeOut(g, a)

AssetDialogs ==
    \/ OpenCreateAsset \/ ConfirmCreateAsset \/ SaveAsset
    \/ \E a \in Assets :
         \/ OpenEditAsset(a) \/ RemoveAsset(a)
         \/ \E g \in Groups \union {NULL} : EnterAsset(a, g)
    \/ \E t \in Types : PickType(t) \/ Star(t)
    \/ OpenTypes \/ BeginTypeOp \/ ConfirmTypeOp

Next ==
    \/ Answers
    \/ \E g \in groups \union {NULL} : Select(g)
    \/ CloseDialog
    \/ GroupDialogs \/ AssetDialogs
    \/ Serve \/ Reject \/ LoseAnswer
    \/ Other \/ CommitDefault

Spec == Init /\ [][Next]_vars

-----------------------------------------------------------------------------

\* There is a default type unless it was deleted itself (the API lets a stale
\* dialog do that) or the type was renamed while it was being made the default
\* (set_default clears every mark and then finds no row of that name).
\* Deleting the type that is about to become the default loses nothing.
DefaultExplained == default = NULL => defaultGone

\* The parent selector never lets a user close a cycle of groups, as long as
\* the tree on screen at the click on Save is still current when the link is added
\* and no group has two parents. (add_subgroup checks nothing, and GroupEditDialog
\* leaves a second parent behind whenever a group is moved. A choice of parent is
\* never older than the tree: every answer takes it back.)
CyclesExplained == Cyclic(links) => unguarded

\* What an open edit dialog shows, and Save would write, whatever is fetched,
\* selected, closed and opened in any order. A group's dialog: that group's own
\* parent, or one that the user chose since the dialog was opened; the panel's
\* dialog also one chosen in an opening before, which a cancel does not take back.
\* An asset's dialog: until the first answer for that asset, fields that are not
\* its own (those of the asset edited last); from then on its cached type, or
\* the one picked since the last answer.
LoadedFieldsOwn ==
    /\ Shown(dialog) =>
         LET f == fields.edits[dialog.via]
         IN  /\ f.of = dialog.target
             /\ f.choice = "none" => f.parent = CurrentParent(tree, dialog.target)
             /\ f.choice = "before" => dialog.via = "panel"
    /\ \A a \in Assets : EditsAsset(dialog, a) =>
         /\ fields.edit.of = a <=> seenAsset[a] # NULL
         /\ fields.edit.of = a /\ ~fields.edit.picked => fields.edit.type = seenAsset[a]
=============================================================================
