----------------------------- MODULE AssetGroups -----------------------------
(***************************************************************************)
(* The API's tables of asset types, assets, asset groups, memberships and  *)
(* links between groups, with the constraints that the database keeps. A   *)
(* request is one transaction and is modelled as one step, except that     *)
(* making a type the default reads the type first and writes later.        *)
(***************************************************************************)
EXTENDS Integers, FiniteSets

CONSTANTS
    NULL,
    Types,          \* names of asset types
    Assets,         \* names of assets
    Evaluated,      \* assets that evaluations refer to
    Groups          \* names of asset groups

VARIABLES
    types,          \* the types there are
    default,        \* the type marked as the default, or NULL
    defaulting,     \* the transaction that sets the default: the name it was
                    \* given and what its row is called now (NULL: deleted)
    typeOf,         \* typeOf[asset], NULL while there is no such asset
    groups,         \* the groups there are
    spent,          \* names of groups used so far; a name is used once (bound)
    links,          \* <<parent, child>> pairs of groups
    members,        \* <<group, asset>> pairs
    defaultGone,    \* history: the default was deleted, or a type renamed
                    \* while it was being made the default
    unguarded       \* history: a link was added by a choice from an old tree,
                    \* or among groups of which one has two parents

tableVars == <<types, default, defaulting, typeOf, groups, spent, links, members,
               defaultGone, unguarded>>

-----------------------------------------------------------------------------
(* Types.                                                                  *)

\* The foreign key of assets, which also refuses what commits meanwhile.
InUse(t) == \E a \in Assets : typeOf[a] = t

CreateType(t) ==
    /\ t \notin types
    /\ types' = types \union {t}
    /\ UNCHANGED <<default, defaulting, typeOf, groups, spent, links, members, defaultGone, unguarded>>

\* set_default: the row is read first.
BeginDefault(t) ==
    /\ defaulting = NULL
    /\ t \in types
    /\ defaulting' = [name |-> t, row |-> t]
    /\ UNCHANGED <<types, default, typeOf, groups, spent, links, members, defaultGone, unguarded>>

Refreshes_Always(txn) == TRUE

\* Reading the row again at the end fails when it is gone.
Refreshes(txn) == txn.row # NULL

\* Clear every mark, set one by name, read the row again; a failure rolls the
\* transaction back. A row renamed meanwhile is not found by its name.
EndDefault ==
    /\ defaulting # NULL
    /\ defaulting' = NULL
    /\ IF Refreshes(defaulting)
       THEN /\ default' = IF defaulting.name \in types THEN defaulting.name ELSE NULL
            /\ defaultGone' = (defaultGone \/ defaulting.row \notin {defaulting.name, NULL})
       ELSE UNCHANGED <<default, defaultGone>>
    /\ UNCHANGED <<types, typeOf, groups, spent, links, members, unguarded>>

\* What the type of an open set_default is called after a step.
RowNow(t, new) ==
    IF defaulting = NULL THEN NULL
    ELSE [defaulting EXCEPT !.row = IF @ = t THEN new ELSE @]

\* The default is not protected: only the dialog does not offer to delete it.
DeleteType(t) ==
    /\ t \in types
    /\ ~InUse(t)
    /\ types' = types \ {t}
    /\ default' = IF default = t THEN NULL ELSE default
    /\ defaultGone' = (defaultGone \/ default = t)
    /\ defaulting' = RowNow(t, NULL)
    /\ UNCHANGED <<typeOf, groups, spent, links, members, unguarded>>

\* The type's own row is updated first, so the foreign key refuses the name
\* of a type that assets have.
RenameType(old, new) ==
    /\ old \in types
    /\ new \notin types
    /\ ~InUse(old)
    /\ types' = (types \ {old}) \union {new}
    /\ default' = IF default = old THEN new ELSE default
    /\ defaulting' = RowNow(old, new)
    /\ UNCHANGED <<typeOf, groups, spent, links, members, defaultGone, unguarded>>

-----------------------------------------------------------------------------
(* Assets.                                                                 *)

CreateAsset(a, t) ==
    /\ typeOf[a] = NULL
    /\ t \in types
    /\ typeOf' = [typeOf EXCEPT ![a] = t]
    /\ UNCHANGED <<types, default, defaulting, groups, spent, links, members, defaultGone, unguarded>>

UpdateAsset(a, t) ==
    /\ typeOf[a] # NULL
    /\ t \in types
    /\ typeOf' = [typeOf EXCEPT ![a] = t]
    /\ UNCHANGED <<types, default, defaulting, groups, spent, links, members, defaultGone, unguarded>>

DeleteAsset(a) ==
    /\ typeOf[a] # NULL
    /\ a \notin Evaluated
    /\ typeOf' = [typeOf EXCEPT ![a] = NULL]
    /\ members' = {m \in members : m[2] # a}
    /\ UNCHANGED <<types, default, defaulting, groups, spent, links, defaultGone, unguarded>>

-----------------------------------------------------------------------------
(* Groups.                                                                 *)

Children(ls, g) == {c \in Groups : <<g, c>> \in ls}

Parents(ls, g) == {p \in Groups : <<p, g>> \in ls}

\* The groups below g, however deep.
Below(ls, g) ==
    LET down[n \in 0..Cardinality(Groups)] ==
            IF n = 0 THEN Children(ls, g)
            ELSE down[n - 1] \union UNION {Children(ls, c) : c \in down[n - 1]}
    IN  down[Cardinality(Groups)]

OnCycle(ls, g) == g \in Below(ls, g)

Cyclic(ls) == \E g \in Groups : OnCycle(ls, g)

CreateGroup(g) ==
    /\ g \notin groups \union spent
    /\ groups' = groups \union {g}
    /\ spent' = spent \union {g}
    /\ UNCHANGED <<types, default, defaulting, typeOf, links, members, defaultGone, unguarded>>

\* A group is deleted with everything below it; other parents do not save it.
Doomed(g) == {g} \union Below(links, g)

\* Links of deleted groups go with them, on either side.
Cascaded(pairs, gone) == {l \in pairs : l[1] \notin gone /\ l[2] \notin gone}

\* _collect_subgroup_ids follows links without end around a cycle: the
\* request fails. deactivate_slos is ignored.
DeleteGroup(g) ==
    /\ g \in groups
    /\ \A d \in Doomed(g) : ~OnCycle(links, d)
    /\ groups' = groups \ Doomed(g)
    /\ links' = Cascaded(links, Doomed(g))
    /\ members' = {m \in members : m[1] \notin Doomed(g)}
    /\ UNCHANGED <<types, default, defaulting, typeOf, spent, defaultGone, unguarded>>

AddMember(g, a) ==
    /\ g \in groups
    /\ typeOf[a] # NULL
    /\ <<g, a>> \notin members
    /\ members' = members \union {<<g, a>>}
    /\ UNCHANGED <<types, default, defaulting, typeOf, groups, spent, links, defaultGone, unguarded>>

RemoveMember(g, a) ==
    /\ g \in groups
    /\ members' = members \ {<<g, a>>}
    /\ UNCHANGED <<types, default, defaulting, typeOf, groups, spent, links, defaultGone, unguarded>>

\* add_subgroup checks neither for a cycle nor for another parent. known: the
\* links that the caller chose by.
AddSubgroup(p, c, known) ==
    /\ {p, c} \subseteq groups
    /\ <<p, c>> \notin links
    /\ links' = links \union {<<p, c>>}
    /\ unguarded' = (\/ unguarded
                     \/ known # links
                     \/ \E g \in Groups : Cardinality(Parents(links, g)) > 1)
    /\ UNCHANGED <<types, default, defaulting, typeOf, groups, spent, members, defaultGone>>

RemoveSubgroup(p, c) ==
    /\ p \in groups
    /\ links' = links \ {<<p, c>>}
    /\ UNCHANGED <<types, default, defaulting, typeOf, groups, spent, members, defaultGone, unguarded>>
=============================================================================
