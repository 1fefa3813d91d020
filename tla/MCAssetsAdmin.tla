--------------------------- MODULE MCAssetsAdmin ---------------------------
(***************************************************************************)
(* Three groups, two assets, two types. The scenes: groups moved by one    *)
(* user who may look at an old tree; groups edited beside another user;    *)
(* creating and deleting in a tree with two parents; members; assets;      *)
(* types.                                                                  *)
(***************************************************************************)
EXTENDS AssetsAdmin

MCRank == [g \in {"a", "b", "c"} |-> IF g = "a" THEN 1 ELSE IF g = "b" THEN 2 ELSE 3]

Empty ==
    [types |-> {"vm", "db"}, default |-> "vm", typeOf |-> [x \in {"x1", "x2"} |-> "vm"],
     groups |-> {"a", "b", "c"}, links |-> {<<"a", "b">>}, members |-> {<<"b", "x1">>},
     acts |-> {}, others |-> {}, moves |-> 0]

Moved == [Empty EXCEPT !.acts = {"dialog", "serve", "fetch"}, !.moves = 9]

Edited ==
    [Empty EXCEPT !.acts = {"dialog", "serve", "fetch", "select", "other"}, !.moves = 6,
       !.others = {<<"deleteGroup", "a">>, <<"addMember", "b", "x2">>, <<"addSubgroup", "c", "b">>,
                   <<"addSubgroup", "b", "a">>, <<"removeSubgroup", "a", "b">>}]

Created ==
    [Empty EXCEPT !.groups = {"a", "b"}, !.acts = {"dialog", "serve", "lose", "other"}, !.moves = 7,
       !.others = {<<"deleteGroup", "a">>}]

Joined ==
    [Empty EXCEPT !.acts = {"member", "serve", "fetch", "select", "other", "asset"}, !.moves = 5,
       !.others = {<<"deleteGroup", "b">>, <<"deleteAsset", "x2">>}]

Assigned ==
    [Empty EXCEPT !.typeOf = [x \in {"x1", "x2"} |-> IF x = "x1" THEN "vm" ELSE "db"],
       !.acts = {"asset", "serve", "fetch", "other"}, !.moves = 7,
       !.others = {<<"updateAsset", "x1", "db">>, <<"deleteType", "vm">>}]

Typed ==
    [Empty EXCEPT !.typeOf = [x \in {"x1", "x2"} |-> NULL], !.members = {},
       !.acts = {"types", "serve", "fetch", "other"}, !.moves = 7,
       !.others = {<<"setDefault", "db">>, <<"deleteType", "db">>, <<"renameType", "db", "os">>,
                   <<"createAsset", "x2", "db">>, <<"deleteType", "vm">>}]

MCScenes == {Moved, Edited, Created, Joined, Assigned, Typed}
=============================================================================
