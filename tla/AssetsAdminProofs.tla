------------------------- MODULE AssetsAdminProofs -------------------------
(***************************************************************************)
(* Proofs about AssetsAdmin for any groups, assets, types and numbers of   *)
(* saves under way: a lost default type is explained, so is a cycle of     *)
(* groups, and so are the fields of an edit dialog. TableInv and           *)
(* SavesNamed carry the first, CycleInv the second, DialogInv the third.   *)
(***************************************************************************)
EXTENDS AssetsAdmin, SequenceTheorems, FiniteSetTheorems, WellFoundedInduction, TLAPS

-----------------------------------------------------------------------------
(* The inductive invariants.                                               *)

Listed(s) == s \in Seq({s[i] : i \in DOMAIN s})

NamedOps(ops) ==
    Listed(ops) /\ 1 \in DOMAIN ops /\ \A k \in DOMAIN ops : Named(ops[k])

NamedSave(r) ==
    /\ r \in [by: {r.by}, ops: {r.ops}, first: {r.first}, was: {r.was}, known: {r.known}]
    /\ NamedOps(r.ops)

\* Everything asked for creates types and groups under names.
SavesNamed == Listed(requests) /\ \A i \in DOMAIN requests : NamedSave(requests[i])

\* The row that is being made the default is a type or was deleted.
DefaultingKnown ==
    defaulting # NULL =>
        /\ defaulting \in [name: {defaulting.name}, row: {defaulting.row}]
        /\ defaulting.row \in types \union {NULL}

TableInv == types \subseteq Types /\ groups \subseteq Groups /\ DefaultingKnown /\ DefaultExplained

\* What the dialog of types saves.
TypeOp(op) == Named(op) /\ op[1] # "addSubgroup"

\* The fields of a dialog by its kind. The dialogs about assets and types belong
\* to the tree: a selection does not change what they are for.
DialogShape(d) ==
    /\ d.kind = "types" =>
         /\ d \in [kind: {d.kind}, via: {d.via}, target: {d.target}, op: {d.op}]
         /\ d.via = "tree"
         /\ d.op # NULL => TypeOp(d.op)
    /\ d.kind # "types" => d \in [kind: {d.kind}, via: {d.via}, target: {d.target}]
    /\ d.kind = "editAsset" => d.via = "tree"
    /\ d.kind = "editGroup" => d.via \in {"tree", "panel"}

EditFields == [of: Groups \union {NULL}, parent: Groups \union {NULL}, choice: {"none", "now", "before"}]

FieldsShape(f) ==
    f \in [edit: [of: {f.edit.of}, type: {f.edit.type}, picked: {f.edit.picked}],
           edits: [{"tree", "panel"} -> EditFields],
           group: [name: Groups \union {NULL}, parent: {f.group.parent}],
           asset: {f.asset}]

PageShape ==
    /\ dialog # NULL => DialogShape(dialog)
    /\ FieldsShape(fields)
    /\ seenTypes # NULL => seenTypes.names \subseteq Types
    /\ seenAsset = [a \in Assets |-> seenAsset[a]]
    /\ tree.groups \subseteq Groups

OneParentEach(ls) == \A g \in Groups : Cardinality(Parents(ls, g)) <= 1

\* Linking c below p closes no cycle, given links ls in which nothing has two parents.
SafeLink(ls, p, c) == OneParentEach(ls) => p # c /\ p \notin Below(ls, c)

\* The panel's dialog is for the selected group.
PanelFor(d, s) == Edits(d, "panel") => d.target = s

\* The fields f of the dialog via for the group g of the tree t. The parent is the one
\* that g has in t, or linking g below it closes no cycle of t (OneParentEach).
OwnFields(via, f, g, t) ==
    /\ f.of = g
    /\ f.choice = "none" => f.parent = CurrentParent(t, g)
    /\ f.choice = "before" => via = "panel"
    /\ \/ f.parent \in {NULL, CurrentParent(t, g)}
       \/ SafeLink(t.links, f.parent, g)

\* Both dialogs, open or not, have the fields of their groups.
EditsOwn(d, s, es, t) ==
    \A via \in {"tree", "panel"} :
        LET g == EditTarget(via, d, s) IN g \in t.groups => OwnFields(via, es[via], g, t)

\* Only an answer for an asset makes the fields those of that asset.
AssetLoaded ==
    /\ \A a \in Assets : fields.edit.of = a => seenAsset[a] # NULL
    /\ \A a \in Assets : EditsAsset(dialog, a) =>
         /\ seenAsset[a] # NULL => fields.edit.of = a
         /\ fields.edit.of = a /\ ~fields.edit.picked => fields.edit.type = seenAsset[a]

DialogInv ==
    PanelFor(dialog, selected) /\ EditsOwn(dialog, selected, fields.edits, tree) /\ AssetLoaded

AdminInv == TableInv /\ SavesNamed /\ PageShape /\ DialogInv /\ scene \in Scenes

\* Names of groups are used up, and links are between groups there are.
NamesSpent ==
    /\ groups \subseteq spent /\ spent \subseteq Groups /\ links \subseteq groups \X groups
    /\ tree.groups \subseteq spent /\ tree.links \subseteq spent \X spent
    /\ fields.group.parent \in spent \union {NULL}

\* Operation k of a save made by the links known: a link is safe, or it is one to the
\* group that the operation before creates.
SafeOp(ops, k, known) ==
    ops[k][1] = "addSubgroup" =>
      \/ SafeLink(known, ops[k][2], ops[k][3])
      \/ /\ k = 2 /\ ops[1] = <<"createGroup", ops[2][3]>>
         /\ ops[2][2] \in spent /\ known \subseteq spent \X spent

SavesSafe == \A i \in DOMAIN requests : \A k \in DOMAIN requests[i].ops :
                SafeOp(requests[i].ops, k, requests[i].known)

CycleInv == CyclesExplained /\ NamesSpent /\ SavesSafe

-----------------------------------------------------------------------------
(* Sequences of operations and of saves.                                   *)

LEMMA ListedLen ==
  ASSUME NEW s, Listed(s)
  PROVE  Len(s) \in Nat /\ DOMAIN s = 1..Len(s)
BY LenProperties DEF Listed

\* A sequence is listed with its own elements, whatever set it was made over.
LEMMA SeqListed ==
  ASSUME NEW S, NEW s \in Seq(S)
  PROVE  Listed(s)
<1>1. Len(s) \in Nat /\ DOMAIN s = 1..Len(s) /\ s \in [1..Len(s) -> S]
  BY LenProperties
<1> DEFINE T == {s[i] : i \in DOMAIN s}
<1>2. s \in [1..Len(s) -> T]
  BY <1>1
<1> HIDE DEF T
<1>3. s \in UNION {[1..n -> T] : n \in Nat}
  BY <1>1, <1>2
<1>4. s \in Seq(T)
  BY <1>3, SeqDef
<1> QED
  BY <1>4 DEF Listed, T

LEMMA OneOp ==
  ASSUME NEW x, Named(x)
  PROVE  NamedOps(<<x>>)
<1>1. <<x>> \in Seq({x})
  OBVIOUS
<1>2. Listed(<<x>>)
  BY <1>1, SeqListed
<1> QED
  BY <1>2 DEF NamedOps

LEMMA TwoOps ==
  ASSUME NEW x, NEW y, Named(x), Named(y)
  PROVE  NamedOps(<<x>> \o <<y>>)
<1> DEFINE ops == <<x>> \o <<y>>
<1>1. ops \in Seq({x, y}) /\ Len(ops) = 2
  <2>1. <<x>> \in Seq({x, y}) /\ <<y>> \in Seq({x, y}) /\ Len(<<x>>) = 1 /\ Len(<<y>>) = 1
    OBVIOUS
  <2> QED
    BY <2>1, ConcatProperties
<1> HIDE DEF ops
<1>2. Listed(ops)
  BY <1>1, SeqListed
<1>3. \A k \in DOMAIN ops : ops[k] \in {x, y}
  BY <1>1, <1>2, ListedLen, ElementOfSeq
<1>4. 1 \in DOMAIN ops
  BY <1>1, <1>2, ListedLen
<1>5. NamedOps(ops)
  BY <1>2, <1>3, <1>4 DEF NamedOps
<1> QED
  BY <1>5 DEF ops

\* The second operation of a save is asked for only sometimes.
LEMMA MaybeTwoOps ==
  ASSUME NEW x, NEW y, NEW one \in BOOLEAN, Named(x), Named(y)
  PROVE  NamedOps(<<x>> \o IF one THEN << >> ELSE <<y>>)
<1>1. <<x>> \o << >> = <<x>>
  OBVIOUS
<1> QED
  BY <1>1, OneOp, TwoOps

\* The operations of such a save.
LEMMA MaybeTwoElements ==
  ASSUME NEW x, NEW y, NEW one \in BOOLEAN, NEW ops, ops = <<x>> \o IF one THEN << >> ELSE <<y>>
  PROVE  \A k \in DOMAIN ops : \/ k = 1 /\ ops[k] = x
                               \/ k = 2 /\ ~one /\ ops[1] = x /\ ops[2] = y
<1>1. CASE one
  BY <1>1
<1>2. CASE ~one
  <2>1. <<x>> \in Seq({x, y}) /\ <<y>> \in Seq({x, y}) /\ Len(<<x>>) = 1 /\ Len(<<y>>) = 1
    OBVIOUS
  <2>2. ops \in Seq({x, y}) /\ Len(ops) = 2 /\ ops[1] = <<x>>[1] /\ ops[2] = <<y>>[2 - 1]
    BY <1>2, <2>1, ConcatProperties
  <2>3. DOMAIN ops = 1..2
    BY <2>2, LenProperties
  <2>4. ops[1] = x /\ ops[2] = y
    BY <2>2
  <2>5. \A k \in 1..2 : k = 1 \/ k = 2
    OBVIOUS
  <2> QED
    BY <1>2, <2>3, <2>4, <2>5
<1> QED
  BY <1>1, <1>2

LEMMA RestOfOps ==
  ASSUME NEW ops, NamedOps(ops), Len(ops) > 1
  PROVE  /\ NamedOps(Tail(ops))
         /\ \A k \in DOMAIN Tail(ops) : k + 1 \in DOMAIN ops /\ Tail(ops)[k] = ops[k + 1] /\ k \in Nat
<1> DEFINE S == {ops[i] : i \in DOMAIN ops}
<1>1. ops \in Seq(S) /\ ops # << >>
  BY EmptySeq DEF NamedOps, Listed
<1>2. DOMAIN ops = 1..Len(ops) /\ Len(ops) \in Nat
  BY ListedLen DEF NamedOps
<1> HIDE DEF S
<1>3. /\ Tail(ops) \in Seq(S) /\ Len(Tail(ops)) = Len(ops) - 1
      /\ \A i \in 1..Len(Tail(ops)) : Tail(ops)[i] = ops[i + 1]
  BY <1>1, HeadTailProperties
<1>4. Listed(Tail(ops))
  BY <1>3, SeqListed
<1>5. DOMAIN Tail(ops) = 1..Len(Tail(ops))
  BY <1>4, ListedLen
<1> QED
  BY <1>2, <1>3, <1>4, <1>5 DEF NamedOps

LEMMA AppendedElements ==
  ASSUME NEW s, Listed(s), NEW r
  PROVE  /\ Listed(Append(s, r))
         /\ \A k \in DOMAIN Append(s, r) : Append(s, r)[k] = r \/ \E j \in DOMAIN s : Append(s, r)[k] = s[j]
<1> DEFINE S == {s[i] : i \in DOMAIN s} \union {r}
           t == Append(s, r)
<1>1. s \in Seq(S) /\ r \in S
  BY SeqMonotonic DEF Listed
<1>2. DOMAIN s = 1..Len(s) /\ Len(s) \in Nat
  BY ListedLen
<1> HIDE DEF S
<1>3. /\ t \in Seq(S) /\ Len(t) = Len(s) + 1
      /\ \A i \in 1..Len(s) : t[i] = s[i]
      /\ t[Len(s) + 1] = r
  BY <1>1, AppendProperties
<1>4. Listed(t)
  BY <1>3, SeqListed
<1>5. DOMAIN t = 1..Len(s) + 1
  BY <1>3, <1>4, ListedLen
<1> HIDE DEF t
<1>6. \A k \in DOMAIN t : t[k] = r \/ \E j \in DOMAIN s : t[k] = s[j]
  BY <1>2, <1>3, <1>5
<1> QED
  BY <1>4, <1>6 DEF t

\* A save that ended is taken out of the list.
LEMMA WithoutElements ==
  ASSUME Listed(requests), NEW i \in DOMAIN requests
  PROVE  /\ Listed(Without(i))
         /\ \A k \in DOMAIN Without(i) : \E j \in DOMAIN requests : Without(i)[k] = requests[j]
<1> DEFINE S == {requests[k] : k \in DOMAIN requests}
           front == SubSeq(requests, 1, i - 1)
           back == SubSeq(requests, i + 1, Len(requests))
<1>1. DOMAIN requests = 1..Len(requests) /\ Len(requests) \in Nat
  BY ListedLen
<1>2. \A k \in 1..Len(requests) : requests[k] \in S
  BY <1>1
<1>3. \A x \in S : \E j \in DOMAIN requests : x = requests[j]
  OBVIOUS
<1> HIDE DEF S
<1>4. i \in Int /\ i - 1 \in Int /\ i + 1 \in Int /\ Len(requests) \in Int
  BY <1>1
<1>5. front \in Seq(S)
  <2>1. \A k \in 1..(i - 1) : requests[k] \in S
    BY <1>1, <1>2
  <2> QED
    BY <2>1, <1>4, SubSeqProperties
<1>6. back \in Seq(S)
  <2>1. \A k \in (i + 1)..Len(requests) : requests[k] \in S
    BY <1>1, <1>2
  <2> QED
    BY <2>1, <1>4, SubSeqProperties
<1>7. Without(i) \in Seq(S)
  <2>1. Without(i) = front \o back
    BY DEF Without
  <2> HIDE DEF front, back
  <2> QED
    BY <2>1, <1>5, <1>6, ConcatProperties
<1>8. Listed(Without(i))
  BY <1>7, SeqListed
<1>9. \A k \in DOMAIN Without(i) : Without(i)[k] \in S
  BY <1>7, <1>8, ListedLen, ElementOfSeq
<1> QED
  BY <1>3, <1>8, <1>9

LEMMA SaveAppended ==
  ASSUME SavesNamed, NEW r, NamedSave(r), requests' = Append(requests, r)
  PROVE  SavesNamed'
<1>1. /\ Listed(requests')
      /\ \A k \in DOMAIN requests' : requests'[k] = r \/ \E j \in DOMAIN requests : requests'[k] = requests[j]
  BY AppendedElements DEF SavesNamed
<1> QED
  BY <1>1 DEF SavesNamed

LEMMA SaveDropped ==
  ASSUME SavesNamed, NEW i \in DOMAIN requests, requests' = Without(i)
  PROVE  SavesNamed'
<1>1. /\ Listed(requests')
      /\ \A k \in DOMAIN requests' : \E j \in DOMAIN requests : requests'[k] = requests[j]
  BY WithoutElements DEF SavesNamed
<1> QED
  BY <1>1 DEF SavesNamed

\* The first operation of a save has succeeded and the next one is asked for.
LEMMA AdvancedElements ==
  ASSUME SavesNamed, NEW i \in DOMAIN requests, Len(requests[i].ops) > 1,
         requests' = [requests EXCEPT ![i].ops = Tail(@), ![i].first = FALSE]
  PROVE  /\ Listed(requests') /\ DOMAIN requests' = DOMAIN requests
         /\ \A k \in DOMAIN requests : k # i => requests'[k] = requests[k]
         /\ NamedSave(requests'[i])
         /\ requests'[i].ops = Tail(requests[i].ops) /\ requests'[i].known = requests[i].known
<1> DEFINE r == [requests[i] EXCEPT !.ops = Tail(@), !.first = FALSE]
<1>1. NamedSave(requests[i])
  BY DEF SavesNamed
<1>2. /\ r \in [by: {r.by}, ops: {r.ops}, first: {r.first}, was: {r.was}, known: {r.known}]
      /\ r.ops = Tail(requests[i].ops) /\ r.known = requests[i].known
  BY <1>1 DEF NamedSave
<1>3. NamedSave(r)
  BY <1>1, <1>2, RestOfOps DEF NamedSave
<1> DEFINE S == {requests[k] : k \in DOMAIN requests} \union {r}
<1>4. requests \in Seq(S) /\ r \in S
  BY SeqMonotonic DEF SavesNamed, Listed
<1>5. DOMAIN requests = 1..Len(requests)
  BY ListedLen DEF SavesNamed
<1>6. requests' = [requests EXCEPT ![i] = r]
  OBVIOUS
<1> HIDE DEF S, r
<1>7. requests' \in Seq(S) /\ \A k \in 1..Len(requests) : requests'[k] = IF k = i THEN r ELSE requests[k]
  <2>1. /\ [requests EXCEPT ![i] = r] \in Seq(S)
        /\ \A k \in 1..Len(requests) :
             [requests EXCEPT ![i] = r][k] = IF k = i THEN r ELSE requests[k]
    BY <1>4, <1>5, ExceptSeq
  <2> QED
    BY <2>1, <1>6
<1>8. Listed(requests')
  BY <1>7, SeqListed
<1>9. DOMAIN requests' = DOMAIN requests
  BY <1>6
<1> QED
  BY <1>2, <1>3, <1>5, <1>7, <1>8, <1>9

LEMMA SaveAdvanced ==
  ASSUME SavesNamed, NEW i \in DOMAIN requests, Len(requests[i].ops) > 1,
         requests' = [requests EXCEPT ![i].ops = Tail(@), ![i].first = FALSE]
  PROVE  SavesNamed'
BY AdvancedElements DEF SavesNamed

-----------------------------------------------------------------------------
(* The tables.                                                             *)

LEMMA NamesAreNames == NULL \notin Types /\ NULL \notin Groups /\ NULL \notin Assets
BY AdminAssumption

LEMMA TablesStay ==
  ASSUME TableInv, UNCHANGED tableVars
  PROVE  TableInv'
BY DEF TableInv, tableVars, DefaultingKnown, DefaultExplained

LEMMA CreateTypeKeeps ==
  ASSUME TableInv, NEW t \in Types, CreateType(t)
  PROVE  TableInv'
BY DEF TableInv, CreateType, DefaultingKnown, DefaultExplained

LEMMA BeginDefaultKeeps ==
  ASSUME TableInv, NEW t, BeginDefault(t)
  PROVE  TableInv'
<1>1. DefaultingKnown'
  BY DEF TableInv, BeginDefault, DefaultingKnown
<1> QED
  BY <1>1 DEF TableInv, BeginDefault, DefaultExplained

\* A default that set_default does not find by its name was renamed since.
LEMMA EndDefaultKeeps ==
  ASSUME TableInv, EndDefault
  PROVE  TableInv'
<1>1. CASE Refreshes(defaulting)
  <2>1. default' = NULL => defaulting.name \notin types
    BY <1>1, NamesAreNames DEF EndDefault, TableInv
  <2>2. default' = NULL => defaulting.row \notin {defaulting.name, NULL}
    BY <1>1, <2>1 DEF EndDefault, Refreshes, TableInv, DefaultingKnown
  <2> QED
    BY <1>1, <2>2 DEF EndDefault, TableInv, DefaultingKnown, DefaultExplained
<1>2. CASE ~Refreshes(defaulting)
  BY <1>2 DEF EndDefault, TableInv, DefaultingKnown, DefaultExplained
<1> QED
  BY <1>1, <1>2

\* The row of an open set_default follows a rename and a deletion.
LEMMA RowFollows ==
  ASSUME TableInv, NEW old \in types, NEW new, new \in types' \union {NULL},
         types \ {old} \subseteq types', defaulting' = RowNow(old, new)
  PROVE  DefaultingKnown'
<1>1. CASE defaulting = NULL
  BY <1>1 DEF RowNow, DefaultingKnown
<1>2. CASE defaulting # NULL
  <2>1. /\ defaulting \in [name: {defaulting.name}, row: {defaulting.row}]
        /\ defaulting.row \in types \union {NULL}
    BY <1>2 DEF TableInv, DefaultingKnown
  <2> DEFINE d == [defaulting EXCEPT !.row = IF @ = old THEN new ELSE @]
  <2>2. d \in [name: {d.name}, row: {d.row}] /\ d.row = IF defaulting.row = old THEN new ELSE defaulting.row
    BY <2>1
  <2>3. defaulting' = d
    BY <1>2 DEF RowNow
  <2> HIDE DEF d
  <2> QED
    BY <2>1, <2>2, <2>3 DEF DefaultingKnown
<1> QED
  BY <1>1, <1>2

LEMMA DeleteTypeKeeps ==
  ASSUME TableInv, NEW t, DeleteType(t)
  PROVE  TableInv'
<1>1. DefaultingKnown'
  BY RowFollows DEF DeleteType
<1> QED
  BY <1>1 DEF TableInv, DeleteType, DefaultExplained

LEMMA RenameTypeKeeps ==
  ASSUME TableInv, NEW old, NEW new \in Types, RenameType(old, new)
  PROVE  TableInv'
<1>1. DefaultingKnown'
  BY RowFollows DEF RenameType
<1> QED
  BY <1>1, NamesAreNames DEF TableInv, RenameType, DefaultExplained

LEMMA GroupRequestsKeep ==
  ASSUME TableInv,
         \/ \E a, t : CreateAsset(a, t) \/ UpdateAsset(a, t)
         \/ \E a : DeleteAsset(a)
         \/ \E g \in Groups : CreateGroup(g)
         \/ \E g : DeleteGroup(g)
         \/ \E g, a : AddMember(g, a) \/ RemoveMember(g, a)
         \/ \E p, c, known : AddSubgroup(p, c, known)
         \/ \E p, c : RemoveSubgroup(p, c)
  PROVE  TableInv'
<1>1. /\ groups' \subseteq Groups
      /\ UNCHANGED <<types, default, defaulting, defaultGone>>
  BY DEF TableInv, CreateAsset, UpdateAsset, DeleteAsset, CreateGroup, DeleteGroup, AddMember,
         RemoveMember, AddSubgroup, RemoveSubgroup
<1> QED
  BY <1>1 DEF TableInv, DefaultingKnown, DefaultExplained

LEMMA PerformKeeps ==
  ASSUME TableInv, NEW op, Named(op), NEW known, Perform(op, known)
  PROVE  TableInv'
<1>1. CASE op[1] = "createType" /\ CreateType(op[2])
  BY <1>1, CreateTypeKeeps DEF Named
<1>2. CASE op[1] = "setDefault" /\ BeginDefault(op[2])
  BY <1>2, BeginDefaultKeeps
<1>3. CASE op[1] = "deleteType" /\ DeleteType(op[2])
  BY <1>3, DeleteTypeKeeps
<1>4. CASE op[1] = "renameType" /\ RenameType(op[2], op[3])
  BY <1>4, RenameTypeKeeps DEF Named
<1>5. CASE op[1] = "createGroup" /\ CreateGroup(op[2])
  BY <1>5, GroupRequestsKeep DEF Named
<1>6. CASE UNCHANGED tableVars
  BY <1>6, TablesStay
<1> QED
  BY <1>1, <1>2, <1>3, <1>4, <1>5, <1>6, GroupRequestsKeep DEF Perform

-----------------------------------------------------------------------------
(* Recursion over numbers: what a step leads to from a base, n times.      *)

LEMMA LeastNumber ==
  ASSUME NEW T, T \subseteq Nat, T # {}
  PROVE  \E i \in T : \A j \in T : ~(j < i)
<1> DEFINE less == OpToRel(<, Nat)
<1>1. IsWellFoundedOn(less, Nat)
  BY NatLessThanWellFounded
<1> HIDE DEF less
<1>2. PICK i \in T : \A j \in T : ~(<<j, i>> \in less)
  BY <1>1, WFMin
<1> QED
  BY <1>2 DEF less, OpToRel

\* Shortest counterexample: a run of m - 1 steps has one more.
LEMMA Iterated ==
  ASSUME NEW A, NEW base \in A, NEW n \in Nat, NEW step \in [1..n -> [A -> A]]
  PROVE  \E f \in [0..n -> A] : f[0] = base /\ \A k \in 1..n : f[k] = step[k][f[k - 1]]
<1> DEFINE Runs(m, f) == f[0] = base /\ \A k \in 1..m : f[k] = step[k][f[k - 1]]
           T == {m \in 0..n : \A f \in [0..m -> A] : ~Runs(m, f)}
<1>1. SUFFICES ASSUME T # {} PROVE FALSE
  <2>1. n \notin T
    BY <1>1
  <2> QED
    BY <2>1
<1>2. T \subseteq Nat
  OBVIOUS
<1> HIDE DEF T, Runs
<1>3. PICK m \in T : \A j \in T : ~(j < m)
  BY <1>1, <1>2, LeastNumber
<1>4. m \in 0..n
  BY DEF T
<1>5. m # 0
  <2> DEFINE f == [k \in 0..0 |-> base]
  <2>1. f \in [0..0 -> A] /\ Runs(0, f)
    BY DEF Runs
  <2> QED
    BY <2>1 DEF T
<1>6. m - 1 \in 0..n /\ m - 1 \notin T
  BY <1>3, <1>4, <1>5
<1>7. PICK f \in [0..(m - 1) -> A] : Runs(m - 1, f)
  BY <1>6 DEF T
<1> DEFINE g == [k \in 0..m |-> IF k = m THEN step[m][f[m - 1]] ELSE f[k]]
<1>8. f[m - 1] \in A /\ m \in 1..n
  BY <1>4, <1>5
<1>9. step[m] \in [A -> A]
  BY <1>8
<1>10. step[m][f[m - 1]] \in A
  BY <1>8, <1>9
<1>11. g \in [0..m -> A]
  BY <1>10, <1>4, <1>5
<1>12. Runs(m, g)
  BY <1>4, <1>5, <1>7 DEF Runs
<1> QED
  BY <1>11, <1>12 DEF T

-----------------------------------------------------------------------------
(* The groups below a group are the least set that has its children and    *)
(* theirs: BelowLeast, BelowClosed, and what follows from them.            *)

Wider(ls, s) == s \union UNION {Children(ls, c) : c \in s}

LEMMA GroupsCounted == Cardinality(Groups) \in Nat
BY AdminAssumption, FS_CardinalityType

\* The recursion of Below is well defined.
LEMMA BelowByLevels ==
  ASSUME NEW ls, NEW g
  PROVE  \E down \in [0..Cardinality(Groups) -> SUBSET Groups] :
           /\ down[0] = Children(ls, g)
           /\ \A n \in 1..Cardinality(Groups) : down[n] = Wider(ls, down[n - 1])
           /\ Below(ls, g) = down[Cardinality(Groups)]
<1> DEFINE N == Cardinality(Groups)
           A == SUBSET Groups
           step == [k \in 1..N |-> [s \in A |-> Wider(ls, s)]]
<1>1. N \in Nat
  BY GroupsCounted
<1>2. Children(ls, g) \in A /\ \A s \in A : Wider(ls, s) \in A
  BY DEF Children, Wider
<1> HIDE DEF N, A
<1>3. step \in [1..N -> [A -> A]]
  BY <1>2
<1>4. PICK f \in [0..N -> A] : f[0] = Children(ls, g) /\ \A k \in 1..N : f[k] = step[k][f[k - 1]]
  <2> HIDE DEF step
  <2> QED
    BY <1>1, <1>2, <1>3, Iterated
<1>5. \A k \in 1..N : f[k - 1] \in A /\ f[k] = Wider(ls, f[k - 1])
  <2> SUFFICES ASSUME NEW k \in 1..N PROVE f[k - 1] \in A /\ f[k] = Wider(ls, f[k - 1])
    OBVIOUS
  <2>1. f[k - 1] \in A
    BY <1>1
  <2>2. step[k] = [s \in A |-> Wider(ls, s)]
    OBVIOUS
  <2> HIDE DEF step
  <2> QED
    BY <1>4, <2>1, <2>2
<1> HIDE DEF step
<1> DEFINE Levels(d) == [n \in 0..N |-> IF n = 0 THEN Children(ls, g) ELSE Wider(ls, d[n - 1])]
           down == CHOOSE d : d = Levels(d)
<1>6. f = Levels(f)
  BY <1>1, <1>4, <1>5
<1>7. down = Levels(down)
  <2> HIDE DEF Levels
  <2> QED
    BY <1>6
<1>8. Below(ls, g) = down[N]
  BY DEF Below, Wider, N
<1>9. down \in [0..N -> A]
  <2> DEFINE T == {n \in 0..N : down[n] \notin A}
  <2>1. SUFFICES ASSUME T # {} PROVE FALSE
    BY <1>7
  <2>2. T \subseteq Nat
    OBVIOUS
  <2> HIDE DEF T, down
  <2>3. PICK n \in T : \A j \in T : ~(j < n)
    BY <2>1, <2>2, LeastNumber
  <2>4. n \in 0..N /\ down[n] \notin A
    BY DEF T
  <2>5. n # 0
    BY <1>2, <1>7, <2>4
  <2>6. n - 1 \in 0..N /\ n - 1 \notin T
    BY <1>1, <2>3, <2>4, <2>5
  <2> QED
    BY <1>2, <1>7, <2>4, <2>5, <2>6 DEF T
<1> HIDE DEF down
<1>10. down[0] = Children(ls, g) /\ \A n \in 1..N : down[n] = Wider(ls, down[n - 1])
  BY <1>1, <1>7
<1> QED
  BY <1>8, <1>9, <1>10 DEF N, A

\* Below a group there is nothing beyond any set with its children and theirs.
LEMMA BelowLeast ==
  ASSUME NEW ls, NEW g, NEW S, Children(ls, g) \subseteq S,
         \A c \in S : Children(ls, c) \subseteq S
  PROVE  Below(ls, g) \subseteq S
<1> DEFINE N == Cardinality(Groups)
<1>1. N \in Nat
  BY GroupsCounted
<1>2. PICK down \in [0..N -> SUBSET Groups] :
         /\ down[0] = Children(ls, g)
         /\ \A n \in 1..N : down[n] = Wider(ls, down[n - 1])
         /\ Below(ls, g) = down[N]
  BY BelowByLevels
<1> HIDE DEF N
<1> DEFINE T == {n \in 0..N : ~(down[n] \subseteq S)}
<1>3. SUFFICES ASSUME T # {} PROVE FALSE
  BY <1>1, <1>2
<1>4. T \subseteq Nat
  OBVIOUS
<1> HIDE DEF T
<1>5. PICK n \in T : \A j \in T : ~(j < n)
  BY <1>3, <1>4, LeastNumber
<1>6. n \in 0..N /\ ~(down[n] \subseteq S)
  BY DEF T
<1>7. n # 0
  BY <1>2, <1>6
<1>8. n \in 1..N /\ n - 1 \in 0..N /\ n - 1 \notin T
  BY <1>1, <1>5, <1>6, <1>7
<1>9. down[n - 1] \subseteq S
  BY <1>8 DEF T
<1>10. down[n] = Wider(ls, down[n - 1])
  BY <1>2, <1>8
<1>11. Wider(ls, down[n - 1]) \subseteq S
  BY <1>9 DEF Wider
<1> QED
  BY <1>6, <1>10, <1>11

\* Levels grow until one has all children: at the latest when every group is there.
LEMMA BelowClosed ==
  ASSUME NEW ls, NEW g
  PROVE  /\ Below(ls, g) \subseteq Groups /\ Children(ls, g) \subseteq Below(ls, g)
         /\ \A c \in Below(ls, g) : Children(ls, c) \subseteq Below(ls, g)
<1> DEFINE N == Cardinality(Groups)
           Closed(s) == \A c \in s : Children(ls, c) \subseteq s
<1>1. N \in Nat /\ IsFiniteSet(Groups)
  BY GroupsCounted, AdminAssumption
<1>2. PICK down \in [0..N -> SUBSET Groups] :
         /\ down[0] = Children(ls, g)
         /\ \A n \in 1..N : down[n] = Wider(ls, down[n - 1])
         /\ Below(ls, g) = down[N]
  BY BelowByLevels
<1>3. N = Cardinality(Groups)
  OBVIOUS
<1> HIDE DEF N
<1>4. \A n \in 0..N : IsFiniteSet(down[n]) /\ Cardinality(down[n]) \in Nat /\ Cardinality(down[n]) <= N
  <2> SUFFICES ASSUME NEW n \in 0..N
               PROVE  IsFiniteSet(down[n]) /\ Cardinality(down[n]) \in Nat /\ Cardinality(down[n]) <= N
    OBVIOUS
  <2>1. down[n] \in SUBSET Groups
    BY <1>2
  <2> QED
    BY <2>1, <1>1, <1>3, FS_Subset, FS_CardinalityType
<1>5. ASSUME NEW n \in 1..N, ~Closed(down[n])
      PROVE  n - 1 \in 0..N /\ ~Closed(down[n - 1]) /\ Cardinality(down[n - 1]) < Cardinality(down[n])
  <2>1. n - 1 \in 0..N /\ n \in 0..N /\ down[n] = Wider(ls, down[n - 1])
    BY <1>1, <1>2
  <2>2. ~Closed(down[n - 1])
    <3> SUFFICES ASSUME Closed(down[n - 1]) PROVE FALSE
      OBVIOUS
    <3>1. down[n] = down[n - 1]
      BY <2>1 DEF Wider
    <3> QED
      BY <1>5, <3>1
  <2>3. down[n - 1] \subseteq down[n] /\ down[n - 1] # down[n]
    BY <2>1, <2>2 DEF Wider
  <2>4. IsFiniteSet(down[n])
    BY <1>4, <2>1
  <2>5. /\ Cardinality(down[n - 1]) <= Cardinality(down[n])
        /\ Cardinality(down[n]) # Cardinality(down[n - 1])
    BY <2>3, <2>4, FS_Subset
  <2> QED
    BY <1>4, <2>1, <2>2, <2>5
<1> DEFINE T == {n \in 0..N : ~Closed(down[n]) /\ Cardinality(down[n]) < n + 1}
<1>6. T = {}
  <2> SUFFICES ASSUME T # {} PROVE FALSE
    OBVIOUS
  <2>1. T \subseteq Nat
    OBVIOUS
  <2> HIDE DEF T, Closed
  <2>2. PICK n \in T : \A j \in T : ~(j < n)
    BY <2>1, LeastNumber
  <2>3. n \in 0..N /\ ~Closed(down[n]) /\ Cardinality(down[n]) < n + 1
    BY DEF T
  <2>4. CASE n = 0
    <3>1. IsFiniteSet(down[0]) /\ Cardinality(down[0]) = 0
      BY <1>4, <2>3, <2>4
    <3>2. down[0] = {}
      BY <3>1, FS_EmptySet
    <3> QED
      BY <2>3, <2>4, <3>2 DEF Closed
  <2>5. CASE n # 0
    <3>1. n \in 1..N
      BY <1>1, <2>3, <2>5
    <3>2. n - 1 \in 0..N /\ ~Closed(down[n - 1]) /\ Cardinality(down[n - 1]) < Cardinality(down[n])
      BY <1>5, <2>3, <3>1
    <3>3. n - 1 \in T
      BY <1>4, <2>3, <3>1, <3>2 DEF T
    <3> QED
      BY <2>2, <3>1, <3>3
  <2> QED
    BY <2>4, <2>5
<1>7. N \in 0..N /\ Cardinality(down[N]) <= N /\ Cardinality(down[N]) \in Nat
  BY <1>1, <1>4
<1>8. Closed(down[N])
  <2> HIDE DEF Closed
  <2> QED
    BY <1>1, <1>6, <1>7
<1> DEFINE U == {n \in 0..N : ~(down[0] \subseteq down[n])}
<1>9. U = {}
  <2> SUFFICES ASSUME U # {} PROVE FALSE
    OBVIOUS
  <2>1. U \subseteq Nat
    OBVIOUS
  <2> HIDE DEF U
  <2>2. PICK n \in U : \A j \in U : ~(j < n)
    BY <2>1, LeastNumber
  <2>3. n \in 0..N /\ ~(down[0] \subseteq down[n])
    BY DEF U
  <2>4. n # 0
    BY <2>3
  <2>5. n \in 1..N /\ n - 1 \in 0..N /\ n - 1 \notin U
    BY <1>1, <2>2, <2>3, <2>4
  <2>6. down[0] \subseteq down[n - 1]
    BY <2>5 DEF U
  <2>7. down[n] = Wider(ls, down[n - 1])
    BY <1>2, <2>5
  <2> QED
    BY <2>3, <2>6, <2>7 DEF Wider
<1> QED
  BY <1>2, <1>7, <1>8, <1>9

\* Fewer links lead to no more groups.
LEMMA BelowFewer ==
  ASSUME NEW ls, NEW more, ls \subseteq more, NEW g
  PROVE  Below(ls, g) \subseteq Below(more, g)
<1>1. \A c : Children(ls, c) \subseteq Children(more, c)
  BY DEF Children
<1> QED
  BY <1>1, BelowClosed, BelowLeast

\* What is below a group below g is below g.
LEMMA BelowBelow ==
  ASSUME NEW ls, NEW g, NEW h \in Below(ls, g)
  PROVE  Below(ls, h) \subseteq Below(ls, g)
BY BelowClosed, BelowLeast

\* What is below g has a parent that is g or below it.
LEMMA BelowHasParent ==
  ASSUME NEW ls, NEW g \in Groups, NEW d \in Below(ls, g)
  PROVE  \E q \in Parents(ls, d) : q = g \/ q \in Below(ls, g)
<1> DEFINE S == {e \in Below(ls, g) : \E q \in Parents(ls, e) : q = g \/ q \in Below(ls, g)}
<1>1. Below(ls, g) \subseteq Groups /\ Children(ls, g) \subseteq Below(ls, g)
      /\ \A c \in Below(ls, g) : Children(ls, c) \subseteq Below(ls, g)
  BY BelowClosed
<1>2. \A c \in Groups : \A e \in Children(ls, c) : c \in Parents(ls, e)
  BY DEF Children, Parents
<1>3. Children(ls, g) \subseteq S
  BY <1>1, <1>2
<1>4. \A c \in S : Children(ls, c) \subseteq S
  BY <1>1, <1>2
<1> HIDE DEF S
<1>5. Below(ls, g) \subseteq S
  BY <1>3, <1>4, BelowLeast
<1> QED
  BY <1>5 DEF S

LEMMA FewerAcyclic ==
  ASSUME NEW ls, NEW more, ls \subseteq more, ~Cyclic(more)
  PROVE  ~Cyclic(ls)
BY BelowFewer DEF Cyclic, OnCycle

\* A new link closes a cycle only to a group that its parent is, or is below.
LEMMA LinkAcyclic ==
  ASSUME NEW ls, ~Cyclic(ls), NEW p \in Groups, NEW c \in Groups, p # c, p \notin Below(ls, c)
  PROVE  ~Cyclic(ls \union {<<p, c>>})
<1> DEFINE more == ls \union {<<p, c>>}
           Through(g) == IF p = g \/ p \in Below(ls, g) THEN {c} \union Below(ls, c) ELSE {}
<1>1. SUFFICES ASSUME NEW g \in Groups, g \in Below(more, g) PROVE FALSE
  BY DEF Cyclic, OnCycle
<1>2. \A x : Children(more, x) = Children(ls, x) \union (IF x = p THEN {c} ELSE {})
  BY DEF Children
<1>3. \A x : /\ Below(ls, x) \subseteq Groups /\ Children(ls, x) \subseteq Below(ls, x)
             /\ \A y \in Below(ls, x) : Children(ls, y) \subseteq Below(ls, x)
  BY BelowClosed
<1> DEFINE S == Below(ls, g) \union Through(g)
<1> HIDE DEF more
<1>4. Children(more, g) \subseteq S
  BY <1>2, <1>3
<1>5. ASSUME NEW x \in S PROVE Children(more, x) \subseteq S
  <2>1. CASE x \in Below(ls, g)
    BY <2>1, <1>2, <1>3
  <2>2. CASE x \notin Below(ls, g)
    <3>1. (p = g \/ p \in Below(ls, g)) /\ x \in {c} \union Below(ls, c) /\ x # p
      BY <2>2
    <3>2. Children(ls, x) \subseteq Below(ls, c)
      BY <3>1, <1>3
    <3> QED
      BY <1>2, <3>1, <3>2
  <2> QED
    BY <2>1, <2>2
<1>6. Below(more, g) \subseteq S
  <2> HIDE DEF S
  <2> QED
    BY <1>4, <1>5, BelowLeast
<1>7. g \notin Below(ls, g)
  BY DEF Cyclic, OnCycle
<1>8. (p = g \/ p \in Below(ls, g)) /\ g \in {c} \union Below(ls, c)
  BY <1>1, <1>6, <1>7
<1>9. g # c => Below(ls, g) \subseteq Below(ls, c)
  BY <1>8, BelowBelow
<1> QED
  BY <1>8, <1>9

LEMMA OneParent ==
  ASSUME NEW ls, OneParentEach(ls), NEW d \in Groups, NEW q \in Parents(ls, d), NEW r \in Parents(ls, d)
  PROVE  q = r
<1> SUFFICES ASSUME q # r PROVE FALSE
  OBVIOUS
<1>1. Parents(ls, d) \in SUBSET Groups
  BY DEF Parents
<1>2. IsFiniteSet(Parents(ls, d)) /\ Cardinality(Parents(ls, d)) \in Nat
  BY <1>1, AdminAssumption, FS_Subset, FS_CardinalityType
<1>3. IsFiniteSet({q}) /\ Cardinality({q}) = 1
  BY FS_Singleton
<1>4. Cardinality({q} \union {r}) = 2
  BY <1>3, FS_AddElement
<1>5. {q} \union {r} \in SUBSET Parents(ls, d)
  OBVIOUS
<1>6. 2 <= Cardinality(Parents(ls, d))
  BY <1>2, <1>4, <1>5, FS_Subset
<1> QED
  BY <1>2, <1>6 DEF OneParentEach

\* From a root on, the selector goes around the hidden group; in a forest this leads
\* to nothing below it.
LEMMA OfferedSafe ==
  ASSUME NEW t, t.groups \subseteq Groups, NEW c \in Groups, NEW p \in Offered(t, c)
  PROVE  p \in Groups /\ SafeLink(t.links, p, c)
<1> DEFINE ls == t.links
           around == {l \in ls : c \notin {l[1], l[2]}}
           tops == Roots(t) \ {c}
<1>1. p \in tops \/ \E r \in tops : p \in Below(around, r)
  BY DEF Offered
<1>2. \A r \in tops : r \in Groups /\ r # c /\ Parents(ls, r) = {}
  BY DEF Roots
<1>3. \A x, d : d \in Children(around, x) => d # c /\ x # c /\ d \in Groups /\ d \in Children(ls, x)
  BY DEF Children
<1>4. \A x \in Groups : \A d \in Children(ls, x) : x \in Parents(ls, d)
  BY DEF Children, Parents
<1> DEFINE S == {d \in Groups : d # c /\ (OneParentEach(ls) => d \notin Below(ls, c))}
<1> HIDE DEF ls, around, tops
<1>5. tops \subseteq S
  BY <1>2, BelowHasParent
<1>6. ASSUME NEW x \in S, NEW d \in Children(around, x) PROVE d \in S
  <2>1. d \in Groups /\ d # c /\ x \in Groups /\ x # c /\ x \in Parents(ls, d)
    BY <1>3, <1>4, <1>6
  <2>2. SUFFICES ASSUME OneParentEach(ls), d \in Below(ls, c) PROVE FALSE
    BY <2>1
  <2>3. PICK q \in Parents(ls, d) : q = c \/ q \in Below(ls, c)
    BY <2>2, BelowHasParent
  <2>4. q = x
    BY <2>1, <2>2, OneParent
  <2> QED
    BY <2>1, <2>2, <2>3, <2>4
<1>7. ASSUME NEW r \in tops PROVE Below(around, r) \subseteq S
  <2>1. Children(around, r) \subseteq S
    BY <1>5, <1>6
  <2> HIDE DEF S
  <2> QED
    BY <1>6, <2>1, BelowLeast
<1>8. p \in S
  BY <1>1, <1>5, <1>7
<1> QED
  BY <1>8 DEF SafeLink, ls

-----------------------------------------------------------------------------
(* Requests and the links between groups.                                  *)

TablesSpent == groups \subseteq spent /\ spent \subseteq Groups /\ links \subseteq groups \X groups

\* A request keeps the links between groups there are, and explains a cycle it closes.
LEMMA PerformLinks ==
  ASSUME TablesSpent, CyclesExplained, NEW op, Named(op), NEW known, Perform(op, known),
         op[1] = "addSubgroup" => known # links \/ SafeLink(known, op[2], op[3])
  PROVE  TablesSpent' /\ CyclesExplained' /\ spent \subseteq spent'
<1>1. CASE op[1] = "addSubgroup" /\ AddSubgroup(op[2], op[3], known)
  <2> DEFINE p == op[2]
             c == op[3]
  <2>1. /\ p \in groups /\ c \in groups /\ links' = links \union {<<p, c>>}
        /\ UNCHANGED <<groups, spent>>
    BY <1>1 DEF AddSubgroup
  <2>2. unguarded' = (\/ unguarded \/ known # links
                      \/ \E g \in Groups : Cardinality(Parents(links, g)) > 1)
    BY <1>1 DEF AddSubgroup
  <2>3. SafeLink(known, p, c) \/ known # links
    BY <1>1
  <2>4. p \in Groups /\ c \in Groups
    BY <2>1 DEF TablesSpent
  <2> HIDE DEF p, c
  <2>5. TablesSpent' /\ spent \subseteq spent'
    BY <2>1 DEF TablesSpent
  <2>6. ASSUME ~unguarded' PROVE ~Cyclic(links')
    <3>1. ~unguarded /\ known = links /\ ~\E g \in Groups : Cardinality(Parents(links, g)) > 1
      BY <2>2, <2>6
    <3>2. \A g \in Groups : Cardinality(Parents(links, g)) \in Nat
      <4>1. \A g : Parents(links, g) \in SUBSET Groups
        BY DEF Parents
      <4> QED
        BY <4>1, AdminAssumption, FS_Subset, FS_CardinalityType
    <3>3. OneParentEach(links)
      BY <3>1, <3>2 DEF OneParentEach
    <3>4. p # c /\ p \notin Below(links, c)
      BY <2>3, <3>1, <3>3 DEF SafeLink
    <3>5. ~Cyclic(links)
      BY <3>1 DEF CyclesExplained
    <3> QED
      BY <2>1, <2>4, <3>4, <3>5, LinkAcyclic
  <2> QED
    BY <2>5, <2>6 DEF CyclesExplained
<1>2. CASE op[1] # "addSubgroup"
  <2>1. /\ groups' \subseteq spent' /\ spent \subseteq spent' /\ spent' \subseteq Groups
        /\ links' \subseteq links /\ unguarded' = unguarded
    BY <1>2 DEF Perform, TablesSpent, Named, tableVars, CreateType, BeginDefault, DeleteType, RenameType,
       CreateAsset, UpdateAsset, DeleteAsset, CreateGroup, DeleteGroup, AddMember, RemoveMember,
       RemoveSubgroup, Cascaded
  <2>2. links' \subseteq groups' \X groups'
    <3>1. CASE DeleteGroup(op[2])
      BY <3>1 DEF DeleteGroup, Cascaded, TablesSpent
    <3>2. CASE ~DeleteGroup(op[2])
      <4>1. groups \subseteq groups'
        BY <1>2, <3>2 DEF Perform, tableVars, CreateType, BeginDefault, DeleteType, RenameType,
           CreateAsset, UpdateAsset, DeleteAsset, CreateGroup, AddMember, RemoveMember, RemoveSubgroup
      <4> QED
        BY <2>1, <4>1 DEF TablesSpent
    <3> QED
      BY <3>1, <3>2
  <2>3. CyclesExplained'
    BY <2>1, FewerAcyclic DEF CyclesExplained
  <2> QED
    BY <2>1, <2>2, <2>3 DEF TablesSpent
<1> QED
  BY <1>1, <1>2 DEF Perform

-----------------------------------------------------------------------------
(* The effect of the dialog that edits a group.                            *)

LEMMA CurrentParentKnown ==
  ASSUME NEW t, NEW g
  PROVE  CurrentParent(t, g) \in Groups \union {NULL}
<1> DEFINE S == Parents(t.links, g)
           T == {Rank[q] : q \in S}
<1>1. CASE S = {}
  BY <1>1 DEF CurrentParent
<1>2. CASE S # {}
  <2>1. S \subseteq Groups /\ Rank \in [Groups -> Nat]
    BY AdminAssumption DEF Parents
  <2>2. T \subseteq Nat /\ T # {}
    BY <1>2, <2>1
  <2>3. \E i \in T : \A j \in T : ~(j < i)
    <3> HIDE DEF T
    <3> QED
      BY <2>2, LeastNumber
  <2>4. PICK q \in S : \A r \in S : ~(Rank[r] < Rank[q])
    BY <2>3
  <2>5. \A r \in S : Rank[q] <= Rank[r]
    BY <2>1, <2>4
  <2>6. (CHOOSE x \in S : \A r \in S : Rank[x] <= Rank[r]) \in S
    BY <2>5
  <2> QED
    BY <1>2, <2>1, <2>6 DEF CurrentParent
<1> QED
  BY <1>1, <1>2

\* After the effect the fields are those of the group.
LEMMA FilledOwn ==
  ASSUME NEW f \in EditFields, NEW g, NEW t, t.groups \subseteq Groups
  PROVE  /\ Filled(f, g, t) \in EditFields
         /\ g \in t.groups => \A via : OwnFields(via, Filled(f, g, t), g, t)
BY CurrentParentKnown DEF Filled, OwnFields, EditFields

\* The dialog of the tree has no group but while it is open.
LEMMA TargetsStay ==
  ASSUME NEW d, NEW e, NEW s, e # NULL /\ e.kind = "editGroup" => e = d
  PROVE  \A via : EditTarget(via, e, s) \in {NULL, EditTarget(via, d, s)}
BY DEF EditTarget, Edits

LEMMA EditsKept ==
  ASSUME AdminInv, tree' = tree, selected' = selected, fields'.edits = fields.edits,
         dialog' # NULL /\ dialog'.kind = "editGroup" => dialog' = dialog
  PROVE  PanelFor(dialog', selected') /\ EditsOwn(dialog', selected', fields'.edits, tree')
<1>1. PanelFor(dialog, selected) /\ EditsOwn(dialog, selected, fields.edits, tree)
      /\ tree.groups \subseteq Groups
  BY DEF AdminInv, DialogInv, PageShape
<1>2. PanelFor(dialog', selected')
  BY <1>1 DEF PanelFor, Edits
<1>3. \A via : EditTarget(via, dialog', selected') \in {NULL, EditTarget(via, dialog, selected)}
  BY TargetsStay
<1>4. NULL \notin tree.groups
  BY <1>1, NamesAreNames
<1> QED
  BY <1>1, <1>2, <1>3, <1>4 DEF EditsOwn

-----------------------------------------------------------------------------
(* Steps that change one part of the page.                                 *)

\* The dialog and what it shows stay as they are.
LEMMA PageStays ==
  ASSUME AdminInv, UNCHANGED <<tree, seenTypes, seenAsset, selected, dialog, fields>>
  PROVE  PageShape' /\ DialogInv'
BY DEF AdminInv, PageShape, DialogInv, AssetLoaded

LEMMA ScenesStay ==
  ASSUME AdminInv, scene' = scene
  PROVE  scene' \in Scenes
BY DEF AdminInv

LEMMA SavesStay ==
  ASSUME SavesNamed, UNCHANGED requests
  PROVE  SavesNamed'
BY DEF SavesNamed

LEMMA SendKeeps ==
  ASSUME SavesNamed, NEW by, NEW ops, NamedOps(ops), Send(by, ops)
  PROVE  SavesNamed'
<1> DEFINE r == [by |-> by, ops |-> ops, first |-> TRUE, was |-> selected,
                 known |-> tree.links]
<1>1. /\ r \in [by: {r.by}, ops: {r.ops}, first: {r.first}, was: {r.was}, known: {r.known}]
      /\ r.ops = ops
  OBVIOUS
<1>2. requests' = Append(requests, r)
  BY DEF Send
<1>3. NamedSave(r)
  BY <1>1 DEF NamedSave
<1> HIDE DEF r
<1> QED
  BY <1>2, <1>3, SaveAppended

\* A dialog is opened, changed or closed, and nothing else.
LEMMA DialogReplaced ==
  ASSUME AdminInv, UNCHANGED <<tableVars, tree, seenTypes, seenAsset, selected, fields, requests, scene>>,
         dialog' # NULL =>
             /\ DialogShape(dialog')
             /\ dialog'.kind \in {"editAsset", "editGroup"} => dialog' = dialog
  PROVE  AdminInv'
<1>1. TableInv' /\ SavesNamed' /\ scene' \in Scenes
  BY TablesStay, SavesStay DEF AdminInv
<1>2. PageShape'
  BY DEF AdminInv, PageShape
<1>3. PanelFor(dialog', selected') /\ EditsOwn(dialog', selected', fields'.edits, tree')
  BY EditsKept
<1>4. AssetLoaded'
  BY DEF AdminInv, DialogInv, AssetLoaded, EditsAsset
<1> QED
  BY <1>1, <1>2, <1>3, <1>4 DEF AdminInv, DialogInv

\* A save is sent, and nothing else.
LEMMA SaveSent ==
  ASSUME AdminInv, NEW by, NEW ops, NamedOps(ops), Send(by, ops),
         UNCHANGED <<tableVars, tree, seenTypes, seenAsset, selected, dialog, fields, scene>>
  PROVE  AdminInv'
<1>1. TableInv' /\ SavesNamed'
  BY TablesStay, SendKeeps DEF AdminInv
<1> QED
  BY <1>1, PageStays, ScenesStay DEF AdminInv

-----------------------------------------------------------------------------
(* Answers and navigation.                                                 *)

\* Every refetch of the tree fills the fields of both dialogs.
LEMMA TreeFetched ==
  ASSUME AdminInv, FetchTree
  PROVE  AdminInv'
<1> DEFINE s == Snapshot
           es == [via \in {"tree", "panel"} |->
                    Filled(fields.edits[via], EditTarget(via, dialog, selected), s)]
<1>1. tree' = s /\ s.groups = groups /\ fields' = [fields EXCEPT !.edits = es]
  BY DEF FetchTree, Snapshot
<1>2. UNCHANGED <<tableVars, seenTypes, seenAsset, selected, dialog, requests, scene>>
  BY DEF FetchTree, Act
<1>3. s.groups \subseteq Groups
  BY <1>1 DEF AdminInv, TableInv
<1>4. FieldsShape(fields)
  BY DEF AdminInv, PageShape
<1>5. \A via \in {"tree", "panel"} : fields.edits[via] \in EditFields
  BY <1>4 DEF FieldsShape
<1>6. \A via \in {"tree", "panel"} :
         LET g == EditTarget(via, dialog, selected)
         IN  es[via] \in EditFields /\ (g \in s.groups => OwnFields(via, es[via], g, s))
  BY <1>3, <1>5, FilledOwn
<1>7. es \in [{"tree", "panel"} -> EditFields]
  BY <1>6
<1> HIDE DEF s, es
<1>8. FieldsShape(fields') /\ fields'.edit = fields.edit /\ fields'.edits = es
  BY <1>1, <1>4, <1>7 DEF FieldsShape
<1>9. PageShape'
  BY <1>1, <1>2, <1>3, <1>8 DEF AdminInv, PageShape
<1>10. EditsOwn(dialog, selected, es, s)
  BY <1>6 DEF EditsOwn
<1>11. AssetLoaded'
  BY <1>2, <1>8 DEF AdminInv, DialogInv, AssetLoaded
<1>12. DialogInv'
  BY <1>1, <1>2, <1>8, <1>10, <1>11 DEF AdminInv, DialogInv
<1> QED
  BY <1>2, <1>9, <1>12, TablesStay, SavesStay DEF AdminInv

LEMMA TypesFetched ==
  ASSUME AdminInv, FetchTypes
  PROVE  AdminInv'
<1>1. UNCHANGED <<tableVars, tree, seenAsset, selected, dialog, fields, requests, scene>>
  BY DEF FetchTypes, Act
<1>2. seenTypes'.names = types
  BY DEF FetchTypes
<1>3. PageShape'
  BY <1>1, <1>2 DEF AdminInv, PageShape, TableInv
<1>4. DialogInv'
  BY <1>1 DEF AdminInv, DialogInv, AssetLoaded
<1> QED
  BY <1>1, <1>3, <1>4, TablesStay, SavesStay DEF AdminInv

\* The fields of the asset dialog are replaced by others of their kind.
LEMMA EditReplaced ==
  ASSUME FieldsShape(fields), NEW x, x \in [of: {x.of}, type: {x.type}, picked: {x.picked}],
         fields' = [fields EXCEPT !.edit = x]
  PROVE  FieldsShape(fields') /\ fields'.edit = x /\ fields'.edits = fields.edits
BY DEF FieldsShape

LEMMA LoadedShape ==
  ASSUME FieldsShape(fields), NEW d, NEW a, NEW new
  PROVE  LET x == Loaded(fields.edit, d, a, new)
         IN  x \in [of: {x.of}, type: {x.type}, picked: {x.picked}]
BY DEF FieldsShape, Loaded

LEMMA AssetFetched ==
  ASSUME AdminInv, NEW a \in Assets, FetchAsset(a)
  PROVE  AdminInv'
<1> DEFINE x == Loaded(fields.edit, dialog, a, typeOf[a])
<1>1. UNCHANGED <<tableVars, tree, seenTypes, selected, dialog, requests, scene>>
  BY DEF FetchAsset, Act
<1>2. fields' = [fields EXCEPT !.edit = x] /\ seenAsset' = [seenAsset EXCEPT ![a] = typeOf[a]]
      /\ typeOf[a] # NULL
  BY DEF FetchAsset
<1>3. FieldsShape(fields) /\ seenAsset = [b \in Assets |-> seenAsset[b]] /\ AssetLoaded
  BY DEF AdminInv, PageShape, DialogInv
<1>4. x \in [of: {x.of}, type: {x.type}, picked: {x.picked}]
  BY <1>3, LoadedShape
<1>5. EditsAsset(dialog, a) => x.of = a /\ x.type = typeOf[a]
  BY <1>2 DEF Loaded
<1>6. ~EditsAsset(dialog, a) => x = fields.edit
  BY DEF Loaded
<1> HIDE DEF x
<1>7. FieldsShape(fields') /\ fields'.edit = x /\ fields'.edits = fields.edits
  BY <1>2, <1>3, <1>4, EditReplaced
<1>8. PageShape'
  BY <1>1, <1>2, <1>3, <1>7 DEF AdminInv, PageShape
<1>9. seenAsset'[a] = typeOf[a] /\ \A b \in Assets \ {a} : seenAsset'[b] = seenAsset[b]
  BY <1>2, <1>3
<1>10. \A b \in Assets : x.of = b => seenAsset'[b] # NULL
  BY <1>2, <1>3, <1>5, <1>6, <1>9 DEF AssetLoaded
<1>11. ASSUME NEW b \in Assets, EditsAsset(dialog, b)
       PROVE  /\ seenAsset'[b] # NULL => x.of = b
              /\ x.of = b /\ ~x.picked => x.type = seenAsset'[b]
  <2>1. CASE b = a
    BY <1>5, <1>9, <1>11, <2>1
  <2>2. CASE b # a
    <3>1. x = fields.edit
      BY <1>6, <1>11, <2>2 DEF EditsAsset
    <3> QED
      BY <1>3, <1>9, <1>11, <2>2, <3>1 DEF AssetLoaded
  <2> QED
    BY <2>1, <2>2
<1>12. AssetLoaded'
  BY <1>1, <1>7, <1>10, <1>11 DEF AssetLoaded, EditsAsset
<1>13. PanelFor(dialog', selected') /\ EditsOwn(dialog', selected', fields'.edits, tree')
  BY <1>1, <1>7, EditsKept
<1> QED
  BY <1>1, <1>8, <1>12, <1>13, TablesStay, SavesStay DEF AdminInv, DialogInv

\* The panel goes to another group with its dialogs and new fields; the tree's dialogs
\* are not concerned.
LEMMA SelectKeeps ==
  ASSUME AdminInv, NEW g \in Groups \union {NULL}, Select(g)
  PROVE  AdminInv'
<1> DEFINE x == EditSelected(fields.edits["panel"], g)
<1>1. UNCHANGED <<tableVars, tree, seenTypes, seenAsset, requests, scene>> /\ selected' = g
      /\ dialog' = Retargeted(dialog, g) /\ fields' = [fields EXCEPT !.edits["panel"] = x]
  BY DEF Select, Act
<1>2. FieldsShape(fields) /\ tree.groups \subseteq Groups /\ (dialog # NULL => DialogShape(dialog))
      /\ DialogInv
  BY DEF AdminInv, PageShape
<1>3. fields.edits \in [{"tree", "panel"} -> EditFields]
  BY <1>2 DEF FieldsShape
<1>4. x \in EditFields
  BY <1>2, <1>3, FilledOwn DEF EditSelected, EmptyEdit, EditFields
<1>5. g \in tree.groups => OwnFields("panel", x, g, tree)
  <2> SUFFICES ASSUME g \in tree.groups PROVE OwnFields("panel", x, g, tree)
    OBVIOUS
  <2>1. g # NULL
    BY <1>2, NamesAreNames
  <2>2. CASE g = selected
    BY <1>2, <2>1, <2>2 DEF EditSelected, DialogInv, EditsOwn, EditTarget
  <2>3. CASE g # selected
    BY <1>2, <1>3, <2>1, <2>3, FilledOwn DEF EditSelected
  <2> QED
    BY <2>2, <2>3
<1> HIDE DEF x
<1>6. /\ FieldsShape(fields') /\ fields'.edit = fields.edit
      /\ fields'.edits["panel"] = x /\ fields'.edits["tree"] = fields.edits["tree"]
  BY <1>1, <1>2, <1>3, <1>4 DEF FieldsShape
<1>7. /\ dialog' # NULL => DialogShape(dialog')
      /\ PanelFor(dialog', g)
      /\ dialog' # NULL /\ dialog'.kind = "editAsset" => dialog' = dialog
      /\ Edits(dialog', "tree") => dialog' = dialog
  <2>1. CASE dialog' = NULL
    BY <2>1 DEF PanelFor, Edits
  <2>2. CASE dialog' # NULL /\ dialog.via # "panel"
    BY <1>1, <1>2, <2>2 DEF Retargeted, PanelFor, Edits
  <2>3. CASE dialog' # NULL /\ dialog.via = "panel"
    <3> DEFINE d == [dialog EXCEPT !.target = g]
    <3>1. dialog # NULL /\ dialog' = d /\ DialogShape(dialog)
      BY <1>1, <1>2, <2>3 DEF Retargeted
    <3>2. dialog.kind # "types" /\ dialog.kind # "editAsset"
      BY <2>3, <3>1 DEF DialogShape
    <3>3. dialog \in [kind: {dialog.kind}, via: {dialog.via}, target: {dialog.target}]
      BY <3>1, <3>2 DEF DialogShape
    <3>4. /\ d \in [kind: {d.kind}, via: {d.via}, target: {d.target}]
          /\ d.kind = dialog.kind /\ d.via = "panel" /\ d.target = g
      BY <2>3, <3>3
    <3> HIDE DEF d
    <3>5. DialogShape(d)
      BY <3>1, <3>2, <3>4 DEF DialogShape
    <3> QED
      BY <3>1, <3>2, <3>4, <3>5 DEF PanelFor, Edits
  <2> QED
    BY <2>1, <2>2, <2>3
<1>8. PageShape'
  BY <1>1, <1>2, <1>6, <1>7 DEF AdminInv, PageShape
<1>9. AssetLoaded'
  BY <1>1, <1>2, <1>6, <1>7 DEF DialogInv, AssetLoaded, EditsAsset
<1>10. EditTarget("tree", dialog', g) \in tree.groups =>
         OwnFields("tree", fields.edits["tree"], EditTarget("tree", dialog', g), tree)
  <2>1. NULL \notin tree.groups
    BY <1>2, NamesAreNames
  <2>2. CASE Edits(dialog', "tree")
    BY <1>2, <1>7, <2>2 DEF DialogInv, EditsOwn, EditTarget
  <2>3. CASE ~Edits(dialog', "tree")
    BY <2>1, <2>3 DEF EditTarget
  <2> QED
    BY <2>2, <2>3
<1>11. EditsOwn(dialog', selected', fields'.edits, tree')
  <2>1. EditTarget("panel", dialog', g) = g
    BY DEF EditTarget
  <2> QED
    BY <1>1, <1>5, <1>6, <1>10, <2>1 DEF EditsOwn
<1>12. DialogInv'
  BY <1>1, <1>7, <1>9, <1>11 DEF DialogInv
<1> QED
  BY <1>1, <1>8, <1>12, TablesStay, SavesStay DEF AdminInv

LEMMA CloseKeeps ==
  ASSUME AdminInv, CloseDialog
  PROVE  AdminInv'
BY DialogReplaced DEF CloseDialog, Act

-----------------------------------------------------------------------------
(* Dialogs.                                                                *)

\* A dialog of another kind than the two with an effect.
LEMMA PlainOpened ==
  ASSUME AdminInv, NEW kind \in {"createGroup", "deleteGroup", "addMember", "createAsset"},
         NEW via, NEW g, dialog' = [kind |-> kind, via |-> via, target |-> g],
         UNCHANGED <<tableVars, tree, seenTypes, seenAsset, selected, fields, requests, scene>>
  PROVE  AdminInv'
<1> DEFINE d == [kind |-> kind, via |-> via, target |-> g]
<1>1. DialogShape(d) /\ d.kind \notin {"editGroup", "editAsset"}
  BY DEF DialogShape
<1>2. dialog' = d
  OBVIOUS
<1> HIDE DEF d
<1> QED
  BY <1>1, <1>2, DialogReplaced

\* The fields of one of the two dialogs are replaced.
LEMMA EditsReplaced ==
  ASSUME FieldsShape(fields), NEW via \in {"tree", "panel"}, NEW x \in EditFields,
         fields' = [fields EXCEPT !.edits[via] = x]
  PROVE  /\ FieldsShape(fields') /\ fields'.edit = fields.edit /\ fields'.group = fields.group
         /\ \A v \in {"tree", "panel"} : fields'.edits[v] = IF v = via THEN x ELSE fields.edits[v]
<1>1. fields.edits \in [{"tree", "panel"} -> EditFields]
  BY DEF FieldsShape
<1> DEFINE es == [fields.edits EXCEPT ![via] = x]
<1>2. fields' = [fields EXCEPT !.edits = es]
  BY DEF FieldsShape
<1>3. es \in [{"tree", "panel"} -> EditFields]
      /\ \A v \in {"tree", "panel"} : es[v] = IF v = via THEN x ELSE fields.edits[v]
  BY <1>1
<1> HIDE DEF es
<1> QED
  BY <1>2, <1>3 DEF FieldsShape

\* The tree's dialog is filled; the panel's has been all along.
LEMMA EditGroupOpened ==
  ASSUME AdminInv, NEW via \in {"tree", "panel"}, NEW g, OpenEditGroup(via, g)
  PROVE  AdminInv'
<1> DEFINE d == [kind |-> "editGroup", via |-> via, target |-> g]
           x == Reopened(via, fields.edits[via], g)
<1>1. UNCHANGED <<tableVars, tree, seenTypes, seenAsset, selected, requests, scene>>
      /\ dialog' = d /\ fields' = [fields EXCEPT !.edits[via] = x]
  BY DEF OpenEditGroup, Act
<1>2. /\ dialog = NULL /\ g \in tree.groups /\ (via = "panel" => g = selected)
  BY DEF OpenEditGroup, Opened
<1>3. FieldsShape(fields) /\ tree.groups \subseteq Groups /\ DialogInv
  BY DEF AdminInv, PageShape
<1>4. fields.edits \in [{"tree", "panel"} -> EditFields]
  BY <1>3 DEF FieldsShape
<1>5. /\ fields.edits[via] \in EditFields
      /\ via = "panel" => OwnFields("panel", fields.edits["panel"], g, tree)
  BY <1>2, <1>3, <1>4 DEF DialogInv, EditsOwn, EditTarget
<1>6. x \in EditFields /\ OwnFields(via, x, g, tree)
  <2>1. CASE via = "tree"
    BY <1>2, <1>3, <1>5, <2>1, FilledOwn DEF Reopened
  <2>2. CASE via = "panel"
    <3> DEFINE f == fields.edits["panel"]
    <3>1. f \in EditFields /\ OwnFields("panel", f, g, tree)
      BY <1>5, <2>2
    <3>2. x = IF f.choice = "now" THEN [f EXCEPT !.choice = "before"] ELSE f
      BY <2>2 DEF Reopened
    <3> HIDE DEF f, x
    <3>3. CASE f.choice = "now"
      <4>1. x \in EditFields /\ x.of = f.of /\ x.parent = f.parent /\ x.choice = "before"
        BY <3>1, <3>2, <3>3 DEF EditFields
      <4> QED
        BY <2>2, <3>1, <4>1 DEF OwnFields
    <3>4. CASE f.choice # "now"
      BY <2>2, <3>1, <3>2, <3>4
    <3> QED
      BY <3>3, <3>4
  <2> QED
    BY <2>1, <2>2
<1>7. DialogShape(d) /\ d # NULL => d.kind = "editGroup"
  OBVIOUS
<1>8. DialogShape(d) /\ d.kind = "editGroup" /\ d.via = via /\ d.target = g
  BY DEF DialogShape
<1> HIDE DEF d, x
<1>9. /\ FieldsShape(fields') /\ fields'.edit = fields.edit
      /\ \A v \in {"tree", "panel"} : fields'.edits[v] = IF v = via THEN x ELSE fields.edits[v]
  BY <1>1, <1>3, <1>6, EditsReplaced
<1>10. PageShape'
  BY <1>1, <1>8, <1>9 DEF AdminInv, PageShape
<1>11. PanelFor(d, selected)
  BY <1>2, <1>8 DEF PanelFor, Edits
<1>12. EditsOwn(d, selected, fields'.edits, tree)
  <2> SUFFICES ASSUME NEW v \in {"tree", "panel"}, EditTarget(v, d, selected) \in tree.groups
               PROVE  OwnFields(v, fields'.edits[v], EditTarget(v, d, selected), tree)
    BY DEF EditsOwn
  <2>1. NULL \notin tree.groups
    BY <1>3, NamesAreNames
  <2>2. CASE v = via
    <3>1. EditTarget(v, d, selected) = g
      BY <1>2, <1>8, <2>1, <2>2 DEF EditTarget, Edits
    <3> QED
      BY <1>6, <1>9, <2>2, <3>1
  <2>3. CASE v # via
    <3>1. v = "panel"
      BY <1>8, <2>1, <2>3 DEF EditTarget, Edits
    <3> QED
      BY <1>3, <1>9, <2>3, <3>1 DEF DialogInv, EditsOwn, EditTarget
  <2> QED
    BY <2>2, <2>3
<1>13. AssetLoaded'
  BY <1>1, <1>3, <1>8, <1>9 DEF DialogInv, AssetLoaded, EditsAsset
<1>14. DialogInv'
  BY <1>1, <1>11, <1>12, <1>13 DEF DialogInv
<1> QED
  BY <1>1, <1>10, <1>14, TablesStay, SavesStay DEF AdminInv

\* What an open dialog shows is what EditsOwn says.
LEMMA ShownOwn ==
  ASSUME AdminInv, Shown(dialog)
  PROVE  /\ dialog.via \in {"tree", "panel"} /\ dialog.target \in tree.groups
         /\ EditTarget(dialog.via, dialog, selected) = dialog.target
         /\ OwnFields(dialog.via, fields.edits[dialog.via], dialog.target, tree)
<1>1. dialog # NULL /\ dialog.kind = "editGroup" /\ dialog.target \in tree.groups
      /\ dialog.via \in {"tree", "panel"}
  BY DEF Shown, AdminInv, PageShape, DialogShape
<1>2. EditTarget(dialog.via, dialog, selected) = dialog.target
  BY <1>1 DEF EditTarget, Edits, PanelFor, AdminInv, DialogInv
<1> QED
  BY <1>1, <1>2 DEF AdminInv, DialogInv, EditsOwn

\* A parent that the selector offers is safe by the tree on screen.
LEMMA ParentChosen ==
  ASSUME AdminInv, NEW p, ChooseParent(p)
  PROVE  AdminInv'
<1> DEFINE via == dialog.via
           g == dialog.target
           x == [fields.edits[via] EXCEPT !.parent = p, !.choice = "now"]
<1>1. UNCHANGED <<tableVars, tree, seenTypes, seenAsset, selected, dialog, requests, scene>>
      /\ fields' = [fields EXCEPT !.edits[via].parent = p, !.edits[via].choice = "now"]
      /\ Shown(dialog) /\ p \in Offered(tree, g) \union {NULL}
  BY DEF ChooseParent, Act
<1>2. FieldsShape(fields) /\ tree.groups \subseteq Groups /\ DialogInv
  BY DEF AdminInv, PageShape
<1>3. /\ via \in {"tree", "panel"} /\ g \in tree.groups /\ EditTarget(via, dialog, selected) = g
      /\ OwnFields(via, fields.edits[via], g, tree)
  BY <1>1, ShownOwn
<1>4. fields.edits \in [{"tree", "panel"} -> EditFields]
  BY <1>2 DEF FieldsShape
<1>5. p \in Groups \union {NULL} /\ (p # NULL => SafeLink(tree.links, p, g))
  BY <1>1, <1>2, <1>3, OfferedSafe
<1>6. /\ x \in EditFields /\ x.of = fields.edits[via].of /\ x.parent = p /\ x.choice = "now"
  <2>1. fields.edits[via] \in EditFields
    BY <1>3, <1>4
  <2> QED
    BY <1>5, <2>1 DEF EditFields
<1>7. fields' = [fields EXCEPT !.edits[via] = x]
  <2>1. fields.edits[via] \in EditFields
    BY <1>3, <1>4
  <2> QED
    BY <1>1, <1>2, <1>3, <1>4, <2>1 DEF FieldsShape, EditFields
<1>8. OwnFields(via, x, g, tree)
  BY <1>3, <1>5, <1>6 DEF OwnFields
<1> HIDE DEF x, via, g
<1>9. /\ FieldsShape(fields') /\ fields'.edit = fields.edit
      /\ \A v \in {"tree", "panel"} : fields'.edits[v] = IF v = via THEN x ELSE fields.edits[v]
  BY <1>2, <1>3, <1>6, <1>7, EditsReplaced
<1>10. PageShape'
  BY <1>1, <1>9 DEF AdminInv, PageShape
<1>11. EditsOwn(dialog, selected, fields'.edits, tree)
  BY <1>2, <1>3, <1>8, <1>9 DEF DialogInv, EditsOwn
<1>12. AssetLoaded'
  BY <1>1, <1>2, <1>9 DEF DialogInv, AssetLoaded
<1>13. DialogInv'
  BY <1>1, <1>2, <1>11, <1>12 DEF DialogInv
<1> QED
  BY <1>1, <1>10, <1>13, TablesStay, SavesStay DEF AdminInv

LEMMA AssetOpened ==
  ASSUME AdminInv, NEW a \in Assets, OpenEditAsset(a)
  PROVE  AdminInv'
<1> DEFINE d == [kind |-> "editAsset", via |-> "tree", target |-> a]
           x == Loaded(fields.edit, d, a, seenAsset[a])
<1>1. UNCHANGED <<tableVars, tree, seenTypes, seenAsset, selected, requests, scene>>
      /\ dialog' = d /\ fields' = [fields EXCEPT !.edit = x]
  BY DEF OpenEditAsset, Act
<1>2. FieldsShape(fields) /\ AssetLoaded
  BY DEF AdminInv, PageShape, DialogInv
<1>3. x \in [of: {x.of}, type: {x.type}, picked: {x.picked}]
  BY <1>2, LoadedShape
<1>4. DialogShape(d) /\ d.kind = "editAsset" /\ d.target = a
  BY DEF DialogShape
<1>5. /\ d # NULL /\ seenAsset[a] # NULL => x.of = a /\ x.type = seenAsset[a]
      /\ ~(d # NULL /\ seenAsset[a] # NULL) => x = fields.edit
  BY DEF Loaded, EditsAsset
<1> HIDE DEF d, x
<1>6. FieldsShape(fields') /\ fields'.edit = x /\ fields'.edits = fields.edits
  BY <1>1, <1>2, <1>3, EditReplaced
<1>7. PageShape'
  BY <1>1, <1>4, <1>6 DEF AdminInv, PageShape
<1>8. AssetLoaded'
  <2>1. \A b \in Assets : x.of = b => seenAsset[b] # NULL
    BY <1>2, <1>5 DEF AssetLoaded
  <2>2. d # NULL => /\ seenAsset[a] # NULL => x.of = a
                    /\ x.of = a /\ ~x.picked => x.type = seenAsset[a]
    BY <1>2, <1>5 DEF AssetLoaded
  <2> QED
    BY <1>1, <1>4, <1>6, <2>1, <2>2 DEF AssetLoaded, EditsAsset
<1>9. PanelFor(dialog', selected') /\ EditsOwn(dialog', selected', fields'.edits, tree')
  BY <1>1, <1>4, <1>6, EditsKept
<1> QED
  BY <1>1, <1>7, <1>8, <1>9, TablesStay, SavesStay DEF AdminInv, DialogInv

LEMMA TypesOpened ==
  ASSUME AdminInv, OpenTypes
  PROVE  AdminInv'
<1> DEFINE d == TypesDialog
<1>1. UNCHANGED <<tableVars, tree, seenTypes, seenAsset, selected, fields, requests, scene>>
      /\ dialog' = d
  BY DEF OpenTypes, Act
<1>2. DialogShape(d) /\ d.kind = "types"
  BY DEF DialogShape, TypesDialog
<1> HIDE DEF d
<1> QED
  BY <1>1, <1>2, DialogReplaced

\* The operation of the types dialog is replaced.
LEMMA OpReplaced ==
  ASSUME NEW d, DialogShape(d), d.kind = "types", NEW op, op # NULL => TypeOp(op)
  PROVE  /\ DialogShape([d EXCEPT !.op = op])
         /\ [d EXCEPT !.op = op].kind = "types"
<1> DEFINE e == [d EXCEPT !.op = op]
<1>1. d \in [kind: {d.kind}, via: {d.via}, target: {d.target}, op: {d.op}] /\ d.via = "tree"
  BY DEF DialogShape
<1>2. /\ e \in [kind: {e.kind}, via: {e.via}, target: {e.target}, op: {e.op}]
      /\ e.via = "tree" /\ e.kind = "types" /\ e.op = op
  BY <1>1
<1> HIDE DEF e
<1>3. DialogShape(e) /\ e.kind = "types"
  BY <1>2 DEF DialogShape
<1> QED
  BY <1>3 DEF e

LEMMA TypeOpBegun ==
  ASSUME AdminInv, BeginTypeOp
  PROVE  AdminInv'
<1>1. UNCHANGED <<tableVars, tree, seenTypes, seenAsset, selected, fields, requests, scene>>
      /\ dialog # NULL /\ dialog.kind = "types"
  BY DEF BeginTypeOp, Act
<1>2. PICK op \in {<<"createType", new>> : new \in Types}
                  \union {<<"renameType", t, new>> : t \in seenTypes.names, new \in Types}
                  \union {<<"deleteType", t>> : t \in {u \in seenTypes.names : MayAskDelete(u)}} :
             dialog' = [dialog EXCEPT !.op = op]
  BY SMTT(40) DEF BeginTypeOp
<1>3. TypeOp(op)
  <2>1. CASE op \in {<<"createType", new>> : new \in Types}
    BY <2>1 DEF Named, TypeOp
  <2>2. CASE op \in {<<"renameType", t, new>> : t \in seenTypes.names, new \in Types}
    BY <2>2 DEF Named, TypeOp
  <2>3. CASE op \in {<<"deleteType", t>> : t \in {u \in seenTypes.names : MayAskDelete(u)}}
    BY <2>3 DEF Named, TypeOp
  <2> QED
    BY <1>2, <2>1, <2>2, <2>3
<1>4. DialogShape(dialog') /\ dialog'.kind = "types"
  BY <1>1, <1>2, <1>3, OpReplaced DEF AdminInv, PageShape
<1> QED
  BY <1>1, <1>4, DialogReplaced

\* What is typed into the forms that create.
LEMMA FormEntered ==
  ASSUME AdminInv, UNCHANGED <<tableVars, tree, seenTypes, seenAsset, selected, dialog, requests, scene>>,
         FieldsShape(fields'), fields'.edits = fields.edits,
         fields'.edit = fields.edit \/ (fields'.edit.of = fields.edit.of /\ fields'.edit.picked)
  PROVE  AdminInv'
<1>1. PageShape'
  BY DEF AdminInv, PageShape
<1>2. AssetLoaded'
  BY DEF AdminInv, DialogInv, AssetLoaded
<1>3. PanelFor(dialog', selected') /\ EditsOwn(dialog', selected', fields'.edits, tree')
  BY EditsKept
<1> QED
  BY <1>1, <1>2, <1>3, TablesStay, SavesStay DEF AdminInv, DialogInv

LEMMA GroupEntered ==
  ASSUME AdminInv, NEW g \in Groups, NEW p, EnterGroup(g, p)
  PROVE  AdminInv'
<1>1. UNCHANGED <<tableVars, tree, seenTypes, seenAsset, selected, dialog, requests, scene>>
      /\ fields' = [fields EXCEPT !.group = [name |-> g, parent |-> p]]
  BY DEF EnterGroup, Act
<1>2. FieldsShape(fields)
  BY DEF AdminInv, PageShape
<1>3. FieldsShape(fields') /\ fields'.edit = fields.edit /\ fields'.edits = fields.edits
  BY <1>1, <1>2 DEF FieldsShape
<1> QED
  BY <1>1, <1>3, FormEntered

LEMMA AssetEntered ==
  ASSUME AdminInv, NEW a, NEW g, EnterAsset(a, g)
  PROVE  AdminInv'
<1>1. UNCHANGED <<tableVars, tree, seenTypes, seenAsset, selected, dialog, requests, scene>>
  BY DEF EnterAsset, Act
<1>2. PICK t : fields' = [fields EXCEPT !.asset = [name |-> a, type |-> t, group |-> g]]
  BY DEF EnterAsset
<1>3. FieldsShape(fields)
  BY DEF AdminInv, PageShape
<1>4. FieldsShape(fields') /\ fields'.edit = fields.edit /\ fields'.edits = fields.edits
  BY <1>2, <1>3 DEF FieldsShape
<1> QED
  BY <1>1, <1>4, FormEntered

LEMMA TypePicked ==
  ASSUME AdminInv, NEW t, PickType(t)
  PROVE  AdminInv'
<1>1. UNCHANGED <<tableVars, tree, seenTypes, seenAsset, selected, dialog, requests, scene>>
      /\ fields' = [fields EXCEPT !.edit.type = t, !.edit.picked = TRUE]
  BY DEF PickType, Act
<1>2. FieldsShape(fields)
  BY DEF AdminInv, PageShape
<1>3. /\ FieldsShape(fields') /\ fields'.edits = fields.edits
      /\ fields'.edit.of = fields.edit.of /\ fields'.edit.picked
  BY <1>1, <1>2 DEF FieldsShape
<1> QED
  BY <1>1, <1>3, FormEntered

-----------------------------------------------------------------------------
(* Saves.                                                                  *)

\* Operations that create neither a type nor a group need no name.
LEMMA PlainOps ==
  ASSUME NEW x, NEW y
  PROVE  /\ Named(<<"updateGroup", x>>) /\ Named(<<"deleteGroup", x>>) /\ Named(<<"deleteAsset", x>>)
         /\ Named(<<"addSubgroup", x, y>>) /\ Named(<<"addMember", x, y>>)
         /\ Named(<<"removeMember", x, y>>) /\ Named(<<"updateAsset", x, y>>)
         /\ Named(<<"createAsset", x, y>>) /\ Named(<<"setDefault", x>>)
BY DEF Named

LEMMA GroupSaved ==
  ASSUME AdminInv, SaveGroup
  PROVE  AdminInv'
<1> DEFINE parent == fields.edits[dialog.via].parent
           one == parent \in {NULL, CurrentParent(tree, dialog.target)}
           ops == <<<<"updateGroup", dialog.target>>>> \o
                  IF one THEN << >> ELSE <<<<"addSubgroup", parent, dialog.target>>>>
<1>1. NamedOps(ops)
  BY PlainOps, MaybeTwoOps
<1>2. Send(By(dialog), ops)
  BY DEF SaveGroup
<1>3. UNCHANGED <<tableVars, tree, seenTypes, seenAsset, selected, dialog, fields, scene>>
  BY DEF SaveGroup, Act
<1> HIDE DEF ops
<1> QED
  BY <1>1, <1>2, <1>3, SaveSent

LEMMA GroupCreationSent ==
  ASSUME AdminInv, ConfirmCreateGroup
  PROVE  AdminInv'
<1> DEFINE one == fields.group.parent = NULL
           ops == <<<<"createGroup", fields.group.name>>>> \o
                  IF one THEN << >> ELSE <<<<"addSubgroup", fields.group.parent, fields.group.name>>>>
<1>1. fields.group.name \in Groups
  BY DEF ConfirmCreateGroup, AdminInv, PageShape, FieldsShape
<1>2. Named(<<"createGroup", fields.group.name>>)
  BY <1>1 DEF Named
<1>3. NamedOps(ops)
  BY <1>2, PlainOps, MaybeTwoOps
<1>4. Send(By(dialog), ops)
  BY DEF ConfirmCreateGroup
<1>5. UNCHANGED <<tableVars, tree, seenTypes, seenAsset, selected, dialog, fields, scene>>
  BY DEF ConfirmCreateGroup, Act
<1> HIDE DEF ops
<1> QED
  BY <1>3, <1>4, <1>5, SaveSent

LEMMA AssetCreationSent ==
  ASSUME AdminInv, ConfirmCreateAsset
  PROVE  AdminInv'
<1> DEFINE f == fields.asset
           one == f.group = NULL
           ops == <<<<"createAsset", f.name, EffectiveType(f.type)>>>> \o
                  IF one THEN << >> ELSE <<<<"addMember", f.group, f.name>>>>
<1>1. NamedOps(ops)
  BY PlainOps, MaybeTwoOps
<1>2. Send(By(dialog), ops)
  BY DEF ConfirmCreateAsset
<1>3. UNCHANGED <<tableVars, tree, seenTypes, seenAsset, selected, dialog, fields, scene>>
  BY DEF ConfirmCreateAsset, Act
<1> HIDE DEF ops
<1> QED
  BY <1>1, <1>2, <1>3, SaveSent

LEMMA TypeOpSent ==
  ASSUME AdminInv, ConfirmTypeOp
  PROVE  AdminInv'
<1>1. Named(dialog.op)
  BY DEF ConfirmTypeOp, AdminInv, PageShape, DialogShape, TypeOp
<1> QED
  BY <1>1, OneOp, SaveSent DEF ConfirmTypeOp, Act

\* Saves of one operation.
LEMMA OneOpSent ==
  ASSUME AdminInv,
         \/ ConfirmDeleteGroup \/ SaveAsset
         \/ \E a \in Assets : PickMember(a) \/ RemoveAsset(a) \/ \E g \in Groups : TakeOut(g, a)
         \/ \E t \in Types : Star(t)
  PROVE  AdminInv'
<1>1. CASE ConfirmDeleteGroup
  BY <1>1, PlainOps, OneOp, SaveSent DEF ConfirmDeleteGroup, Act
<1>2. CASE SaveAsset
  BY <1>2, PlainOps, OneOp, SaveSent DEF SaveAsset, Act
<1>3. ASSUME NEW a \in Assets, PickMember(a) PROVE AdminInv'
  BY <1>3, PlainOps, OneOp, SaveSent DEF PickMember, Act
<1>4. ASSUME NEW a \in Assets, RemoveAsset(a) PROVE AdminInv'
  BY <1>4, PlainOps, OneOp, SaveSent DEF RemoveAsset, Act
<1>5. ASSUME NEW a \in Assets, NEW g \in Groups, TakeOut(g, a) PROVE AdminInv'
  BY <1>5, PlainOps, OneOp, SaveSent DEF TakeOut, Act
<1>6. ASSUME NEW t \in Types, Star(t) PROVE AdminInv'
  BY <1>6, PlainOps, OneOp, SaveSent DEF Star, Act
<1> QED
  BY <1>1, <1>2, <1>3, <1>4, <1>5, <1>6

-----------------------------------------------------------------------------
(* Answers to saves.                                                       *)

\* The dialog that closes is whichever is open, and with the panel its dialogs go.
LEMMA ClosedOne ==
  ASSUME AdminInv, NEW r, Finish(r)
  PROVE  /\ \/ dialog' = NULL
            \/ dialog' = dialog
            \/ /\ dialog' # NULL /\ dialog'.kind = "types" /\ DialogShape(dialog')
               /\ dialog'.via = "tree"
         /\ selected' # selected => Deselects(r)
         /\ Deselects(r) => selected' = NULL /\ (dialog' # NULL => dialog'.via # "panel")
<1>1. \/ ClosedBy(r) = NULL \/ ClosedBy(r) = dialog
      \/ /\ ClosedBy(r) # NULL /\ ClosedBy(r).kind = "types" /\ DialogShape(ClosedBy(r))
         /\ ClosedBy(r).via = "tree"
  <2>1. CASE dialog # NULL /\ dialog.kind = "types" /\ r.by.kind = "types" /\ dialog.via = r.by.via
    <3>1. PICK op : ClosedBy(r) = [dialog EXCEPT !.op = op] /\ (op # NULL => op = dialog.op)
      BY <2>1 DEF ClosedBy
    <3>2. DialogShape(dialog) /\ (dialog.op # NULL => TypeOp(dialog.op))
      BY <2>1 DEF AdminInv, PageShape, DialogShape
    <3>3. DialogShape(ClosedBy(r)) /\ ClosedBy(r).kind = "types"
      BY <2>1, <3>1, <3>2, OpReplaced
    <3>4. ClosedBy(r).via = "tree"
      BY <3>3 DEF DialogShape
    <3> QED
      BY <3>3, <3>4
  <2>2. CASE ~(dialog # NULL /\ dialog.kind = "types" /\ r.by.kind = "types" /\ dialog.via = r.by.via)
    BY <2>2 DEF ClosedBy
  <2> QED
    BY <2>1, <2>2
<1>2. dialog' = ClosedBy(r) \/ (Deselects(r) /\ dialog' = Retargeted(ClosedBy(r), NULL))
  BY DEF Finish
<1>3. Retargeted(ClosedBy(r), NULL) \in {NULL, ClosedBy(r)}
  BY DEF Retargeted
<1>4. \/ dialog' = NULL \/ dialog' = ClosedBy(r)
  BY <1>2, <1>3
<1>5. Deselects(r) => selected' = NULL /\ (dialog' # NULL => dialog'.via # "panel")
  BY DEF Finish, Retargeted
<1>6. selected' # selected => Deselects(r)
  BY DEF Finish
<1> QED
  BY <1>1, <1>4, <1>5, <1>6

\* The fields of a form that created something are emptied, and those of the panel's
\* dialog are gone with the panel.
LEMMA FinishedFields ==
  ASSUME FieldsShape(fields), NEW r, Finish(r)
  PROVE  /\ FieldsShape(fields') /\ fields'.edit = fields.edit
         /\ fields'.edits["tree"] = fields.edits["tree"]
         /\ ~Deselects(r) => fields'.edits = fields.edits
         /\ fields'.group.parent \in {NULL, fields.group.parent}
<1>1. Emptied.group = [name |-> NULL, parent |-> NULL]
  BY DEF Emptied
<1>2. CASE Deselects(r)
  <2>1. fields' = [fields EXCEPT !.edits["panel"] = EmptyEdit]
    BY <1>2 DEF Finish, Deselects
  <2>2. EmptyEdit \in EditFields
    BY DEF EmptyEdit, EditFields
  <2> QED
    BY <1>2, <2>1, <2>2, EditsReplaced
<1>3. CASE ~Deselects(r)
  <2>1. \/ fields' = fields
        \/ fields' = [fields EXCEPT !.group = Emptied.group]
        \/ fields' = [fields EXCEPT !.asset = Emptied.asset]
    BY <1>3 DEF Finish
  <2> QED
    BY <1>1, <1>3, <2>1 DEF FieldsShape
<1> QED
  BY <1>2, <1>3

LEMMA FinishKeeps ==
  ASSUME AdminInv, NEW r, Finish(r), UNCHANGED <<tree, seenTypes, seenAsset>>
  PROVE  PageShape' /\ DialogInv'
<1>1. FieldsShape(fields) /\ tree.groups \subseteq Groups /\ DialogInv
      /\ (dialog # NULL => DialogShape(dialog))
  BY DEF AdminInv, PageShape
<1>2. /\ FieldsShape(fields') /\ fields'.edit = fields.edit
      /\ fields'.edits["tree"] = fields.edits["tree"]
      /\ ~Deselects(r) => fields'.edits = fields.edits
  BY <1>1, FinishedFields
<1>3. /\ dialog' # NULL => DialogShape(dialog')
      /\ dialog' # NULL /\ dialog'.kind \in {"editGroup", "editAsset"} => dialog' = dialog
  BY <1>1, ClosedOne
<1>4. PageShape'
  BY <1>2, <1>3 DEF AdminInv, PageShape
<1>5. AssetLoaded'
  BY <1>1, <1>2, <1>3 DEF DialogInv, AssetLoaded, EditsAsset
<1>6. PanelFor(dialog', selected') /\ EditsOwn(dialog', selected', fields'.edits, tree')
  <2>1. CASE ~Deselects(r)
    BY <1>2, <1>3, <2>1, ClosedOne, EditsKept
  <2>2. CASE Deselects(r)
    <3>1. selected' = NULL /\ (dialog' # NULL => dialog'.via # "panel")
      BY <2>2, ClosedOne
    <3>2. NULL \notin tree.groups
      BY <1>1, NamesAreNames
    <3>3. PanelFor(dialog', selected')
      BY <3>1 DEF PanelFor, Edits
    <3>4. EditTarget("panel", dialog', selected') = NULL
      BY <3>1 DEF EditTarget
    <3>5. EditTarget("tree", dialog', selected') \in {NULL, EditTarget("tree", dialog, selected)}
      BY <1>3 DEF EditTarget, Edits
    <3>6. EditTarget("tree", dialog', selected') \in tree.groups =>
            OwnFields("tree", fields'.edits["tree"], EditTarget("tree", dialog', selected'), tree)
      BY <1>1, <1>2, <3>2, <3>5 DEF DialogInv, EditsOwn
    <3> QED
      BY <3>2, <3>3, <3>4, <3>6 DEF EditsOwn
  <2> QED
    BY <2>1, <2>2
<1> QED
  BY <1>4, <1>5, <1>6 DEF DialogInv

LEMMA FirstNamed ==
  ASSUME SavesNamed, NEW i \in DOMAIN requests
  PROVE  Named(requests[i].ops[1])
BY DEF SavesNamed, NamedSave, NamedOps

LEMMA ServeKeeps ==
  ASSUME AdminInv, Serve
  PROVE  AdminInv'
<1>1. PICK i \in DOMAIN requests : Served(i)
  BY DEF Serve
<1>2. UNCHANGED <<tree, seenTypes, seenAsset, scene>>
  BY DEF Serve, Act
<1>3. SavesNamed /\ Named(requests[i].ops[1])
  BY FirstNamed DEF AdminInv
<1>4. TableInv'
  BY <1>1, <1>3, PerformKeeps DEF Served, AdminInv
<1>5. CASE Len(requests[i].ops) > 1
  <2>1. requests' = [requests EXCEPT ![i].ops = Tail(@), ![i].first = FALSE]
    BY <1>1, <1>5 DEF Served
  <2>2. UNCHANGED <<selected, dialog, fields>>
    BY <1>1, <1>5 DEF Served
  <2>3. SavesNamed'
    BY <1>3, <1>5, <2>1, SaveAdvanced
  <2> QED
    BY <1>2, <1>4, <2>2, <2>3, PageStays, ScenesStay DEF AdminInv
<1>6. CASE ~(Len(requests[i].ops) > 1)
  <2>1. requests' = Without(i) /\ Finish(requests[i])
    BY <1>1, <1>6 DEF Served
  <2>2. SavesNamed'
    BY <1>3, <2>1, SaveDropped
  <2>3. PageShape' /\ DialogInv'
    BY <1>2, <2>1, FinishKeeps
  <2> QED
    BY <1>2, <1>4, <2>2, <2>3, ScenesStay DEF AdminInv
<1> QED
  BY <1>5, <1>6

LEMMA RejectKeeps ==
  ASSUME AdminInv, Reject
  PROVE  AdminInv'
<1>1. SavesNamed'
  BY SaveDropped DEF Reject, AdminInv
<1>2. UNCHANGED <<tableVars, tree, seenTypes, seenAsset, selected, dialog, fields, scene>>
  BY DEF Reject, Act
<1> QED
  BY <1>1, <1>2, TablesStay, PageStays, ScenesStay DEF AdminInv

LEMMA LoseKeeps ==
  ASSUME AdminInv, LoseAnswer
  PROVE  AdminInv'
<1>1. PICK i \in DOMAIN requests :
         Perform(requests[i].ops[1], requests[i].known) /\ requests' = Without(i)
  BY DEF LoseAnswer
<1>2. UNCHANGED <<tree, seenTypes, seenAsset, selected, dialog, fields, scene>>
  BY DEF LoseAnswer, Act
<1>3. SavesNamed'
  BY <1>1, SaveDropped DEF AdminInv
<1>4. TableInv'
  BY <1>1, FirstNamed, PerformKeeps DEF AdminInv
<1> QED
  BY <1>2, <1>3, <1>4, PageStays, ScenesStay DEF AdminInv

\* The other user's requests are those of the scene.
LEMMA OthersKeep ==
  ASSUME AdminInv, Other \/ CommitDefault
  PROVE  AdminInv'
<1>1. UNCHANGED <<tree, seenTypes, seenAsset, selected, dialog, fields, requests, scene>>
  BY DEF Other, CommitDefault, pageVars, Act
<1>2. TableInv'
  <2>1. CASE Other
    <3>1. PICK op \in scene.others : Perform(op, NULL)
      BY <2>1 DEF Other
    <3>2. Named(op)
      BY AdminAssumption DEF AdminInv
    <3> QED
      BY <3>1, <3>2, PerformKeeps DEF AdminInv
  <2>2. CASE CommitDefault
    BY <2>2, EndDefaultKeeps DEF CommitDefault, AdminInv
  <2> QED
    BY <2>1, <2>2
<1> QED
  BY <1>1, <1>2, SavesStay, PageStays, ScenesStay DEF AdminInv

-----------------------------------------------------------------------------
(* The theorems.                                                           *)

LEMMA AdminStart == Init => AdminInv
<1> SUFFICES ASSUME Init PROVE AdminInv
  OBVIOUS
<1>1. scene.types \subseteq Types /\ scene.default \in scene.types /\ scene.groups \subseteq Groups
  BY AdminAssumption DEF Init
<1>2. TableInv
  BY <1>1, NamesAreNames DEF Init, TableInv, DefaultingKnown, DefaultExplained
<1>3. SavesNamed
  <2>1. << >> \in Seq({}) /\ DOMAIN << >> = {}
    OBVIOUS
  <2>2. Listed(<< >>)
    BY <2>1, SeqListed
  <2> QED
    BY <2>1, <2>2 DEF Init, SavesNamed
<1>4. FieldsShape(fields) /\ fields.edit.of = NULL
  BY DEF Init, FieldsShape, Emptied, EmptyEdit, EditFields
<1>5. tree.groups \subseteq Groups /\ selected = NULL
  BY <1>1 DEF Init, Snapshot
<1>6. seenTypes.names \subseteq Types /\ seenAsset = [a \in Assets |-> seenAsset[a]] /\ dialog = NULL
  BY <1>1 DEF Init
<1>7. AssetLoaded
  BY <1>4, <1>6, NamesAreNames DEF AssetLoaded, EditsAsset
<1>8. PanelFor(dialog, selected) /\ EditsOwn(dialog, selected, fields.edits, tree)
  BY <1>5, <1>6, NamesAreNames DEF PanelFor, EditsOwn, EditTarget, Edits
<1> QED
  BY <1>2, <1>3, <1>4, <1>5, <1>6, <1>7, <1>8 DEF Init, AdminInv, PageShape, DialogInv

LEMMA GroupDialogsKeep ==
  ASSUME AdminInv, GroupDialogs
  PROVE  AdminInv'
<1>1. ASSUME NEW via \in {"tree", "panel"}, NEW g \in Groups, OpenDeleteGroup(via, g)
      PROVE  AdminInv'
  BY <1>1, PlainOpened DEF OpenDeleteGroup, Act
<1>2. ASSUME NEW via \in {"tree", "panel"}, NEW g \in Groups, OpenAddMember(via, g)
      PROVE  AdminInv'
  BY <1>2, PlainOpened DEF OpenAddMember, Act
<1>3. ASSUME NEW via \in {"tree", "panel"}, OpenCreateGroup(via) PROVE AdminInv'
  BY <1>3, PlainOpened DEF OpenCreateGroup, Act
<1> QED
  BY <1>1, <1>2, <1>3, EditGroupOpened, ParentChosen, GroupEntered, GroupSaved, GroupCreationSent,
     OneOpSent DEF GroupDialogs

LEMMA AssetDialogsKeep ==
  ASSUME AdminInv, AssetDialogs
  PROVE  AdminInv'
<1>1. CASE OpenCreateAsset
  BY <1>1, PlainOpened DEF OpenCreateAsset, Act
<1> QED
  BY <1>1, AssetCreationSent, AssetOpened, AssetEntered, TypePicked, TypesOpened, TypeOpBegun,
     TypeOpSent, OneOpSent DEF AssetDialogs

LEMMA AdminStep == AdminInv /\ [Next]_vars => AdminInv'
<1> SUFFICES ASSUME AdminInv, [Next]_vars PROVE AdminInv'
  OBVIOUS
<1>1. CASE UNCHANGED vars
  BY <1>1, TablesStay, SavesStay, PageStays, ScenesStay DEF vars, pageVars, AdminInv
<1>2. groups \subseteq Groups
  BY DEF AdminInv, TableInv
<1>3. CASE Next
  BY <1>2, <1>3, TreeFetched, TypesFetched, AssetFetched, SelectKeeps, CloseKeeps, GroupDialogsKeep,
     AssetDialogsKeep, ServeKeeps, RejectKeeps, LoseKeeps, OthersKeep DEF Next, Answers
<1> QED
  BY <1>1, <1>3

LEMMA AdminInvariant == Spec => []AdminInv
BY AdminStart, AdminStep, PTL DEF Spec

\* A default type that is missing was deleted itself, or renamed while set_default had
\* read its row and not yet written: requests in any order and number lose no default
\* in another way (asset type router and repository: clear, set by name, read again).
THEOREM LostDefaultsExplained == Spec => []DefaultExplained
<1>1. AdminInv => DefaultExplained
  BY DEF AdminInv, TableInv
<1> QED
  BY <1>1, AdminInvariant, PTL

\* Whatever is fetched, selected, saved, cancelled and opened again, an edit dialog of
\* a group has its current parent, or one chosen in this opening (or, in the panel, in
\* one before); that of an asset has fields that are not its own exactly until the first
\* answer for it (the effects of GroupEditDialog and AssetEditDialog).
THEOREM DialogsLoadTheirOwn == Spec => []LoadedFieldsOwn
<1>1. AdminInv => LoadedFieldsOwn
  <2> SUFFICES ASSUME AdminInv PROVE LoadedFieldsOwn
    OBVIOUS
  <2>1. ASSUME Shown(dialog)
        PROVE  LET f == fields.edits[dialog.via]
               IN  /\ f.of = dialog.target
                   /\ f.choice = "none" => f.parent = CurrentParent(tree, dialog.target)
                   /\ f.choice = "before" => dialog.via = "panel"
    BY <2>1, ShownOwn DEF OwnFields
  <2> QED
    BY <2>1 DEF LoadedFieldsOwn, AdminInv, DialogInv, AssetLoaded
<1> QED
  BY <1>1, AdminInvariant, PTL

-----------------------------------------------------------------------------
(* Cycles of groups: the parent in a dialog, and the links that are asked  *)
(* for, are safe by the links that the user saw.                           *)

LEMMA TablesAreSpent ==
  ASSUME AdminInv, CycleInv
  PROVE  TablesSpent /\ CyclesExplained
BY DEF CycleInv, NamesSpent, TablesSpent

\* CycleInv after a step, from its parts.
LEMMA CycleKept ==
  ASSUME CycleInv, TablesSpent', CyclesExplained', spent \subseteq spent', tree' \in {tree, Snapshot},
         groups' = groups \/ tree' = tree, TablesSpent,
         fields'.group.parent \in spent \union {NULL}, SavesSafe'
  PROVE  CycleInv'
<1>1. tree'.groups \subseteq spent' /\ tree'.links \subseteq spent' \X spent'
  <2>1. CASE tree' = tree
    BY <2>1 DEF CycleInv, NamesSpent
  <2>2. CASE tree' = Snapshot
    BY <2>2 DEF Snapshot, TablesSpent
  <2> QED
    BY <2>1, <2>2
<1>2. NamesSpent'
  BY <1>1 DEF NamesSpent, TablesSpent
<1> QED
  BY <1>2 DEF CycleInv

LEMMA SafeOpStays ==
  ASSUME spent \subseteq spent', NEW ops, NEW k, NEW known, SafeOp(ops, k, known),
         NEW n, requests'[n].ops = ops, requests'[n].known = known
  PROVE  SafeOp(requests[n].ops, k, requests[n].known)'
BY DEF SafeOp

LEMMA SavesStaySafe ==
  ASSUME CycleInv, requests' = requests, spent' = spent
  PROVE  SavesSafe'
BY DEF CycleInv, SavesSafe, SafeOp

\* Whatever the step does to the tables, the saves that go on are as safe as before.
LEMMA DroppedSafe ==
  ASSUME AdminInv, CycleInv, spent \subseteq spent', NEW i \in DOMAIN requests, requests' = Without(i)
  PROVE  SavesSafe'
<1>1. \A k \in DOMAIN requests' : \E j \in DOMAIN requests : requests'[k] = requests[j]
  BY WithoutElements DEF AdminInv, SavesNamed
<1>2. SUFFICES ASSUME NEW n \in DOMAIN requests', NEW k \in DOMAIN requests'[n].ops
               PROVE  SafeOp(requests[n].ops, k, requests[n].known)'
  BY DEF SavesSafe
<1>3. PICK j \in DOMAIN requests : requests'[n] = requests[j]
  BY <1>1
<1>4. SafeOp(requests[j].ops, k, requests[j].known)
  BY <1>2, <1>3 DEF CycleInv, SavesSafe
<1> QED
  BY <1>3, <1>4 DEF SafeOp

\* A group that is just created is an end of no link that anyone has seen.
LEMMA NewGroupSafe ==
  ASSUME NEW known, known \subseteq spent \X spent, NEW p \in spent, NEW c, c \notin spent
  PROVE  SafeLink(known, p, c)
<1>1. Children(known, c) = {}
  BY DEF Children
<1>2. Below(known, c) \subseteq {}
  BY <1>1, BelowLeast
<1> QED
  BY <1>2 DEF SafeLink

LEMMA AdvancedSafe ==
  ASSUME AdminInv, CycleInv, spent \subseteq spent', NEW i \in DOMAIN requests,
         Len(requests[i].ops) > 1, Perform(requests[i].ops[1], requests[i].known),
         requests' = [requests EXCEPT ![i].ops = Tail(@), ![i].first = FALSE]
  PROVE  SavesSafe'
<1>1. /\ DOMAIN requests' = DOMAIN requests
      /\ \A k \in DOMAIN requests : k # i => requests'[k] = requests[k]
      /\ requests'[i].ops = Tail(requests[i].ops) /\ requests'[i].known = requests[i].known
  BY AdvancedElements DEF AdminInv
<1> DEFINE ops == requests[i].ops
           known == requests[i].known
<1>2. ASSUME NEW k \in DOMAIN Tail(ops) PROVE SafeOp(Tail(ops), k, known)
  <2>1. k + 1 \in DOMAIN ops /\ Tail(ops)[k] = ops[k + 1] /\ k \in Nat
    BY RestOfOps DEF AdminInv, SavesNamed, NamedSave
  <2>2. SafeOp(ops, k + 1, known)
    BY <2>1 DEF CycleInv, SavesSafe
  <2>3. Perform(ops[1], known)
    OBVIOUS
  <2> HIDE DEF ops, known
  <2>4. SUFFICES ASSUME ops[k + 1][1] = "addSubgroup"
                 PROVE  SafeLink(known, ops[k + 1][2], ops[k + 1][3])
    BY <2>1 DEF SafeOp
  <2>5. CASE SafeLink(known, ops[k + 1][2], ops[k + 1][3])
    BY <2>5
  <2>6. CASE ~SafeLink(known, ops[k + 1][2], ops[k + 1][3])
    <3> DEFINE p == ops[k + 1][2]
               c == ops[k + 1][3]
    <3>1. k + 1 = 2 /\ ops[1] = <<"createGroup", c>> /\ p \in spent /\ known \subseteq spent \X spent
      BY <2>2, <2>4, <2>6 DEF SafeOp
    <3> HIDE DEF p, c
    <3>2. c \notin spent
      BY <2>3, <3>1 DEF Perform, CreateGroup
    <3>3. SafeLink(known, p, c)
      BY <3>1, <3>2, NewGroupSafe
    <3> QED
      BY <3>3 DEF p, c
  <2> QED
    BY <2>5, <2>6
<1>3. SUFFICES ASSUME NEW n \in DOMAIN requests', NEW k \in DOMAIN requests'[n].ops
               PROVE  SafeOp(requests[n].ops, k, requests[n].known)'
  BY DEF SavesSafe
<1>4. CASE n = i
  BY <1>1, <1>2, <1>3, <1>4, SafeOpStays
<1>5. CASE n # i
  <2>1. SafeOp(requests[n].ops, k, requests[n].known) /\ requests'[n] = requests[n]
    BY <1>1, <1>3, <1>5 DEF CycleInv, SavesSafe
  <2> QED
    BY <2>1, SafeOpStays
<1> QED
  BY <1>4, <1>5

\* A save is sent whose links are safe by what the user knows.
LEMMA SentSafe ==
  ASSUME AdminInv, CycleInv, NEW by, NEW ops, Send(by, ops),
         \A k \in DOMAIN ops : SafeOp(ops, k, tree.links),
         UNCHANGED <<tableVars, tree, fields>>
  PROVE  CycleInv'
<1> DEFINE r == [by |-> by, ops |-> ops, first |-> TRUE, was |-> selected, known |-> tree.links]
<1>1. requests' = Append(requests, r) /\ r.ops = ops /\ r.known = tree.links
  BY DEF Send
<1> HIDE DEF r
<1>2. \A k \in DOMAIN requests' : requests'[k] = r \/ \E j \in DOMAIN requests : requests'[k] = requests[j]
  BY <1>1, AppendedElements DEF AdminInv, SavesNamed
<1>3. UNCHANGED <<groups, links, spent, unguarded>>
  BY DEF tableVars
<1>4. SavesSafe'
  <2> SUFFICES ASSUME NEW n \in DOMAIN requests', NEW k \in DOMAIN requests'[n].ops
               PROVE  SafeOp(requests[n].ops, k, requests[n].known)'
    BY DEF SavesSafe
  <2>1. CASE requests'[n] = r
    BY <1>1, <1>3, <2>1 DEF SafeOp
  <2>2. CASE \E j \in DOMAIN requests : requests'[n] = requests[j]
    <3>1. SafeOp(requests'[n].ops, k, requests'[n].known)
      BY <2>2 DEF CycleInv, SavesSafe
    <3> QED
      BY <1>3, <3>1 DEF SafeOp
  <2> QED
    BY <1>2, <2>1, <2>2
<1>5. NamesSpent' /\ CyclesExplained'
  BY <1>3 DEF CycleInv, NamesSpent, CyclesExplained
<1> QED
  BY <1>4, <1>5 DEF CycleInv

LEMMA OneSafeOp ==
  ASSUME NEW x, NEW known, x[1] # "addSubgroup"
  PROVE  \A k \in DOMAIN <<x>> : SafeOp(<<x>>, k, known)
BY DEF SafeOp

\* Groups that the selector offers have been in the tree.
LEMMA OfferedSpent ==
  ASSUME NamesSpent, NEW h, NEW p \in Offered(tree, h)
  PROVE  p \in spent
<1> DEFINE around == {l \in tree.links : h \notin {l[1], l[2]}}
<1>1. \/ p \in Roots(tree) \/ \E r \in Roots(tree) : p \in Below(around, r)
  BY DEF Offered
<1>2. Roots(tree) \subseteq spent
  BY DEF Roots, NamesSpent
<1>3. \A x : Children(around, x) \subseteq spent
  BY DEF Children, NamesSpent
<1> HIDE DEF around
<1>4. \A r : Below(around, r) \subseteq spent
  BY <1>3, BelowLeast
<1> QED
  BY <1>1, <1>2, <1>4

-----------------------------------------------------------------------------
(* The steps of Next and cycles.                                           *)

LEMMA CycleFetched ==
  ASSUME AdminInv, CycleInv, FetchTree
  PROVE  CycleInv'
<1>1. UNCHANGED <<tableVars, requests>> /\ tree' = Snapshot
      /\ \E es : fields' = [fields EXCEPT !.edits = es]
  BY DEF FetchTree
<1>2. UNCHANGED <<groups, links, spent, unguarded>>
  BY <1>1 DEF tableVars
<1>3. fields'.group = fields.group
  BY <1>1 DEF AdminInv, PageShape, FieldsShape
<1>4. TablesSpent /\ TablesSpent' /\ CyclesExplained' /\ fields'.group.parent \in spent \union {NULL}
  BY <1>2, <1>3, TablesAreSpent DEF TablesSpent, CyclesExplained, CycleInv, NamesSpent
<1> QED
  BY <1>1, <1>2, <1>4, SavesStaySafe, CycleKept

\* Only the page's fields, its dialog and its selection change.
LEMMA CycleFields ==
  ASSUME CycleInv, UNCHANGED <<tableVars, tree, requests>>,
         fields'.group.parent \in spent \union {NULL}
  PROVE  CycleInv'
<1>1. UNCHANGED <<groups, links, spent, unguarded>>
  BY DEF tableVars
<1>2. NamesSpent' /\ CyclesExplained' /\ SavesSafe'
  BY <1>1, SavesStaySafe DEF CycleInv, NamesSpent, CyclesExplained
<1> QED
  BY <1>2 DEF CycleInv

LEMMA CycleStill ==
  ASSUME CycleInv, UNCHANGED <<tableVars, tree, requests>>, fields'.group = fields.group
  PROVE  CycleInv'
BY CycleFields DEF CycleInv, NamesSpent

LEMMA CycleTyped ==
  ASSUME AdminInv, CycleInv,
         \/ \E a \in Assets : FetchAsset(a) \/ OpenEditAsset(a) \/ \E g : EnterAsset(a, g)
         \/ \E t : PickType(t)
         \/ \E g, p : EnterGroup(g, p)
         \/ \E g : Select(g)
         \/ \E p : ChooseParent(p)
         \/ \E via, g : OpenEditGroup(via, g)
  PROVE  CycleInv'
<1>1. FieldsShape(fields) /\ NamesSpent
  BY DEF AdminInv, PageShape, CycleInv
<1>2. ASSUME NEW a, FetchAsset(a) PROVE CycleInv'
  BY <1>1, <1>2, CycleStill DEF FetchAsset, FieldsShape
<1>3. ASSUME NEW a, OpenEditAsset(a) PROVE CycleInv'
  BY <1>1, <1>3, CycleStill DEF OpenEditAsset, FieldsShape
<1>4. ASSUME NEW a, NEW g, EnterAsset(a, g) PROVE CycleInv'
  BY <1>1, <1>4, CycleStill DEF EnterAsset, FieldsShape
<1>5. ASSUME NEW t, PickType(t) PROVE CycleInv'
  BY <1>1, <1>5, CycleStill DEF PickType, FieldsShape
<1>6. ASSUME NEW g, Select(g) PROVE CycleInv'
  BY <1>1, <1>6, CycleStill DEF Select, FieldsShape
<1>7. ASSUME NEW p, ChooseParent(p) PROVE CycleInv'
  BY <1>1, <1>7, CycleStill DEF ChooseParent, FieldsShape
<1>8. ASSUME NEW via, NEW g, OpenEditGroup(via, g) PROVE CycleInv'
  BY <1>1, <1>8, CycleStill DEF OpenEditGroup, FieldsShape
<1>9. ASSUME NEW g, NEW p, EnterGroup(g, p) PROVE CycleInv'
  <2>1. fields'.group.parent = p /\ UNCHANGED <<tableVars, tree, requests>>
        /\ p \in Offered(tree, NULL) \union {NULL}
    BY <1>1, <1>9 DEF EnterGroup, FieldsShape
  <2>2. p \in spent \union {NULL}
    BY <1>1, <2>1, OfferedSpent
  <2> QED
    BY <2>1, <2>2, CycleFields
<1> QED
  BY <1>2, <1>3, <1>4, <1>5, <1>6, <1>7, <1>8, <1>9

\* The parent in the dialog is the current one, which is not asked for, or was chosen.
LEMMA CycleSaved ==
  ASSUME AdminInv, CycleInv, SaveGroup
  PROVE  CycleInv'
<1> DEFINE parent == fields.edits[dialog.via].parent
           one == parent \in {NULL, CurrentParent(tree, dialog.target)}
           ops == <<<<"updateGroup", dialog.target>>>> \o
                  IF one THEN << >> ELSE <<<<"addSubgroup", parent, dialog.target>>>>
<1>1. Send(By(dialog), ops) /\ UNCHANGED <<tableVars, tree, fields>> /\ Shown(dialog)
  BY DEF SaveGroup
<1>2. ~one => SafeLink(tree.links, parent, dialog.target)
  BY <1>1, ShownOwn DEF OwnFields
<1>3. \A k \in DOMAIN ops :
        \/ k = 1 /\ ops[k] = <<"updateGroup", dialog.target>>
        \/ k = 2 /\ ~one /\ ops[2] = <<"addSubgroup", parent, dialog.target>>
  BY MaybeTwoElements
<1> HIDE DEF one, ops, parent
<1>4. \A k \in DOMAIN ops : SafeOp(ops, k, tree.links)
  BY <1>2, <1>3 DEF SafeOp
<1> QED
  BY <1>1, <1>4, SentSafe

LEMMA CycleCreated ==
  ASSUME AdminInv, CycleInv, ConfirmCreateGroup
  PROVE  CycleInv'
<1> DEFINE f == fields.group
           one == f.parent = NULL
           ops == <<<<"createGroup", f.name>>>> \o
                  IF one THEN << >> ELSE <<<<"addSubgroup", f.parent, f.name>>>>
<1>1. Send(By(dialog), ops) /\ UNCHANGED <<tableVars, tree, fields>>
  BY DEF ConfirmCreateGroup
<1>3. f.parent \in spent \union {NULL} /\ tree.links \subseteq spent \X spent
  BY DEF CycleInv, NamesSpent
<1>4. \A k \in DOMAIN ops :
        \/ k = 1 /\ ops[k] = <<"createGroup", f.name>>
        \/ /\ k = 2 /\ ~one /\ ops[2] = <<"addSubgroup", f.parent, f.name>>
           /\ ops[1] = <<"createGroup", f.name>>
  BY MaybeTwoElements
<1> HIDE DEF ops, f
<1>5. \A k \in DOMAIN ops : SafeOp(ops, k, tree.links)
  BY <1>3, <1>4 DEF SafeOp
<1> QED
  BY <1>1, <1>5, SentSafe

\* Saves that add no subgroup.
LEMMA CycleSent ==
  ASSUME AdminInv, CycleInv,
         \/ ConfirmDeleteGroup \/ SaveAsset \/ ConfirmTypeOp \/ ConfirmCreateAsset
         \/ \E a \in Assets : PickMember(a) \/ RemoveAsset(a) \/ \E g \in Groups : TakeOut(g, a)
         \/ \E t \in Types : Star(t)
  PROVE  CycleInv'
<1>1. CASE ConfirmDeleteGroup
  BY <1>1, OneSafeOp, SentSafe DEF ConfirmDeleteGroup
<1>2. CASE SaveAsset
  BY <1>2, OneSafeOp, SentSafe DEF SaveAsset
<1>3. ASSUME NEW a \in Assets, PickMember(a) PROVE CycleInv'
  BY <1>3, OneSafeOp, SentSafe DEF PickMember
<1>4. ASSUME NEW a \in Assets, RemoveAsset(a) PROVE CycleInv'
  BY <1>4, OneSafeOp, SentSafe DEF RemoveAsset
<1>5. ASSUME NEW a \in Assets, NEW g \in Groups, TakeOut(g, a) PROVE CycleInv'
  BY <1>5, OneSafeOp, SentSafe DEF TakeOut
<1>6. ASSUME NEW t \in Types, Star(t) PROVE CycleInv'
  BY <1>6, OneSafeOp, SentSafe DEF Star
<1>7. CASE ConfirmTypeOp
  <2>1. dialog.op[1] # "addSubgroup"
    BY <1>7 DEF ConfirmTypeOp, AdminInv, PageShape, DialogShape, TypeOp
  <2> QED
    BY <1>7, <2>1, OneSafeOp, SentSafe DEF ConfirmTypeOp
<1>8. CASE ConfirmCreateAsset
  <2> DEFINE f == fields.asset
             one == f.group = NULL
             ops == <<<<"createAsset", f.name, EffectiveType(f.type)>>>> \o
                    IF one THEN << >> ELSE <<<<"addMember", f.group, f.name>>>>
  <2>1. Send(By(dialog), ops) /\ UNCHANGED <<tableVars, tree, fields>>
    BY <1>8 DEF ConfirmCreateAsset
  <2>2. \A k \in DOMAIN ops : \/ ops[k] = <<"createAsset", f.name, EffectiveType(f.type)>>
                              \/ ops[k] = <<"addMember", f.group, f.name>>
    BY MaybeTwoElements
  <2> HIDE DEF ops
  <2>3. \A k \in DOMAIN ops : SafeOp(ops, k, tree.links)
    BY <2>2 DEF SafeOp
  <2> QED
    BY <2>1, <2>3, SentSafe
<1> QED
  BY <1>1, <1>2, <1>3, <1>4, <1>5, <1>6, <1>7, <1>8

\* A request of a save: a link it adds is safe by what its sender knew.
LEMMA SaveLinks ==
  ASSUME AdminInv, CycleInv, NEW i \in DOMAIN requests,
         Perform(requests[i].ops[1], requests[i].known)
  PROVE  TablesSpent' /\ CyclesExplained' /\ spent \subseteq spent'
<1> DEFINE op == requests[i].ops[1]
           known == requests[i].known
<1>1. Named(op) /\ Perform(op, known) /\ TablesSpent /\ CyclesExplained
  BY FirstNamed, TablesAreSpent DEF AdminInv
<1>2. SafeOp(requests[i].ops, 1, known)
  BY DEF CycleInv, SavesSafe, AdminInv, SavesNamed, NamedSave, NamedOps
<1>3. op[1] = "addSubgroup" => SafeLink(known, op[2], op[3])
  BY <1>2 DEF SafeOp
<1> HIDE DEF op, known
<1> QED
  BY <1>1, <1>3, PerformLinks

LEMMA CycleServed ==
  ASSUME AdminInv, CycleInv, Serve
  PROVE  CycleInv'
<1>1. PICK i \in DOMAIN requests : Served(i)
  BY DEF Serve
<1>2. tree' = tree /\ Perform(requests[i].ops[1], requests[i].known)
  BY <1>1 DEF Serve, Served
<1>3. TablesSpent /\ TablesSpent' /\ CyclesExplained' /\ spent \subseteq spent'
  BY <1>2, SaveLinks, TablesAreSpent
<1>4. fields.group.parent \in spent \union {NULL}
  BY DEF CycleInv, NamesSpent
<1>5. CASE Len(requests[i].ops) > 1
  <2>1. /\ requests' = [requests EXCEPT ![i].ops = Tail(@), ![i].first = FALSE]
        /\ UNCHANGED fields
    BY <1>1, <1>5 DEF Served
  <2>2. SavesSafe'
    BY <1>2, <1>3, <1>5, <2>1, AdvancedSafe
  <2> QED
    BY <1>2, <1>3, <1>4, <2>1, <2>2, CycleKept
<1>6. CASE ~(Len(requests[i].ops) > 1)
  <2>1. requests' = Without(i) /\ Finish(requests[i])
    BY <1>1, <1>6 DEF Served
  <2>2. SavesSafe'
    BY <1>3, <2>1, DroppedSafe
  <2>3. fields'.group.parent \in spent \union {NULL}
    <3>1. FieldsShape(fields)
      BY DEF AdminInv, PageShape
    <3> QED
      BY <1>4, <2>1, <3>1, FinishedFields
  <2> QED
    BY <1>2, <1>3, <2>2, <2>3, CycleKept
<1> QED
  BY <1>5, <1>6

LEMMA CycleEnded ==
  ASSUME AdminInv, CycleInv, Reject \/ LoseAnswer
  PROVE  CycleInv'
<1>1. UNCHANGED <<tree, fields>>
  BY DEF Reject, LoseAnswer
<1>2. fields'.group.parent \in spent \union {NULL}
  BY <1>1 DEF CycleInv, NamesSpent
<1>3. TablesSpent /\ CyclesExplained
  BY TablesAreSpent
<1>4. CASE Reject
  <2>1. UNCHANGED <<groups, links, spent, unguarded>> /\ \E i \in DOMAIN requests : requests' = Without(i)
    BY <1>4 DEF Reject, tableVars
  <2>2. TablesSpent' /\ CyclesExplained' /\ spent \subseteq spent'
    BY <1>3, <2>1 DEF TablesSpent, CyclesExplained
  <2> QED
    BY <1>1, <1>2, <1>3, <2>1, <2>2, DroppedSafe, CycleKept
<1>5. CASE LoseAnswer
  <2>1. PICK i \in DOMAIN requests :
           Perform(requests[i].ops[1], requests[i].known) /\ requests' = Without(i)
    BY <1>5 DEF LoseAnswer
  <2>2. TablesSpent' /\ CyclesExplained' /\ spent \subseteq spent'
    BY <2>1, SaveLinks
  <2> QED
    BY <1>1, <1>2, <1>3, <2>1, <2>2, DroppedSafe, CycleKept
<1> QED
  BY <1>4, <1>5

\* The other user does not choose from a tree: each of its links is unguarded.
LEMMA CycleOther ==
  ASSUME AdminInv, CycleInv, Other \/ CommitDefault
  PROVE  CycleInv'
<1>1. UNCHANGED <<tree, fields, requests>>
  BY DEF Other, CommitDefault, pageVars
<1>2. fields'.group.parent \in spent \union {NULL} /\ SavesSafe
  BY <1>1 DEF CycleInv, NamesSpent
<1>3. TablesSpent /\ CyclesExplained
  BY TablesAreSpent
<1>4. TablesSpent' /\ CyclesExplained' /\ spent \subseteq spent'
  <2>1. CASE Other
    <3>1. PICK op \in scene.others : Perform(op, NULL)
      BY <2>1 DEF Other
    <3>2. Named(op)
      BY AdminAssumption DEF AdminInv
    <3>3. NULL # links
      <4>1. links \in SUBSET (Groups \X Groups)
        BY <1>3 DEF TablesSpent
      <4> QED
        BY <4>1, AdminAssumption
    <3> QED
      BY <1>3, <3>1, <3>2, <3>3, PerformLinks
  <2>2. CASE CommitDefault
    <3>1. UNCHANGED <<groups, links, spent, unguarded>>
      BY <2>2 DEF CommitDefault, EndDefault
    <3> QED
      BY <1>3, <3>1 DEF TablesSpent, CyclesExplained
  <2> QED
    BY <2>1, <2>2
<1>5. SavesSafe'
  BY <1>1, <1>2, <1>4 DEF SavesSafe, SafeOp
<1> QED
  BY <1>1, <1>2, <1>3, <1>4, <1>5, CycleKept

LEMMA CycleStart == Init => CycleInv
<1> SUFFICES ASSUME Init PROVE CycleInv
  OBVIOUS
<1>1. /\ scene.groups \subseteq Groups /\ scene.links \subseteq scene.groups \X scene.groups
      /\ ~Cyclic(scene.links)
  BY AdminAssumption DEF Init
<1>2. groups = scene.groups /\ spent = scene.groups /\ links = scene.links /\ tree = Snapshot
      /\ requests = << >> /\ fields.group.parent = NULL
  BY DEF Init, Emptied
<1>3. NamesSpent /\ CyclesExplained
  BY <1>1, <1>2 DEF NamesSpent, CyclesExplained, Snapshot
<1>4. SavesSafe
  BY <1>2 DEF SavesSafe
<1> QED
  BY <1>3, <1>4 DEF CycleInv

LEMMA CycleGroupDialogs ==
  ASSUME AdminInv, CycleInv, GroupDialogs
  PROVE  CycleInv'
<1>1. ASSUME NEW via, NEW g, OpenDeleteGroup(via, g) \/ OpenAddMember(via, g) PROVE CycleInv'
  BY <1>1, CycleStill DEF OpenDeleteGroup, OpenAddMember
<1>2. ASSUME NEW via, OpenCreateGroup(via) PROVE CycleInv'
  BY <1>2, CycleStill DEF OpenCreateGroup
<1> QED
  BY <1>1, <1>2, CycleTyped, CycleSaved, CycleCreated, CycleSent DEF GroupDialogs

LEMMA CycleAssetDialogs ==
  ASSUME AdminInv, CycleInv, AssetDialogs
  PROVE  CycleInv'
<1>1. CASE OpenCreateAsset \/ OpenTypes \/ BeginTypeOp
  BY <1>1, CycleStill DEF OpenCreateAsset, OpenTypes, BeginTypeOp
<1> QED
  BY <1>1, CycleTyped, CycleSent DEF AssetDialogs

LEMMA CycleStep == AdminInv /\ CycleInv /\ [Next]_vars => CycleInv'
<1> SUFFICES ASSUME AdminInv, CycleInv, [Next]_vars PROVE CycleInv'
  OBVIOUS
<1>1. CASE FetchTypes \/ CloseDialog \/ UNCHANGED vars
  BY <1>1, CycleStill DEF FetchTypes, CloseDialog, vars, pageVars
<1> QED
  BY <1>1, CycleFetched, CycleTyped, CycleGroupDialogs, CycleAssetDialogs, CycleServed, CycleEnded,
     CycleOther DEF Next, Answers

\* Requests and refetches in any order close a cycle of groups only by a link that was
\* saved from a tree no longer current, or while some group has two parents
\* (GroupTreeSelector, GroupEditDialog.handleSave, add_subgroup).
THEOREM CyclesStayExplained == Spec => []CyclesExplained
<1>1. Init => AdminInv /\ CycleInv
  BY AdminStart, CycleStart
<1>2. AdminInv /\ CycleInv /\ [Next]_vars => (AdminInv /\ CycleInv)'
  BY AdminStep, CycleStep
<1>3. AdminInv /\ CycleInv => CyclesExplained
  BY DEF CycleInv
<1> QED
  BY <1>1, <1>2, <1>3, PTL DEF Spec

=============================================================================
