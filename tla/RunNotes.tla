------------------------------ MODULE RunNotes ------------------------------
(***************************************************************************)
(* Notes on evaluation runs and their categories: the tables of the API,   *)
(* the notes section with its forms, and the page that manages categories. *)
(* Deleting a category moves its notes to 'info' and deletes the row in a  *)
(* later statement; other requests commit in between. Re-evaluations write *)
(* under a system category; 'info' is none, and may be renamed or deleted. *)
(***************************************************************************)
EXTENDS Listings, FiniteSets, FiniteSetsExt

CONSTANTS
    NULL,
    INFO,           \* the name of the category that notes fall back to
    REEVAL,         \* the name of the system category of re-evaluations
    Names,          \* names of categories
    CatIds          \* ids of categories

ASSUME NamesAssumption == {INFO, REEVAL} \subseteq Names

VARIABLES
    categories,     \* the categories by id: [name, show, system]
    notes,          \* the notes in order of creation: [run, cat, group, hidden, width]
    deleting,       \* the transaction that deletes a category: [cat, info, moved], or NULL
    seenCats,       \* the cached list of categories
    seenNotes,      \* the cached notes of the runs: visible ones, with their category
    section,        \* the notes section: its run and its forms
    catPage         \* the management page: category form, and what it asked for

tableVars == <<categories, notes, deleting>>
noteVars == <<tableVars, seenCats, seenNotes, section, catPage>>

\* The columns of the two tables.
CategoryRow(c) == c \in [name : {c.name}, show : {c.show}, system : {c.system}]
NoteRow(n) ==
    n \in [run : {n.run}, cat : {n.cat}, group : {n.group}, hidden : {n.hidden},
           width : {n.width}]

\* Tables under the constraints of the database.
SoundTables(cats, list) ==
    /\ \A c \in DOMAIN cats : CategoryRow(cats[c])
    /\ \A c, d \in DOMAIN cats : cats[c].name = cats[d].name => c = d
    /\ \E c \in DOMAIN cats : cats[c].name = REEVAL /\ cats[c].system
    /\ cats = [c \in DOMAIN cats |-> cats[c]]
    /\ list \in Seq({list[i] : i \in DOMAIN list})
    /\ \A i \in DOMAIN list : NoteRow(list[i]) /\ list[i].cat \in DOMAIN cats

-----------------------------------------------------------------------------
(* The API.                                                                *)

Taken(cats, name, id) == \E c \in DOMAIN cats \ {id} : cats[c].name = name

\* Insert a category: names are unique.
Created(cats, id, fields) ==
    IF Taken(cats, fields.name, id) THEN cats
    ELSE [c \in DOMAIN cats \union {id} |->
             IF c = id THEN [name |-> fields.name, show |-> fields.show, system |-> FALSE]
             ELSE cats[c]]

\* Patch a category; a system category keeps its name.
MayPatch(cats, id, fields) ==
    /\ id \in DOMAIN cats
    /\ cats[id].system => fields.name = cats[id].name
    /\ ~Taken(cats, fields.name, id)

Patched(cats, id, fields) ==
    IF MayPatch(cats, id, fields)
    THEN [cats EXCEPT ![id].name = fields.name, ![id].show = fields.show]
    ELSE cats

\* A note is inserted when its category exists: the foreign key. (An insert
\* beside an open delete of its category waits for the delete to end, so it
\* is one that came before the delete's last statement or after its commit.)
MayInsert(note) == note.cat \in DOMAIN categories

Exists(name) == \E c \in DOMAIN categories : categories[c].name = name
IdOf(name) == CHOOSE c \in DOMAIN categories : categories[c].name = name

\* DELETE /note-categories/{id}, up to the statement that moves its notes to
\* 'info', which may be the category itself.
BeginDelete(c) ==
    /\ deleting = NULL
    /\ c \in DOMAIN categories
    /\ ~categories[c].system
    /\ Exists(INFO)
    /\ deleting' = [cat |-> c, info |-> IdOf(INFO), moved |-> {i \in DOMAIN notes : notes[i].cat = c}]
    /\ UNCHANGED <<categories, notes, seenCats, seenNotes, section, catPage>>

Orphans_Ignored(txn) == {}

\* Notes committed since then still refer to the category, and all notes of
\* 'info' do.
Orphans(txn) ==
    {i \in DOMAIN notes : notes[i].cat = txn.cat /\ (i \in txn.moved => txn.info = txn.cat)}

\* The DELETE statement and the commit; a foreign key that does not hold rolls
\* the whole request back.
EndDelete ==
    /\ deleting # NULL
    /\ deleting' = NULL
    /\ IF Orphans(deleting) # {} THEN UNCHANGED <<categories, notes>>
       ELSE /\ notes' = [i \in DOMAIN notes |->
                           IF i \in deleting.moved THEN [notes[i] EXCEPT !.cat = deleting.info] ELSE notes[i]]
            /\ categories' = [c \in DOMAIN categories \ {deleting.cat} |-> categories[c]]
    /\ UNCHANGED <<seenCats, seenNotes, section, catPage>>

\* A client of the API that is no page gives a note another category, which has
\* to exist; the statement waits while a delete holds the row of the note.
UpdateNote(i, c) ==
    /\ c \in DOMAIN categories
    /\ deleting # NULL => i \notin deleting.moved
    /\ notes' = [notes EXCEPT ![i].cat = c]
    /\ UNCHANGED <<categories, deleting, seenCats, seenNotes, section, catPage>>

-----------------------------------------------------------------------------
(* The notes section.                                                      *)

NoForm == [open |-> FALSE, width |-> 0, cat |-> NULL]

\* What the lists answer: notes that are not hidden, each with its category.
AnnotationRead(i) ==
    [id |-> i, run |-> notes[i].run, group |-> notes[i].group, width |-> notes[i].width,
     show |-> categories[notes[i].cat].show]

ListNotes ==
    LET ids == InOrder({i \in DOMAIN notes : ~notes[i].hidden}, Len(notes))
    IN  [k \in DOMAIN ids |-> AnnotationRead(ids[k])]

\* A confirmation stays while its entry does: an entry is keyed by its note or,
\* for a group, by the group, which may have notes on several runs.
KeptHiding(run, list) ==
    {id \in section.hiding : \E k \in DOMAIN list :
        /\ list[k].run = run
        /\ \/ list[k].id = id
           \/ list[k].group # NULL /\ list[k].group = notes[id].group}

FetchNotes ==
    /\ seenNotes' = ListNotes
    /\ section' = [section EXCEPT !.hiding = KeptHiding(section.run, seenNotes')]
    /\ UNCHANGED <<tableVars, seenCats, catPage>>

FetchCategories ==
    /\ seenCats' = categories
    /\ UNCHANGED <<tableVars, seenNotes, section, catPage>>

\* Another evaluation is shown: from the cache the section stays mounted with
\* what was typed, otherwise the page loads and the section starts afresh.
ShowRun(run, cached) ==
    /\ run # section.run
    /\ section' = IF cached THEN [section EXCEPT !.run = run, !.hiding = KeptHiding(run, seenNotes)]
                  ELSE [run |-> run, form |-> NoForm, hiding |-> {}]
    /\ UNCHANGED <<tableVars, seenCats, seenNotes, catPage>>

ToggleForm ==
    /\ section' = [section EXCEPT !.form = [NoForm EXCEPT !.open = ~section.form.open]]
    /\ UNCHANGED <<tableVars, seenCats, seenNotes, catPage>>

TypeNote(width) ==
    /\ section.form.open
    /\ section' = [section EXCEPT !.form.width = width]
    /\ UNCHANGED <<tableVars, seenCats, seenNotes, catPage>>

PickCategory(c) ==
    /\ section.form.open
    /\ c \in DOMAIN seenCats
    /\ section' = [section EXCEPT !.form.cat = c]
    /\ UNCHANGED <<tableVars, seenCats, seenNotes, catPage>>

\* The category that is sent: the picked one, also when it has gone meanwhile,
\* else 'info', else the first of the list.
EffectiveId ==
    LET infos == {c \in DOMAIN seenCats : seenCats[c].name = INFO}
    IN  IF section.form.cat # NULL THEN section.form.cat
        ELSE IF infos # {} THEN CHOOSE c \in infos : TRUE
        ELSE IF seenCats # << >> THEN CHOOSE c \in DOMAIN seenCats : TRUE
        ELSE NULL

\* Save: the note is added to the run that is shown now. A refused insert and
\* an answer that is lost leave the form as it is.
SaveNote(lost) ==
    LET note == [run |-> section.run, cat |-> EffectiveId, group |-> NULL, hidden |-> FALSE,
                 width |-> section.form.width]
    IN  /\ section.form.open /\ section.form.width > 0 /\ EffectiveId # NULL
        /\ IF MayInsert(note)
           THEN /\ notes' = Append(notes, note)
                /\ section' = IF lost THEN section ELSE [section EXCEPT !.form = NoForm]
           ELSE UNCHANGED <<notes, section>>
        /\ UNCHANGED <<categories, deleting, seenCats, seenNotes, catPage>>

\* The cross beside a note opens its confirmation. A group of notes has one
\* confirmation for all of them.
AskHide(k) ==
    /\ k \in DOMAIN seenNotes
    /\ seenNotes[k].run = section.run
    /\ section' = [section EXCEPT !.hiding =
          {id \in section.hiding : \/ seenNotes[k].group = NULL
                                   \/ notes[id].group # seenNotes[k].group} \union {seenNotes[k].id}]
    /\ UNCHANGED <<tableVars, seenCats, seenNotes, catPage>>

\* Confirmed: the note is hidden, however often. The statement waits while a
\* delete of its category holds the row.
ConfirmHide(id) ==
    /\ id \in section.hiding
    /\ deleting # NULL => id \notin deleting.moved
    /\ notes' = [notes EXCEPT ![id].hidden = TRUE]
    /\ section' = [section EXCEPT !.hiding = @ \ {id}]
    /\ UNCHANGED <<categories, deleting, seenCats, seenNotes, catPage>>

\* A re-evaluation adds its notes, one for each SLO, as a group.
ReEvaluationNote(run, group, width) ==
    /\ Exists(REEVAL)
    /\ notes' = Append(notes, [run |-> run, cat |-> IdOf(REEVAL), group |-> group, hidden |-> FALSE,
                               width |-> width])
    /\ UNCHANGED <<categories, deleting, seenCats, seenNotes, section, catPage>>

SameGroup(j, k) ==
    seenNotes[j].run = seenNotes[k].run /\ seenNotes[j].group = seenNotes[k].group

GroupSeen_Last(k) == \E j \in k + 1..Len(seenNotes) : SameGroup(j, k)

\* An earlier note of the list is of the same group.
GroupSeen(k) == \E j \in 1..k - 1 : SameGroup(j, k)

\* The entries of the section: single notes, and each group where its first
\* note stands, with all of its notes.
NoteList(run) ==
    LET mine == {k \in DOMAIN seenNotes : seenNotes[k].run = run}
        single(k) == seenNotes[k].group = NULL
        heads == InOrder({k \in mine : single(k) \/ ~GroupSeen(k)}, Len(seenNotes))
        members(k) == InOrder(IF single(k) THEN {k} ELSE {j \in mine : SameGroup(j, k)}, Len(seenNotes))
    IN  [e \in DOMAIN heads |-> [x \in DOMAIN members(heads[e]) |-> seenNotes[members(heads[e])[x]]]]

-----------------------------------------------------------------------------
(* The page that manages categories.                                       *)

FieldsOf(c) == [name |-> seenCats[c].name, show |-> seenCats[c].show]

ToggleShow(c) ==
    /\ c \in DOMAIN seenCats
    /\ categories' = IF c \notin DOMAIN categories THEN categories
                     ELSE [categories EXCEPT ![c].show = ~seenCats[c].show]
    /\ UNCHANGED <<notes, deleting, seenCats, seenNotes, section, catPage>>

\* Edit opens the form; while it is open for another row, its fields stay.
EditCategory(c) ==
    /\ c \in DOMAIN seenCats
    /\ catPage' = [catPage EXCEPT !.editing =
          [id |-> c, system |-> seenCats[c].system,
           fields |-> IF @ = NULL THEN FieldsOf(c) ELSE @.fields]]
    /\ UNCHANGED <<tableVars, seenCats, seenNotes, section>>

AddCategory ==
    /\ catPage.creating = NULL
    /\ catPage' = [catPage EXCEPT !.creating = [name |-> NULL, show |-> TRUE]]
    /\ UNCHANGED <<tableVars, seenCats, seenNotes, section>>

\* The name of a system category cannot be typed over.
EnterFields(fields) ==
    /\ \/ /\ catPage.creating # NULL
          /\ catPage' = [catPage EXCEPT !.creating = fields]
       \/ /\ catPage.editing # NULL
          /\ catPage.editing.system => fields.name = catPage.editing.fields.name
          /\ catPage' = [catPage EXCEPT !.editing.fields = fields]
    /\ UNCHANGED <<tableVars, seenCats, seenNotes, section>>

\* Save: a form closes when its request was accepted.
SubmitCreate(id) ==
    /\ catPage.creating # NULL /\ catPage.creating.name # NULL
    /\ id \notin DOMAIN categories \union DOMAIN seenCats \union {section.form.cat}
    /\ categories' = Created(categories, id, catPage.creating)
    /\ catPage' = [catPage EXCEPT !.creating = IF id \in DOMAIN categories' THEN NULL ELSE @]
    /\ UNCHANGED <<notes, deleting, seenCats, seenNotes, section>>

SubmitEdit ==
    LET edit == catPage.editing
    IN  /\ edit # NULL
        /\ categories' = Patched(categories, edit.id, edit.fields)
        /\ catPage' = [catPage EXCEPT !.editing =
              IF MayPatch(categories, edit.id, edit.fields) THEN NULL ELSE edit]
        /\ UNCHANGED <<notes, deleting, seenCats, seenNotes, section>>

CancelCategory ==
    /\ catPage' = [creating |-> NULL, editing |-> NULL]
    /\ UNCHANGED <<tableVars, seenCats, seenNotes, section>>

-----------------------------------------------------------------------------
(* Properties.                                                             *)

\* Every note has a category that exists, names are unique and the system's
\* category stays, whatever was written to a category while its deletion was
\* under way, and also when the fallback 'info' is renamed or deleted.
NotesCategorised ==
    /\ \A i \in DOMAIN notes : notes[i].cat \in DOMAIN categories
    /\ \A c, d \in DOMAIN categories : categories[c].name = categories[d].name => c = d
    /\ \E c \in DOMAIN categories : categories[c].name = REEVAL /\ categories[c].system

\* The section shows each cached note of its run once, the notes of a group in
\* one entry, and entries in the order in which they were begun.
NotesListedOnce ==
    LET mine == {k \in DOMAIN seenNotes : seenNotes[k].run = section.run}
        list == NoteList(section.run)
    IN  /\ \A k \in mine : \E e \in DOMAIN list : \E x \in DOMAIN list[e] : list[e][x] = seenNotes[k]
        /\ \A e \in DOMAIN list : \A x \in DOMAIN list[e] : \E k \in mine : list[e][x] = seenNotes[k]
        /\ \A e, f \in DOMAIN list : \A x \in DOMAIN list[e], y \in DOMAIN list[f] :
              list[e][x].id = list[f][y].id => e = f /\ x = y
        /\ \A e, f \in DOMAIN list : e < f => list[e][1].id < list[f][1].id
        /\ \A e, f \in DOMAIN list :
              list[e][1].group # NULL /\ list[e][1].group = list[f][1].group => e = f
=============================================================================
