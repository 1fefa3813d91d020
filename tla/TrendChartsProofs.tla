------------------------- MODULE TrendChartsProofs -------------------------
(***************************************************************************)
(* Proofs about TrendCharts for any metrics, generations, notes, maps and  *)
(* points: the tables of notes and categories, tooltips, the switches of   *)
(* charts, the frame of the value axis, heatmap cells, the list of notes   *)
(* and their pills.                                                        *)
(***************************************************************************)
EXTENDS TrendCharts, FiniteSetTheorems, SequenceTheorems, TLAPS

-----------------------------------------------------------------------------
(* Tables of notes and categories.                                         *)

\* The category that is being deleted is still there, and not the system's; so is the
\* one its notes move to. The notes that were found are still of the category.
DeletingKnown ==
    deleting # NULL =>
        /\ deleting.cat \in DOMAIN categories /\ ~categories[deleting.cat].system
        /\ deleting.info \in DOMAIN categories
        /\ \A i \in deleting.moved : i \in DOMAIN notes /\ notes[i].cat = deleting.cat

NotesInv == SoundTables(categories, notes) /\ DeletingKnown

\* Sequences are listed with their own elements, whatever set they were made over.
LEMMA SeqListed ==
  ASSUME NEW S, NEW s \in Seq(S)
  PROVE  s \in Seq({s[i] : i \in DOMAIN s})
<1>1. Len(s) \in Nat /\ DOMAIN s = 1..Len(s) /\ s \in [1..Len(s) -> S]
  BY LenProperties
<1> DEFINE T == {s[i] : i \in DOMAIN s}
<1>2. s \in [1..Len(s) -> T]
  BY <1>1
<1> HIDE DEF T
<1>3. s \in UNION {[1..n -> T] : n \in Nat}
  BY <1>1, <1>2
<1>4. s \in Seq(T)
  BY <1>3, SeqDef
<1> QED
  BY <1>4 DEF T

\* A function over the indices of a sequence is a sequence.
LEMMA MappedListed ==
  ASSUME NEW s, s \in Seq({s[i] : i \in DOMAIN s}), NEW f, DOMAIN f = DOMAIN s,
         f = [i \in DOMAIN f |-> f[i]]
  PROVE  f \in Seq({f[i] : i \in DOMAIN f})
<1>1. Len(s) \in Nat /\ DOMAIN s = 1..Len(s)
  BY LenProperties
<1> DEFINE T == {f[i] : i \in DOMAIN f}
<1>2. f \in [1..Len(s) -> T]
  BY <1>1
<1> HIDE DEF T
<1>3. f \in UNION {[1..n -> T] : n \in Nat}
  BY <1>1, <1>2
<1>4. f \in Seq(T)
  BY <1>3, SeqDef
<1> QED
  BY <1>4 DEF T

\* A sequence that one element is appended to keeps its own.
LEMMA Appended ==
  ASSUME NEW list, list \in Seq({list[i] : i \in DOMAIN list}), NEW x
  PROVE  LET new == Append(list, x)
         IN  /\ new \in Seq({new[i] : i \in DOMAIN new})
             /\ \A i \in DOMAIN list : i \in DOMAIN new /\ new[i] = list[i]
             /\ \A i \in DOMAIN new : i \in DOMAIN list \/ new[i] = x
<1> DEFINE new == Append(list, x)
           T == {list[i] : i \in DOMAIN list}
<1>1. list \in Seq(T)
  OBVIOUS
<1>2. Len(list) \in Nat /\ DOMAIN list = 1..Len(list) /\ list \in [1..Len(list) -> T]
  BY <1>1, LenProperties
<1> HIDE DEF T
<1>3. list \in [1..Len(list) -> T \union {x}]
  BY <1>2
<1>4. list \in UNION {[1..n -> T \union {x}] : n \in Nat}
  BY <1>2, <1>3
<1>5. list \in Seq(T \union {x})
  BY <1>4, SeqDef
<1>6. /\ new \in Seq(T \union {x})
      /\ Len(new) = Len(list) + 1
      /\ \A i \in 1..Len(list) : new[i] = list[i]
      /\ new[Len(list) + 1] = x
  BY <1>5, AppendProperties
<1> HIDE DEF new
<1>7. DOMAIN new = 1..Len(list) + 1
  BY <1>6, LenProperties
<1>8. new \in Seq({new[i] : i \in DOMAIN new})
  BY <1>6, SeqListed
<1>9. /\ \A i \in DOMAIN list : i \in DOMAIN new /\ new[i] = list[i]
      /\ \A i \in DOMAIN new : i \in DOMAIN list \/ new[i] = x
  BY <1>2, <1>6, <1>7
<1> QED
  BY <1>8, <1>9 DEF new

\* A note that is added to a sound list under a known category.
LEMMA NoteAdded ==
  ASSUME NEW cats, NEW list, SoundTables(cats, list),
         NEW note, NoteRow(note), note.cat \in DOMAIN cats
  PROVE  SoundTables(cats, Append(list, note))
<1> DEFINE new == Append(list, note)
<1>0. list \in Seq({list[i] : i \in DOMAIN list})
  BY DEF SoundTables
<1>1. /\ new \in Seq({new[i] : i \in DOMAIN new})
      /\ \A i \in DOMAIN list : i \in DOMAIN new /\ new[i] = list[i]
      /\ \A i \in DOMAIN new : i \in DOMAIN list \/ new[i] = note
  BY <1>0, Appended
<1> HIDE DEF new
<1>2. \A i \in DOMAIN new : NoteRow(new[i]) /\ new[i].cat \in DOMAIN cats
  BY <1>1 DEF SoundTables
<1>3. SoundTables(cats, new)
  BY <1>1, <1>2 DEF SoundTables
<1> QED
  BY <1>3 DEF new

\* A category found by its name is one of the table.
LEMMA IdFound ==
  ASSUME NEW name, Exists(name)
  PROVE  IdOf(name) \in DOMAIN categories
BY DEF Exists, IdOf

\* Notes keep their places when one is added.
LEMMA NotesAppended ==
  ASSUME NotesInv, NEW note, notes' = Append(notes, note), UNCHANGED <<categories, deleting>>
  PROVE  DeletingKnown'
<1>1. \A i \in DOMAIN notes : i \in DOMAIN notes' /\ notes'[i] = notes[i]
  BY Appended DEF NotesInv, SoundTables
<1> QED
  BY <1>1 DEF NotesInv, DeletingKnown

LEMMA NotesStart == Init => NotesInv
<1> SUFFICES ASSUME Init PROVE NotesInv
  OBVIOUS
<1>1. SoundTables(scene.cats, scene.notes)
  BY ScenesAssumption DEF Init
<1> QED
  BY <1>1 DEF Init, NotesInv, DeletingKnown

\* Deleting a category moves its notes to 'info', or nothing happens.
LEMMA EndDeleteKeeps ==
  ASSUME NotesInv, EndDelete
  PROVE  NotesInv'
<1>1. CASE Orphans(deleting) # {}
  BY <1>1 DEF NotesInv, SoundTables, DeletingKnown, EndDelete
<1>2. CASE Orphans(deleting) = {}
  <2>1. /\ notes' = [i \in DOMAIN notes |->
                       IF i \in deleting.moved THEN [notes[i] EXCEPT !.cat = deleting.info] ELSE notes[i]]
        /\ categories' = [c \in DOMAIN categories \ {deleting.cat} |-> categories[c]]
        /\ deleting # NULL /\ deleting' = NULL
    BY <1>2 DEF EndDelete
  <2>2. \A i \in deleting.moved : deleting.info \in DOMAIN categories \ {deleting.cat}
    BY <1>2, <2>1 DEF NotesInv, DeletingKnown, Orphans
  <2>3. /\ DOMAIN categories' = DOMAIN categories \ {deleting.cat}
        /\ \A c \in DOMAIN categories' : categories'[c] = categories[c]
    BY <2>1
  <2>4. \A c \in DOMAIN categories' : CategoryRow(categories'[c])
    BY <2>3 DEF NotesInv, SoundTables
  <2>5. \A c, d \in DOMAIN categories' : categories'[c].name = categories'[d].name => c = d
    BY <2>3 DEF NotesInv, SoundTables
  <2>6. \E c \in DOMAIN categories' : categories'[c].name = REEVAL /\ categories'[c].system
    <3>1. PICK c \in DOMAIN categories : categories[c].name = REEVAL /\ categories[c].system
      BY DEF NotesInv, SoundTables
    <3>2. c # deleting.cat
      BY <3>1, <2>1 DEF NotesInv, DeletingKnown
    <3> QED
      BY <3>1, <3>2, <2>3
  <2>7. categories' = [c \in DOMAIN categories' |-> categories'[c]]
    BY <2>1
  <2>8. notes' \in Seq({notes'[i] : i \in DOMAIN notes'})
    <3>1. notes \in Seq({notes[i] : i \in DOMAIN notes})
      BY DEF NotesInv, SoundTables
    <3>2. DOMAIN notes' = DOMAIN notes /\ notes' = [i \in DOMAIN notes' |-> notes'[i]]
      BY <2>1
    <3> QED
      BY <3>1, <3>2, MappedListed
  <2>9. ASSUME NEW i \in DOMAIN notes'
        PROVE  NoteRow(notes'[i]) /\ notes'[i].cat \in DOMAIN categories'
    <3>1. i \in DOMAIN notes /\ NoteRow(notes[i]) /\ notes[i].cat \in DOMAIN categories
      BY <2>1 DEF NotesInv, SoundTables
    <3>2. CASE i \in deleting.moved
      <4>1. notes'[i] = [notes[i] EXCEPT !.cat = deleting.info]
        BY <2>1, <3>1, <3>2
      <4>2. NoteRow(notes'[i]) /\ notes'[i].cat = deleting.info
        BY <4>1, <3>1 DEF NoteRow
      <4> QED
        BY <4>2, <3>2, <2>2, <2>3
    <3>3. CASE i \notin deleting.moved
      <4>1. notes'[i] = notes[i]
        BY <2>1, <3>1, <3>3
      <4>2. notes[i].cat # deleting.cat
        BY <1>2, <3>1, <3>3 DEF Orphans
      <4> QED
        BY <4>1, <4>2, <3>1, <2>3
    <3> QED
      BY <3>2, <3>3
  <2> QED
    BY <2>1, <2>4, <2>5, <2>6, <2>7, <2>8, <2>9 DEF NotesInv, SoundTables, DeletingKnown
<1> QED
  BY <1>1, <1>2

\* A confirmed note is hidden and keeps its category.
LEMMA ConfirmHideKeeps ==
  ASSUME NotesInv, NEW id, ConfirmHide(id)
  PROVE  NotesInv'
<1>1. notes' = [notes EXCEPT ![id].hidden = TRUE] /\ UNCHANGED <<categories, deleting>>
  BY DEF ConfirmHide
<1>2. notes \in Seq({notes[i] : i \in DOMAIN notes})
  BY DEF NotesInv, SoundTables
<1>3. DOMAIN notes' = DOMAIN notes /\ notes' = [i \in DOMAIN notes' |-> notes'[i]]
  BY <1>1
<1>4. notes' \in Seq({notes'[i] : i \in DOMAIN notes'})
  BY <1>2, <1>3, MappedListed
<1>5. ASSUME NEW i \in DOMAIN notes'
      PROVE  NoteRow(notes'[i]) /\ notes'[i].cat \in DOMAIN categories
  <2>1. i \in DOMAIN notes /\ NoteRow(notes[i]) /\ notes[i].cat \in DOMAIN categories
    BY <1>3 DEF NotesInv, SoundTables
  <2>2. CASE i = id
    <3>1. notes'[i] = [notes[i] EXCEPT !.hidden = TRUE]
      BY <1>1, <2>1, <2>2
    <3> QED
      BY <3>1, <2>1 DEF NoteRow
  <2>3. CASE i # id
    BY <1>1, <2>1, <2>3
  <2> QED
    BY <2>2, <2>3
<1>6. SoundTables(categories, notes')
  BY <1>4, <1>5 DEF NotesInv, SoundTables
<1>7. \A i \in DOMAIN notes : i # id => notes'[i] = notes[i]
  BY <1>1
<1>8. DeletingKnown'
  BY <1>1, <1>3, <1>7 DEF ConfirmHide, NotesInv, DeletingKnown
<1> QED
  BY <1>6, <1>8, <1>1 DEF NotesInv

\* A note gets another category that exists.
LEMMA UpdateNoteKeeps ==
  ASSUME NotesInv, NEW id, NEW to, UpdateNote(id, to)
  PROVE  NotesInv'
<1>1. /\ notes' = [notes EXCEPT ![id].cat = to]
      /\ to \in DOMAIN categories
      /\ UNCHANGED <<categories, deleting>>
  BY DEF UpdateNote
<1>2. notes \in Seq({notes[i] : i \in DOMAIN notes})
  BY DEF NotesInv, SoundTables
<1>3. DOMAIN notes' = DOMAIN notes /\ notes' = [i \in DOMAIN notes' |-> notes'[i]]
  BY <1>1
<1>4. notes' \in Seq({notes'[i] : i \in DOMAIN notes'})
  BY <1>2, <1>3, MappedListed
<1>5. \A i \in DOMAIN notes : i # id => notes'[i] = notes[i]
  BY <1>1
<1>6. ASSUME NEW i \in DOMAIN notes'
      PROVE  NoteRow(notes'[i]) /\ notes'[i].cat \in DOMAIN categories
  <2>1. i \in DOMAIN notes /\ NoteRow(notes[i]) /\ notes[i].cat \in DOMAIN categories
    BY <1>3 DEF NotesInv, SoundTables
  <2>2. CASE i = id
    <3>1. notes'[i] = [notes[i] EXCEPT !.cat = to]
      BY <1>1, <2>1, <2>2
    <3> QED
      BY <3>1, <2>1, <1>1 DEF NoteRow
  <2>3. CASE i # id
    BY <1>5, <2>1, <2>3
  <2> QED
    BY <2>2, <2>3
<1>7. SoundTables(categories, notes')
  BY <1>4, <1>6 DEF NotesInv, SoundTables
<1>8. DeletingKnown'
  BY <1>1, <1>3, <1>5 DEF UpdateNote, NotesInv, DeletingKnown
<1> QED
  BY <1>7, <1>8, <1>1 DEF NotesInv

\* A saved note, or one of a re-evaluation, is of a category that exists.
LEMMA SaveNoteKeeps ==
  ASSUME NotesInv, NEW lost, SaveNote(lost)
  PROVE  NotesInv'
<1> DEFINE note == [run |-> section.run, cat |-> EffectiveId, group |-> NULL, hidden |-> FALSE,
                    width |-> section.form.width]
<1>1. UNCHANGED <<categories, deleting>>
  BY DEF SaveNote
<1>2. CASE MayInsert(note)
  <2>1. notes' = Append(notes, note)
    BY <1>2 DEF SaveNote
  <2>2. NoteRow(note) /\ note.cat \in DOMAIN categories
    BY <1>2 DEF NoteRow, MayInsert
  <2> HIDE DEF note
  <2>3. SoundTables(categories, notes')
    BY <2>1, <2>2, NoteAdded DEF NotesInv
  <2>4. DeletingKnown'
    BY <2>1, <1>1, NotesAppended
  <2> QED
    BY <2>3, <2>4, <1>1 DEF NotesInv
<1>3. CASE ~MayInsert(note)
  <2>1. UNCHANGED notes
    BY <1>3 DEF SaveNote
  <2> QED
    BY <1>1, <2>1 DEF NotesInv, SoundTables, DeletingKnown
<1> QED
  BY <1>2, <1>3

LEMMA ReEvaluationNoteKeeps ==
  ASSUME NotesInv, NEW run, NEW group, NEW w, ReEvaluationNote(run, group, w)
  PROVE  NotesInv'
<1> DEFINE note == [run |-> run, cat |-> IdOf(REEVAL), group |-> group, hidden |-> FALSE,
                    width |-> w]
<1>1. notes' = Append(notes, note) /\ UNCHANGED <<categories, deleting>>
  BY DEF ReEvaluationNote
<1>2. NoteRow(note) /\ note.cat \in DOMAIN categories
  BY IdFound DEF NoteRow, ReEvaluationNote
<1> HIDE DEF note
<1>3. SoundTables(categories, notes')
  BY <1>1, <1>2, NoteAdded DEF NotesInv
<1>4. DeletingKnown'
  BY <1>1, NotesAppended
<1> QED
  BY <1>1, <1>3, <1>4 DEF NotesInv

\* What a change of the categories has to keep.
LEMMA CategoriesChanged ==
  ASSUME NotesInv, UNCHANGED <<notes, deleting>>,
         DOMAIN categories \subseteq DOMAIN categories',
         categories' = [c \in DOMAIN categories' |-> categories'[c]],
         \A c \in DOMAIN categories' : CategoryRow(categories'[c]),
         \A c, d \in DOMAIN categories' : categories'[c].name = categories'[d].name => c = d,
         \A c \in DOMAIN categories :
             /\ categories'[c].system = categories[c].system
             /\ categories[c].system => categories'[c].name = categories[c].name
  PROVE  NotesInv'
<1>1. PICK c \in DOMAIN categories : categories[c].name = REEVAL /\ categories[c].system
  BY DEF NotesInv, SoundTables
<1>2. \E d \in DOMAIN categories' : categories'[d].name = REEVAL /\ categories'[d].system
  BY <1>1
<1>3. notes' = notes /\ deleting' = deleting
  OBVIOUS
<1>4. \A i \in DOMAIN notes : NoteRow(notes[i]) /\ notes[i].cat \in DOMAIN categories'
  BY DEF NotesInv, SoundTables
<1>5. SoundTables(categories', notes')
  BY <1>2, <1>3, <1>4 DEF NotesInv, SoundTables
<1> QED
  BY <1>5, <1>3 DEF NotesInv, DeletingKnown

LEMMA ToggleShowKeeps ==
  ASSUME NotesInv, NEW id, ToggleShow(id)
  PROVE  NotesInv'
<1>1. CASE id \notin DOMAIN categories
  BY <1>1 DEF ToggleShow, NotesInv, SoundTables, DeletingKnown
<1>2. CASE id \in DOMAIN categories
  <2>1. /\ categories' = [categories EXCEPT ![id].show = ~seenCats[id].show]
        /\ UNCHANGED <<notes, deleting>>
    BY <1>2 DEF ToggleShow
  <2>2. DOMAIN categories' = DOMAIN categories /\ categories' = [c \in DOMAIN categories' |-> categories'[c]]
    BY <2>1
  <2>3. ASSUME NEW c \in DOMAIN categories
        PROVE  /\ CategoryRow(categories'[c])
               /\ categories'[c].name = categories[c].name
               /\ categories'[c].system = categories[c].system
    <3>1. CategoryRow(categories[c])
      BY DEF NotesInv, SoundTables
    <3>2. CASE c = id
      <4>1. categories'[c] = [categories[c] EXCEPT !.show = ~seenCats[id].show]
        BY <2>1, <3>2
      <4> QED
        BY <4>1, <3>1 DEF CategoryRow
    <3>3. CASE c # id
      BY <2>1, <3>1, <3>3
    <3> QED
      BY <3>2, <3>3
  <2>4. \A c, d \in DOMAIN categories' : categories'[c].name = categories'[d].name => c = d
    BY <2>2, <2>3 DEF NotesInv, SoundTables
  <2> QED
    BY <2>1, <2>2, <2>3, <2>4, CategoriesChanged
<1> QED
  BY <1>1, <1>2

LEMMA SubmitCreateKeeps ==
  ASSUME NotesInv, NEW id, SubmitCreate(id)
  PROVE  NotesInv'
<1> DEFINE fields == catPage.creating
<1>1. categories' = Created(categories, id, fields) /\ UNCHANGED <<notes, deleting>>
  BY DEF SubmitCreate
<1>2. id \notin DOMAIN categories
  BY DEF SubmitCreate
<1> HIDE DEF fields
<1>3. CASE Taken(categories, fields.name, id)
  BY <1>1, <1>3 DEF Created, NotesInv, SoundTables, DeletingKnown
<1>4. CASE ~Taken(categories, fields.name, id)
  <2> DEFINE new == [name |-> fields.name, show |-> fields.show, system |-> FALSE]
  <2>1. /\ DOMAIN categories' = DOMAIN categories \union {id}
        /\ categories' = [c \in DOMAIN categories' |-> categories'[c]]
        /\ categories'[id] = new
        /\ \A c \in DOMAIN categories : categories'[c] = categories[c]
    BY <1>1, <1>2, <1>4 DEF Created
  <2>2. CategoryRow(new) /\ new.name = fields.name
    BY DEF CategoryRow
  <2>3. \A c \in DOMAIN categories : categories[c].name # fields.name
    BY <1>2, <1>4 DEF Taken
  <2> HIDE DEF new
  <2>4. \A c \in DOMAIN categories' : CategoryRow(categories'[c])
    BY <2>1, <2>2 DEF NotesInv, SoundTables
  <2>5. \A c, d \in DOMAIN categories' : categories'[c].name = categories'[d].name => c = d
    BY <2>1, <2>2, <2>3 DEF NotesInv, SoundTables
  <2> QED
    BY <1>1, <2>1, <2>4, <2>5, CategoriesChanged
<1> QED
  BY <1>3, <1>4

LEMMA SubmitEditKeeps ==
  ASSUME NotesInv, SubmitEdit
  PROVE  NotesInv'
<1> DEFINE id == catPage.editing.id
           fields == catPage.editing.fields
<1>1. categories' = Patched(categories, id, fields) /\ UNCHANGED <<notes, deleting>>
  BY DEF SubmitEdit
<1> HIDE DEF id, fields
<1>2. CASE ~MayPatch(categories, id, fields)
  BY <1>1, <1>2 DEF Patched, NotesInv, SoundTables, DeletingKnown
<1>3. CASE MayPatch(categories, id, fields)
  <2>1. categories' = [categories EXCEPT ![id].name = fields.name, ![id].show = fields.show]
    BY <1>1, <1>3 DEF Patched
  <2>2. DOMAIN categories' = DOMAIN categories /\ categories' = [c \in DOMAIN categories' |-> categories'[c]]
    BY <2>1
  <2>3. /\ id \in DOMAIN categories
        /\ categories[id].system => fields.name = categories[id].name
        /\ \A c \in DOMAIN categories \ {id} : categories[c].name # fields.name
    BY <1>3 DEF MayPatch, Taken
  <2>4. /\ CategoryRow(categories'[id])
        /\ categories'[id].name = fields.name
        /\ categories'[id].system = categories[id].system
    <3>1. CategoryRow(categories[id])
      BY <2>3 DEF NotesInv, SoundTables
    <3>2. categories'[id] = [categories[id] EXCEPT !.name = fields.name, !.show = fields.show]
      BY <2>1, <2>3
    <3> QED
      BY <3>1, <3>2 DEF CategoryRow
  <2>5. \A c \in DOMAIN categories \ {id} : categories'[c] = categories[c]
    BY <2>1
  <2>6. \A c \in DOMAIN categories' : CategoryRow(categories'[c])
    BY <2>2, <2>4, <2>5 DEF NotesInv, SoundTables
  <2>7. \A c, d \in DOMAIN categories' : categories'[c].name = categories'[d].name => c = d
    BY <2>2, <2>3, <2>4, <2>5 DEF NotesInv, SoundTables
  <2> QED
    BY <1>1, <2>2, <2>3, <2>4, <2>5, <2>6, <2>7, CategoriesChanged
<1> QED
  BY <1>2, <1>3

LEMMA NotesStep == NotesInv /\ [Next]_vars => NotesInv'
<1> SUFFICES ASSUME NotesInv, [Next]_vars PROVE NotesInv'
  OBVIOUS
<1>1. CASE UNCHANGED tableVars
  BY <1>1 DEF NotesInv, SoundTables, DeletingKnown, tableVars
<1>2. CASE NoteNext
  <2>1. CASE FetchNotes \/ FetchCategories \/ ToggleForm
    BY <2>1, <1>1 DEF FetchNotes, FetchCategories, ToggleForm
  <2>2. CASE EndDelete
    BY <2>2, EndDeleteKeeps
  <2>3. CASE \E run \in scene.runs, b \in BOOLEAN : ShowRun(run, b)
    BY <2>3, <1>1 DEF ShowRun
  <2>4. CASE \E w \in scene.pills : TypeNote(w) \/ \E run \in scene.runs : ReEvaluationNote(run, "g", w)
    BY <2>4, <1>1, ReEvaluationNoteKeeps DEF TypeNote
  <2>5. CASE \E lost \in BOOLEAN : SaveNote(lost)
    BY <2>5, SaveNoteKeeps
  <2>6. CASE \E k \in DOMAIN seenNotes : AskHide(k)
    BY <2>6, <1>1 DEF AskHide
  <2>7. CASE \E id \in section.hiding : ConfirmHide(id)
    BY <2>7, ConfirmHideKeeps
  <2> QED
    BY <1>2, <2>1, <2>2, <2>3, <2>4, <2>5, <2>6, <2>7 DEF NoteNext
<1>3. CASE CategoryNext
  <2>1. CASE AddCategory \/ CancelCategory
    BY <2>1, <1>1 DEF AddCategory, CancelCategory
  <2>2. CASE SubmitEdit
    BY <2>2, SubmitEditKeeps
  <2>3. ASSUME NEW c \in CatIds, PickCategory(c) \/ EditCategory(c)
        PROVE  NotesInv'
    BY <2>3, <1>1 DEF PickCategory, EditCategory
  <2>4. ASSUME NEW c \in CatIds, BeginDelete(c)
        PROVE  NotesInv'
    <3>1. /\ deleting' = [cat |-> c, info |-> IdOf(INFO), moved |-> {i \in DOMAIN notes : notes[i].cat = c}]
          /\ c \in DOMAIN categories /\ ~categories[c].system
          /\ UNCHANGED <<categories, notes>>
      BY <2>4 DEF BeginDelete
    <3>2. IdOf(INFO) \in DOMAIN categories
      BY <2>4, IdFound DEF BeginDelete
    <3> QED
      BY <3>1, <3>2 DEF NotesInv, SoundTables, DeletingKnown
  <2>5. ASSUME NEW c \in CatIds, ToggleShow(c)
        PROVE  NotesInv'
    BY <2>5, ToggleShowKeeps
  <2>6. ASSUME NEW c \in CatIds, SubmitCreate(c)
        PROVE  NotesInv'
    BY <2>6, SubmitCreateKeeps
  <2>7. ASSUME NEW c \in CatIds, NEW i \in DOMAIN notes, UpdateNote(i, c)
        PROVE  NotesInv'
    BY <2>7, UpdateNoteKeeps
  <2>8. CASE \E n \in Names, b \in BOOLEAN : EnterFields([name |-> n, show |-> b])
    BY <2>8, <1>1 DEF EnterFields
  <2> QED
    BY <1>3, <2>1, <2>2, <2>3, <2>4, <2>5, <2>6, <2>7, <2>8 DEF CategoryNext
<1> QED
  BY <1>1, <1>2, <1>3 DEF Next, vars, noteVars

LEMMA NotesInvariant == Spec => []NotesInv
BY NotesStart, NotesStep, PTL DEF Spec

\* Whatever is written to notes and categories while a category is being deleted, by
\* any number of users, 'info' included: each note keeps a category, names stay unique
\* and the category of re-evaluations stays (repositories of annotations and their
\* categories, under the constraints of the database).
THEOREM NotesStayCategorised == Spec => []NotesCategorised
<1>1. NotesInv => NotesCategorised
  BY DEF NotesInv, SoundTables, NotesCategorised
<1> QED
  BY <1>1, NotesInvariant, PTL


-----------------------------------------------------------------------------
(* Tooltips and popovers.                                                  *)

\* The watchdog is attached exactly while it knows a map, and no other tooltip is
\* visible; a visible one has a listener for its unmounting, and none of an earlier visit
\* is about to close the popover the pointer is at.
TipsSound(t) ==
    /\ t \in [shown : {t.shown}, active : {t.active}, attached : BOOLEAN]
    /\ t.attached <=> t.active # NULL
    /\ t.shown \subseteq {t.active} \ {NULL}

PointerInv ==
    /\ TipsSound(tips)
    /\ mouse \in [at : {mouse.at}, settled : BOOLEAN, tracked : {mouse.tracked}]
    /\ tips.shown \subseteq mouse.tracked
    /\ mouse.settled => tips.shown \subseteq {mouse.at}
    /\ popover \in [hover : BOOLEAN, open : BOOLEAN, timer : BOOLEAN]
    /\ IF popover.hover THEN popover.open /\ ~popover.timer ELSE popover.open => popover.timer

\* Each function of the watchdog keeps it sound and shows no tooltip but the one it
\* is asked for.
LEMMA HideActiveSound ==
  ASSUME NEW t, TipsSound(t)
  PROVE  TipsSound(HideActive(t)) /\ HideActive(t).shown = {}
BY DEF TipsSound, HideActive

LEMMA HandlePointerMoveSound ==
  ASSUME NEW t, TipsSound(t), NEW to
  PROVE  /\ TipsSound(HandlePointerMove(t, to))
         /\ HandlePointerMove(t, to).shown \subseteq t.shown \intersect {to}
<1>1. CASE t.attached /\ t.active # to
  BY <1>1, HideActiveSound DEF HandlePointerMove
<1>2. CASE ~(t.attached /\ t.active # to)
  <2>1. HandlePointerMove(t, to) = t
    BY <1>2 DEF HandlePointerMove
  <2> QED
    BY <1>2, <2>1 DEF TipsSound
<1> QED
  BY <1>1, <1>2

LEMMA TrackTooltipSound ==
  ASSUME NEW t, TipsSound(t), NEW map, map # NULL
  PROVE  TipsSound(TrackTooltip(t, map)) /\ TrackTooltip(t, map).shown = {map}
<1> DEFINE rest == IF t.active # map THEN HideActive(t) ELSE t
<1>1. rest.shown \subseteq {map}
  BY HideActiveSound DEF TipsSound
<1>2. TrackTooltip(t, map) = [shown |-> rest.shown \union {map}, active |-> map, attached |-> TRUE]
  BY DEF TrackTooltip
<1> HIDE DEF rest
<1>3. rest.shown \union {map} = {map}
  BY <1>1
<1> QED
  BY <1>2, <1>3 DEF TipsSound

LEMMA ReleaseTooltipSound ==
  ASSUME NEW t, NEW map, TipsSound(t), map \notin t.shown
  PROVE  TipsSound(ReleaseTooltip(t, map)) /\ ReleaseTooltip(t, map).shown = t.shown
BY DEF TipsSound, ReleaseTooltip

LEMMA HandleMouseLeaveSound ==
  ASSUME NEW t, TipsSound(t), NEW to, NEW skipped
  PROVE  /\ TipsSound(HandleMouseLeave(t, to, skipped))
         /\ HandleMouseLeave(t, to, skipped).shown \subseteq t.shown
BY DEF TipsSound, HandleMouseLeave

LEMMA HoversSound ==
  ASSUME NEW t, TipsSound(t), NEW to, NEW shows, scene \in Scenes
  PROVE  /\ TipsSound(Hovers(t, to, shows))
         /\ Hovers(t, to, shows).shown \subseteq t.shown \union {to}
<1>1. CASE shows /\ to \in scene.maps
  <2>1. to # NULL
    BY <1>1, ScenesAssumption
  <2> QED
    BY <1>1, <2>1, TrackTooltipSound DEF Hovers
<1>2. CASE ~(shows /\ to \in scene.maps)
  BY <1>2 DEF Hovers
<1> QED
  BY <1>1, <1>2

LEMMA PointerMoveKeeps ==
  ASSUME PointerInv, scene \in Scenes, NEW to, NEW skipped, NEW shows,
         PointerMove(to, skipped, shows)
  PROVE  PointerInv'
<1> DEFINE a == HandlePointerMove(tips, to)
           b == HandleMouseLeave(a, to, skipped)
<1>1. TipsSound(a) /\ a.shown \subseteq {to}
  BY HandlePointerMoveSound DEF PointerInv
<1>2. TipsSound(b) /\ b.shown \subseteq {to}
  <2> HIDE DEF a
  <2> QED
    BY <1>1, HandleMouseLeaveSound
<1>3. tips' = Hovers(b, to, shows) /\ UNCHANGED popover
  BY DEF PointerMove
<1> HIDE DEF a, b
<1>4. TipsSound(tips') /\ tips'.shown \subseteq {to}
  BY <1>2, <1>3, HoversSound
<1>5. mouse' = [at |-> to, settled |-> TRUE, tracked |-> mouse.tracked \union tips'.shown]
  BY DEF PointerMove
<1> QED
  BY <1>3, <1>4, <1>5 DEF PointerInv

LEMMA SlideKeeps ==
  ASSUME PointerInv, scene \in Scenes, NEW to, NEW shows, Slide(to, shows)
  PROVE  PointerInv'
<1>1. tips' = Hovers(tips, to, shows) /\ UNCHANGED popover
  BY DEF Slide
<1>2. TipsSound(tips')
  BY <1>1, HoversSound DEF PointerInv
<1>3. mouse' = [at |-> to, settled |-> FALSE, tracked |-> mouse.tracked \union tips'.shown]
  BY DEF Slide
<1> QED
  BY <1>1, <1>2, <1>3 DEF PointerInv

LEMMA PointerGoneKeeps ==
  ASSUME PointerInv, PointerGone
  PROVE  PointerInv'
<1>1. tips' = (IF tips.attached THEN HideActive(tips) ELSE tips) /\ UNCHANGED popover
  BY DEF PointerGone
<1>2. TipsSound(tips') /\ tips'.shown = {}
  <2>1. CASE tips.attached
    BY <1>1, <2>1, HideActiveSound DEF PointerInv
  <2>2. CASE ~tips.attached
    BY <1>1, <2>2 DEF PointerInv, TipsSound
  <2> QED
    BY <2>1, <2>2
<1>3. mouse' = [mouse EXCEPT !.at = "away", !.settled = TRUE]
  BY DEF PointerGone
<1>4. mouse' \in [at : {mouse'.at}, settled : BOOLEAN, tracked : {mouse'.tracked}]
  BY <1>3 DEF PointerInv
<1> QED
  BY <1>1, <1>2, <1>4 DEF PointerInv

LEMMA RemountKeeps ==
  ASSUME PointerInv, NEW map, Remount(map)
  PROVE  PointerInv'
<1> DEFINE t == [tips EXCEPT !.shown = @ \ {map}]
<1>1. /\ tips' = (IF map \in mouse.tracked THEN ReleaseTooltip(t, map) ELSE t)
      /\ mouse' = [mouse EXCEPT !.tracked = @ \ {map}]
      /\ UNCHANGED popover
  BY DEF Remount
<1>2. TipsSound(t) /\ t.shown = tips.shown \ {map}
  BY DEF PointerInv, TipsSound
<1> HIDE DEF t
<1>3. TipsSound(tips') /\ tips'.shown = tips.shown \ {map}
  BY <1>1, <1>2, ReleaseTooltipSound
<1>4. /\ mouse' \in [at : {mouse.at}, settled : BOOLEAN, tracked : {mouse'.tracked}]
      /\ mouse'.at = mouse.at /\ mouse'.settled = mouse.settled
      /\ mouse'.tracked = mouse.tracked \ {map}
  BY <1>1 DEF PointerInv
<1> QED
  BY <1>1, <1>3, <1>4 DEF PointerInv

LEMMA PopoverKeeps ==
  ASSUME PointerInv, EnterIcon \/ LeaveIcon \/ HideTimer
  PROVE  PointerInv'
<1>1. UNCHANGED <<tips, mouse>>
  BY DEF EnterIcon, LeaveIcon, HideTimer
<1>2. popover \in [hover : BOOLEAN, open : BOOLEAN, timer : BOOLEAN]
  BY DEF PointerInv
<1>3. CASE EnterIcon
  BY <1>1, <1>2, <1>3 DEF EnterIcon, Show, PointerInv
<1>4. CASE LeaveIcon
  <2>1. popover' = [popover EXCEPT !.hover = FALSE, !.timer = TRUE]
    BY <1>4 DEF LeaveIcon
  <2> QED
    BY <1>1, <1>2, <2>1 DEF PointerInv
<1>5. CASE HideTimer
  <2>1. popover' = [popover EXCEPT !.timer = FALSE, !.open = FALSE] /\ popover.timer
    BY <1>5 DEF HideTimer
  <2> QED
    BY <1>1, <1>2, <2>1 DEF PointerInv
<1> QED
  BY <1>3, <1>4, <1>5


LEMMA PointerStart == Init => PointerInv
BY DEF Init, PointerInv, TipsSound

LEMMA SceneKept == Spec => [](scene \in Scenes)
<1>1. Init => scene \in Scenes
  BY DEF Init
<1>2. scene \in Scenes /\ [Next]_vars => (scene \in Scenes)'
  BY DEF Next, Act, vars
<1> QED
  BY <1>1, <1>2, PTL DEF Spec

LEMMA PointerStep == PointerInv /\ scene \in Scenes /\ [Next]_vars => PointerInv'
<1> SUFFICES ASSUME PointerInv, scene \in Scenes, [Next]_vars PROVE PointerInv'
  OBVIOUS
<1>1. CASE UNCHANGED pointerVars
  BY <1>1 DEF PointerInv, TipsSound, pointerVars
<1>2. CASE PointerNext
  <2>1. CASE \E to \in scene.maps \union {"page"}, skipped, shows \in BOOLEAN : PointerMove(to, skipped, shows)
    BY <2>1, PointerMoveKeeps
  <2>2. CASE \E to \in scene.maps \union {"page"}, shows \in BOOLEAN : Slide(to, shows)
    BY <2>2, SlideKeeps
  <2>3. CASE PointerGone
    BY <2>3, PointerGoneKeeps
  <2>4. CASE EnterIcon \/ LeaveIcon \/ HideTimer
    BY <2>4, PopoverKeeps
  <2>5. CASE \E map \in scene.maps : Remount(map)
    BY <2>5, RemountKeeps
  <2> QED
    BY <1>2, <2>1, <2>2, <2>3, <2>4, <2>5 DEF PointerNext
<1> QED
  BY <1>1, <1>2 DEF Next, vars

LEMMA PointerInvariant == Spec => []PointerInv
BY PointerStart, PointerStep, SceneKept, PTL DEF Spec

\* At most one tooltip is visible, after a movement only the one below the pointer, and
\* the popover of notes is open while the pointer is on its icon: for any number of maps
\* that come and go, and whatever events of leaving a map the browser skips (the
\* functions of the tooltip watchdog, the popover's timer).
THEOREM HoversFollowThePointer == Spec => []HoverFollowsPointer
<1>1. PointerInv => HoverFollowsPointer
  <2> SUFFICES ASSUME PointerInv PROVE HoverFollowsPointer
    OBVIOUS
  <2>1. tips.shown = {} \/ tips.shown = {tips.active}
    BY DEF PointerInv, TipsSound
  <2>2. Cardinality(tips.shown) = 0 \/ Cardinality(tips.shown) = 1
    BY <2>1, FS_EmptySet, FS_Singleton
  <2>3. Cardinality(tips.shown) <= 1
    BY <2>2
  <2> QED
    BY <2>3 DEF PointerInv, HoverFollowsPointer
<1> QED
  BY <1>1, PointerInvariant, PTL


-----------------------------------------------------------------------------
(* Switches of the charts.                                                 *)

BlockSound(block) ==
    block \in [over : [Switches -> BOOLEAN \union {NULL}], gen : {prefs.gen},
               target : {block.target}, base : {block.base},
               min : Int \union {NULL}, max : Int \union {NULL}]

Clicks == [on : BOOLEAN, by : {"all", "own", "lost"}]

\* A mounted chart has a setting of its own just when the last click was on its own
\* switch; the switch for all charts is where the last click on it put it.
Followed(click, mounted, over, on) ==
    /\ click.by = "own" => mounted /\ over = click.on
    /\ click.by # "own" /\ mounted => over = NULL
    /\ click.by = "all" => click.on = on

\* Every chart of the tab is mounted, has the generation of the page and follows the
\* last click; the browser remembers the switches for all charts.
ChartInv ==
    /\ prefs \in [on : [Switches -> BOOLEAN], gen : [Switches -> Nat]]
    /\ stored = prefs.on
    /\ trend \in Seq(Points)
    /\ DOMAIN ev \subseteq Metrics
    /\ DOMAIN blocks = TabIndicators(ev, tab)
    /\ blocks = [m \in DOMAIN blocks |-> blocks[m]]
    /\ clicks \in [Metrics -> [Switches -> Clicks]]
    /\ \A m \in DOMAIN blocks : BlockSound(blocks[m])
    /\ \A m \in Metrics, s \in Switches :
          Followed(clicks[m][s], m \in DOMAIN blocks, blocks[m].over[s], prefs.on[s])

\* The history of clicks when the charts outside of a set leave the screen.
LEMMA ClicksRemembered ==
  ASSUME ChartInv, NEW shown
  PROVE  /\ ClicksLeft(shown) \in [Metrics -> [Switches -> Clicks]]
         /\ \A m \in Metrics, s \in Switches :
               IF m \notin shown /\ clicks[m][s].by = "own"
               THEN ClicksLeft(shown)[m][s].by = "lost" ELSE ClicksLeft(shown)[m][s] = clicks[m][s]
<1>1. clicks \in [Metrics -> [Switches -> Clicks]]
  BY DEF ChartInv
<1>2. DOMAIN clicks = Metrics
  BY <1>1
<1> HIDE DEF Metrics
<1> QED
  BY <1>1, <1>2 DEF ClicksLeft, Clicks

LEMMA ChartStart == Init => ChartInv
<1> SUFFICES ASSUME Init PROVE ChartInv
  OBVIOUS
<1>1. scene.trend \in Seq(Points)
  BY ScenesAssumption DEF Init
<1>2. prefs = [on |-> [s \in Switches |-> TRUE], gen |-> [s \in Switches |-> 0]] /\ stored = prefs.on
  BY DEF Init
<1>3. prefs \in [on : [Switches -> BOOLEAN], gen : [Switches -> Nat]]
  BY <1>2
<1>4. DOMAIN ev = TabIndicators(ev, "all")
  BY DEF TabIndicators, ResolvedTab
<1>5. blocks = [m \in DOMAIN ev |-> FreshBlock(prefs.gen)]
  BY DEF Init
<1>10. clicks = [m \in Metrics |-> [s \in Switches |-> [on |-> TRUE, by |-> "all"]]] /\ ev = scene.ev
  BY DEF Init
<1>11. DOMAIN ev \subseteq Metrics
  BY <1>10 DEF Metrics
<1>12. clicks \in [Metrics -> [Switches -> Clicks]]
  BY <1>10 DEF Clicks
<1>6. FreshBlock(prefs.gen) \in [over : [Switches -> BOOLEAN \union {NULL}], gen : {prefs.gen},
                                 target : {TRUE}, base : {FALSE},
                                 min : Int \union {NULL}, max : Int \union {NULL}]
  BY DEF FreshBlock
<1>7. \A s \in Switches : FreshBlock(prefs.gen).over[s] = NULL
  BY DEF FreshBlock
<1>8. \A m \in DOMAIN blocks : BlockSound(blocks[m])
  BY <1>5, <1>6 DEF BlockSound
<1>9. tab = "all" /\ trend = scene.trend
  BY DEF Init
<1>13. \A m \in Metrics, s \in Switches :
          Followed(clicks[m][s], m \in DOMAIN blocks, blocks[m].over[s], prefs.on[s])
  BY <1>2, <1>5, <1>7, <1>10 DEF Followed
<1> QED
  BY <1>1, <1>2, <1>3, <1>4, <1>5, <1>8, <1>9, <1>11, <1>12, <1>13 DEF ChartInv

\* Rendering: a chart that stays mounted keeps its own setting of a switch whose
\* generation did not move on, and no other.
LEMMA RenderedBlock ==
  ASSUME ChartInv, NEW metrics, NEW t, NEW gen \in [Switches -> Nat],
         NEW m \in TabIndicators(metrics, t)
  PROVE  LET block == Rendered(metrics, t, gen)[m]
         IN  /\ block \in [over : [Switches -> BOOLEAN \union {NULL}], gen : {gen},
                           target : {block.target}, base : {block.base},
                           min : Int \union {NULL}, max : Int \union {NULL}]
             /\ \A s \in Switches : block.over[s] =
                   IF m \in DOMAIN blocks /\ prefs.gen[s] = gen[s] THEN blocks[m].over[s] ELSE NULL
<1>1. CASE m \in DOMAIN blocks
  <2>1. Rendered(metrics, t, gen)[m] = Synced(blocks[m], gen)
    BY <1>1 DEF Rendered
  <2>2. BlockSound(blocks[m])
    BY <1>1 DEF ChartInv
  <2>3. Synced(blocks[m], gen) =
          [blocks[m] EXCEPT !.over = [s \in Switches |-> IF prefs.gen[s] = gen[s]
                                                         THEN blocks[m].over[s] ELSE NULL],
                            !.gen = gen]
    BY <2>2 DEF Synced, BlockSound
  <2> DEFINE kept == [s \in Switches |-> IF prefs.gen[s] = gen[s] THEN blocks[m].over[s] ELSE NULL]
             block == Synced(blocks[m], gen)
  <2>4. kept \in [Switches -> BOOLEAN \union {NULL}]
    BY <2>2 DEF BlockSound
  <2>5. block = [blocks[m] EXCEPT !.over = kept, !.gen = gen]
    BY <2>3
  <2> HIDE DEF kept, block
  <2>6. /\ block \in [over : [Switches -> BOOLEAN \union {NULL}], gen : {gen},
                      target : {block.target}, base : {block.base},
                      min : Int \union {NULL}, max : Int \union {NULL}]
        /\ block.over = kept
    BY <2>2, <2>4, <2>5 DEF BlockSound
  <2>7. \A s \in Switches : block.over[s] =
          IF m \in DOMAIN blocks /\ prefs.gen[s] = gen[s] THEN blocks[m].over[s] ELSE NULL
    BY <1>1, <2>6 DEF kept
  <2>8. Rendered(metrics, t, gen)[m] = block
    BY <2>1 DEF block
  <2> QED
    BY <2>6, <2>7, <2>8
<1>2. CASE m \notin DOMAIN blocks
  <2>1. Rendered(metrics, t, gen)[m] = FreshBlock(gen)
    BY <1>2 DEF Rendered
  <2> QED
    BY <1>2, <2>1 DEF FreshBlock
<1> QED
  BY <1>1, <1>2

\* Another evaluation or tab, with the generations as they are.
LEMMA ShownKeeps ==
  ASSUME ChartInv, NEW metrics, NEW t, ev' = metrics, tab' = t,
         DOMAIN metrics \subseteq Metrics,
         blocks' = Rendered(metrics, t, prefs.gen), clicks' = ClicksLeft(DOMAIN blocks'),
         UNCHANGED <<prefs, stored, trend, scene>>
  PROVE  ChartInv'
<1>1. DOMAIN blocks' = TabIndicators(ev', tab') /\ blocks' = [m \in DOMAIN blocks' |-> blocks'[m]]
  BY DEF Rendered
<1>2. prefs \in [on : [Switches -> BOOLEAN], gen : [Switches -> Nat]]
  BY DEF ChartInv
<1>3. /\ clicks' \in [Metrics -> [Switches -> Clicks]]
      /\ \A m \in Metrics, s \in Switches :
            IF m \notin DOMAIN blocks' /\ clicks[m][s].by = "own"
            THEN clicks'[m][s].by = "lost" ELSE clicks'[m][s] = clicks[m][s]
  BY ClicksRemembered
<1>4. ASSUME NEW m \in DOMAIN blocks'
      PROVE  /\ BlockSound(blocks[m])'
             /\ \A s \in Switches : blocks'[m].over[s] =
                   IF m \in DOMAIN blocks THEN blocks[m].over[s] ELSE NULL
  <2>1. prefs.gen \in [Switches -> Nat] /\ m \in TabIndicators(metrics, t)
    BY <1>1, <1>2
  <2> QED
    BY <2>1, RenderedBlock DEF BlockSound
<1>5. ASSUME NEW m \in Metrics, NEW s \in Switches
      PROVE  Followed(clicks'[m][s], m \in DOMAIN blocks', blocks'[m].over[s], prefs.on[s])
  <2>1. Followed(clicks[m][s], m \in DOMAIN blocks, blocks[m].over[s], prefs.on[s])
    BY DEF ChartInv
  <2>2. CASE m \in DOMAIN blocks'
    <3>1. clicks'[m][s] = clicks[m][s]
      BY <2>2, <1>3
    <3>2. blocks'[m].over[s] = IF m \in DOMAIN blocks THEN blocks[m].over[s] ELSE NULL
      BY <2>2, <1>4
    <3> QED
      BY <2>1, <2>2, <3>1, <3>2 DEF Followed
  <2>3. CASE m \notin DOMAIN blocks'
    BY <1>3, <2>1, <2>3 DEF Followed
  <2> QED
    BY <2>2, <2>3
<1>6. Metrics' = Metrics
  BY DEF Metrics
<1> QED
  BY <1>1, <1>2, <1>3, <1>4, <1>5, <1>6 DEF ChartInv

LEMMA ToggleMasterKeeps ==
  ASSUME ChartInv, NEW s \in Switches, ToggleMaster(s), UNCHANGED scene
  PROVE  ChartInv'
<1> DEFINE gen == NextGeneration(s)
           on == [prefs.on EXCEPT ![s] = ~@]
<1>1. /\ prefs' = [on |-> on, gen |-> gen]
      /\ stored' = prefs'.on
      /\ blocks' = Rendered(ev, tab, gen)
      /\ clicks' = [m \in DOMAIN clicks |->
                       [clicks[m] EXCEPT ![s] = [on |-> on[s], by |-> "all"]]]
      /\ UNCHANGED <<ev, tab, trend>>
  BY DEF ToggleMaster
<1>2. prefs \in [on : [Switches -> BOOLEAN], gen : [Switches -> Nat]]
  BY DEF ChartInv
<1>3. gen \in [Switches -> Nat] /\ gen[s] # prefs.gen[s] /\ \A r \in Switches \ {s} : gen[r] = prefs.gen[r]
  BY <1>2 DEF NextGeneration
<1>4. on \in [Switches -> BOOLEAN] /\ \A r \in Switches \ {s} : on[r] = prefs.on[r]
  BY <1>2
<1> HIDE DEF gen, on
<1>5. /\ DOMAIN blocks' = TabIndicators(ev, tab)
      /\ blocks' = [m \in DOMAIN blocks' |-> blocks'[m]]
      /\ DOMAIN blocks' = DOMAIN blocks
  BY <1>1 DEF Rendered, ChartInv
<1>6. clicks \in [Metrics -> [Switches -> Clicks]] /\ Metrics' = Metrics
  BY DEF ChartInv, Metrics
<1>7. clicks' \in [Metrics -> [Switches -> Clicks]]
  BY <1>1, <1>4, <1>6 DEF Clicks
<1>8. ASSUME NEW m \in DOMAIN blocks'
      PROVE  /\ BlockSound(blocks[m])'
             /\ blocks'[m].over[s] = NULL
             /\ \A r \in Switches \ {s} : blocks'[m].over[r] = blocks[m].over[r]
  <2>1. m \in TabIndicators(ev, tab) /\ m \in DOMAIN blocks
    BY <1>5
  <2> QED
    BY <2>1, <1>1, <1>3, RenderedBlock DEF BlockSound
<1>9. ASSUME NEW m \in Metrics, NEW r \in Switches
      PROVE  Followed(clicks'[m][r], m \in DOMAIN blocks', blocks'[m].over[r], prefs'.on[r])
  <2>1. CASE r = s
    <3>1. clicks'[m][s] = [on |-> on[s], by |-> "all"] /\ prefs'.on[s] = on[s]
      BY <1>1, <1>6
    <3>2. m \in DOMAIN blocks' => blocks'[m].over[s] = NULL
      BY <1>8
    <3> QED
      BY <2>1, <3>1, <3>2 DEF Followed
  <2>2. CASE r # s
    <3>1. clicks'[m][r] = clicks[m][r] /\ prefs'.on[r] = prefs.on[r]
      BY <2>2, <1>1, <1>4, <1>6
    <3>2. m \in DOMAIN blocks' => m \in DOMAIN blocks /\ blocks'[m].over[r] = blocks[m].over[r]
      BY <2>2, <1>5, <1>8
    <3>3. Followed(clicks[m][r], m \in DOMAIN blocks, blocks[m].over[r], prefs.on[r])
      BY DEF ChartInv
    <3> QED
      BY <1>5, <3>1, <3>2, <3>3 DEF Followed
  <2> QED
    BY <2>1, <2>2
<1>10. prefs' \in [on : [Switches -> BOOLEAN], gen : [Switches -> Nat]]
  BY <1>1, <1>3, <1>4
<1> QED
  BY <1>1, <1>5, <1>6, <1>7, <1>8, <1>9, <1>10 DEF ChartInv

LEMMA ToggleOwnKeeps ==
  ASSUME ChartInv, NEW m \in DOMAIN blocks, NEW s \in Switches, ToggleOwn(m, s),
         UNCHANGED scene
  PROVE  ChartInv'
<1> DEFINE own == ~Effective(m, s)
<1>1. /\ blocks' = [blocks EXCEPT ![m].over[s] = own]
      /\ clicks' = [clicks EXCEPT ![m][s] = [on |-> own, by |-> "own"]]
      /\ UNCHANGED <<prefs, stored, ev, tab, trend>>
  BY DEF ToggleOwn
<1>2. prefs \in [on : [Switches -> BOOLEAN], gen : [Switches -> Nat]]
  BY DEF ChartInv
<1>3. own \in BOOLEAN
  OBVIOUS
<1>4. clicks \in [Metrics -> [Switches -> Clicks]] /\ Metrics' = Metrics
  BY DEF ChartInv, Metrics
<1>5. m \in Metrics
  BY DEF ChartInv, TabIndicators
<1> HIDE DEF own
<1>7. /\ DOMAIN blocks' = DOMAIN blocks
      /\ blocks' = [n \in DOMAIN blocks' |-> blocks'[n]]
      /\ \A n \in DOMAIN blocks \ {m} : blocks'[n] = blocks[n]
      /\ blocks'[m] = [blocks[m] EXCEPT !.over[s] = own]
  BY <1>1
<1>8. BlockSound(blocks[m])
  BY DEF ChartInv
<1>9. /\ BlockSound(blocks[m])'
      /\ blocks'[m].over = [blocks[m].over EXCEPT ![s] = own]
  BY <1>1, <1>3, <1>7, <1>8 DEF BlockSound
<1>10. \A n \in DOMAIN blocks' : BlockSound(blocks[n])'
  <2>1. \A n \in DOMAIN blocks \ {m} : BlockSound(blocks[n])
    BY DEF ChartInv
  <2> QED
    BY <1>1, <1>7, <1>9, <2>1 DEF BlockSound
<1>11. clicks' \in [Metrics -> [Switches -> Clicks]]
  BY <1>1, <1>3, <1>4, <1>5 DEF Clicks
<1>12. ASSUME NEW n \in Metrics, NEW r \in Switches
       PROVE  Followed(clicks'[n][r], n \in DOMAIN blocks', blocks'[n].over[r], prefs.on[r])
  <2>1. Followed(clicks[n][r], n \in DOMAIN blocks, blocks[n].over[r], prefs.on[r])
    BY DEF ChartInv
  <2>2. CASE n = m /\ r = s
    <3>1. blocks'[m].over[s] = own
      BY <1>8, <1>9 DEF BlockSound
    <3>2. clicks'[m][s] = [on |-> own, by |-> "own"]
      BY <1>1, <1>4, <1>5
    <3>3. clicks'[m][s].by = "own" /\ clicks'[m][s].on = own
      BY <3>2
    <3> QED
      BY <2>2, <3>1, <3>3, <1>7 DEF Followed
  <2>3. CASE n = m /\ r # s
    <3>1. blocks'[m].over[r] = blocks[m].over[r]
      BY <1>8, <1>9, <2>3 DEF BlockSound
    <3>2. clicks'[m][r] = clicks[m][r]
      BY <1>1, <1>4, <1>5, <2>3
    <3> QED
      BY <2>1, <2>3, <3>1, <3>2, <1>7
  <2>4. CASE n # m
    <3>1. clicks'[n] = clicks[n]
      BY <1>1, <1>4, <2>4
    <3>2. n \in DOMAIN blocks => blocks'[n] = blocks[n]
      BY <1>7, <2>4
    <3> QED
      BY <2>1, <3>1, <3>2, <1>7 DEF Followed
  <2> QED
    BY <2>2, <2>3, <2>4
<1>13. DOMAIN blocks' = TabIndicators(ev', tab')
  BY <1>1, <1>7 DEF ChartInv
<1>14. trend' \in Seq(Points) /\ stored' = prefs'.on /\ prefs' = prefs
  BY <1>1 DEF ChartInv
<1>15. DOMAIN ev' \subseteq Metrics'
  BY <1>1, <1>4 DEF ChartInv
<1> QED
  BY <1>2, <1>4, <1>7, <1>10, <1>11, <1>12, <1>13, <1>14, <1>15 DEF ChartInv

LEMMA ReloadKeeps ==
  ASSUME ChartInv, Reload, UNCHANGED scene
  PROVE  ChartInv'
<1>1. /\ prefs' = [on |-> stored, gen |-> [s \in Switches |-> 0]]
      /\ tab' = "all"
      /\ blocks' = [m \in DOMAIN ev |-> FreshBlock(prefs'.gen)]
      /\ clicks' = ClicksLeft({})
      /\ UNCHANGED <<stored, ev, trend>>
  BY DEF Reload
<1>2. stored = prefs.on /\ prefs.on \in [Switches -> BOOLEAN]
  BY DEF ChartInv
<1>3. prefs' \in [on : [Switches -> BOOLEAN], gen : [Switches -> Nat]]
  BY <1>1, <1>2
<1>4. DOMAIN ev = TabIndicators(ev, "all")
  BY DEF TabIndicators, ResolvedTab
<1>5. FreshBlock(prefs'.gen) \in [over : [Switches -> BOOLEAN \union {NULL}], gen : {prefs'.gen},
                                  target : {TRUE}, base : {FALSE},
                                  min : Int \union {NULL}, max : Int \union {NULL}]
  BY DEF FreshBlock
<1>6. \A s \in Switches : FreshBlock(prefs'.gen).over[s] = NULL
  BY DEF FreshBlock
<1>7. \A m \in DOMAIN blocks' : BlockSound(blocks[m])'
  BY <1>1, <1>5 DEF BlockSound
<1>8. prefs'.on = prefs.on /\ stored' = prefs'.on
  BY <1>1, <1>2
<1>9. DOMAIN blocks' = TabIndicators(ev, tab)' /\ blocks' = [m \in DOMAIN blocks' |-> blocks'[m]]
  BY <1>1, <1>4 DEF TabIndicators, ResolvedTab
<1>10. /\ clicks' \in [Metrics -> [Switches -> Clicks]]
       /\ \A m \in Metrics, s \in Switches :
             IF clicks[m][s].by = "own" THEN clicks'[m][s].by = "lost" ELSE clicks'[m][s] = clicks[m][s]
  BY <1>1, ClicksRemembered
<1>11. \A m \in Metrics, s \in Switches :
          Followed(clicks'[m][s], m \in DOMAIN blocks', blocks'[m].over[s], prefs'.on[s])
  <2>1. \A m \in Metrics, s \in Switches :
          Followed(clicks[m][s], m \in DOMAIN blocks, blocks[m].over[s], prefs.on[s])
    BY DEF ChartInv
  <2>2. \A m \in DOMAIN blocks', s \in Switches : blocks'[m].over[s] = NULL
    BY <1>1, <1>6
  <2> QED
    BY <1>8, <1>10, <2>1, <2>2 DEF Followed
<1>12. Metrics' = Metrics /\ DOMAIN ev' \subseteq Metrics
  BY <1>1 DEF ChartInv, Metrics
<1> QED
  BY <1>1, <1>3, <1>7, <1>8, <1>9, <1>10, <1>11, <1>12 DEF ChartInv


\* A change of one chart that leaves its own settings alone.
LEMMA BlocksTouched ==
  ASSUME ChartInv, NEW m \in DOMAIN blocks,
         DOMAIN blocks' = DOMAIN blocks,
         blocks' = [n \in DOMAIN blocks' |-> blocks'[n]],
         \A n \in DOMAIN blocks \ {m} : blocks'[n] = blocks[n],
         BlockSound(blocks[m])', blocks'[m].over = blocks[m].over,
         UNCHANGED <<prefs, stored, ev, tab, trend, clicks, scene>>
  PROVE  ChartInv'
<1>1. \A n \in DOMAIN blocks' : BlockSound(blocks[n])'
  <2>1. \A n \in DOMAIN blocks \ {m} : BlockSound(blocks[n])
    BY DEF ChartInv
  <2> QED
    BY <2>1 DEF BlockSound
<1>2. \A n \in DOMAIN blocks : blocks'[n].over = blocks[n].over
  OBVIOUS
<1>3. ASSUME NEW n \in Metrics, NEW s \in Switches
      PROVE  Followed(clicks'[n][s], n \in DOMAIN blocks', blocks'[n].over[s], prefs'.on[s])
  <2>1. Followed(clicks[n][s], n \in DOMAIN blocks, blocks[n].over[s], prefs.on[s])
    BY DEF ChartInv
  <2>2. clicks' = clicks /\ prefs' = prefs /\ (n \in DOMAIN blocks => blocks'[n].over = blocks[n].over)
    BY <1>2
  <2> QED
    BY <2>1, <2>2 DEF Followed
<1>4. DOMAIN blocks' = TabIndicators(ev', tab')
  BY DEF ChartInv
<1>5. /\ prefs' = prefs /\ stored' = prefs'.on /\ trend' \in Seq(Points)
      /\ clicks' \in [Metrics -> [Switches -> Clicks]]
      /\ Metrics' = Metrics /\ DOMAIN ev' \subseteq Metrics
      /\ prefs \in [on : [Switches -> BOOLEAN], gen : [Switches -> Nat]]
  BY DEF ChartInv, Metrics
<1> QED
  BY <1>1, <1>3, <1>4, <1>5 DEF ChartInv


LEMMA SetBoundKeeps ==
  ASSUME ChartInv, scene \in Scenes, NEW m \in DOMAIN blocks, NEW side \in {"min", "max"},
         NEW v \in scene.bounds, SetBound(m, side, v), UNCHANGED scene
  PROVE  ChartInv'
<1>1. /\ blocks' = [blocks EXCEPT ![m][side] = v]
      /\ UNCHANGED <<prefs, stored, ev, tab, trend, clicks>>
  BY DEF SetBound
<1>2. v \in Int \union {NULL}
  BY ScenesAssumption
<1>3. BlockSound(blocks[m])
  BY DEF ChartInv
<1>4. /\ DOMAIN blocks' = DOMAIN blocks
      /\ blocks' = [n \in DOMAIN blocks' |-> blocks'[n]]
      /\ \A n \in DOMAIN blocks \ {m} : blocks'[n] = blocks[n]
      /\ blocks'[m] = [blocks[m] EXCEPT ![side] = v]
  BY <1>1
<1>5. BlockSound(blocks[m])' /\ blocks'[m].over = blocks[m].over
  <2>1. CASE side = "min"
    BY <1>1, <1>2, <1>3, <1>4, <2>1 DEF BlockSound
  <2>2. CASE side = "max"
    BY <1>1, <1>2, <1>3, <1>4, <2>2 DEF BlockSound
  <2> QED
    BY <2>1, <2>2
<1> QED
  BY <1>1, <1>4, <1>5, BlocksTouched

LEMMA ToggleLineKeeps ==
  ASSUME ChartInv, NEW m \in DOMAIN blocks, NEW line \in {"target", "base"}, ToggleLine(m, line),
         UNCHANGED scene
  PROVE  ChartInv'
<1>1. /\ blocks' = [blocks EXCEPT ![m][line] = ~@]
      /\ UNCHANGED <<prefs, stored, ev, tab, trend, clicks>>
  BY DEF ToggleLine
<1>2. BlockSound(blocks[m])
  BY DEF ChartInv
<1>3. /\ DOMAIN blocks' = DOMAIN blocks
      /\ blocks' = [n \in DOMAIN blocks' |-> blocks'[n]]
      /\ \A n \in DOMAIN blocks \ {m} : blocks'[n] = blocks[n]
      /\ blocks'[m] = [blocks[m] EXCEPT ![line] = ~@]
  BY <1>1
<1>4. BlockSound(blocks[m])' /\ blocks'[m].over = blocks[m].over
  <2>1. CASE line = "target"
    BY <1>1, <1>2, <1>3, <2>1 DEF BlockSound
  <2>2. CASE line = "base"
    BY <1>1, <1>2, <1>3, <2>2 DEF BlockSound
  <2> QED
    BY <2>1, <2>2
<1> QED
  BY <1>1, <1>3, <1>4, BlocksTouched

LEMMA ChartStep == ChartInv /\ scene \in Scenes /\ [Next]_vars => ChartInv'
<1> SUFFICES ASSUME ChartInv, scene \in Scenes, [Next]_vars PROVE ChartInv'
  OBVIOUS
<1>0. scene' = scene /\ Metrics' = Metrics
  BY DEF Next, Act, vars, Metrics
<1>1. ASSUME UNCHANGED <<prefs, stored, ev, tab, blocks, trend, clicks>>
      PROVE  ChartInv'
  BY <1>0, <1>1 DEF ChartInv, BlockSound, TabIndicators, ResolvedTab
<1>2. CASE UNCHANGED chartVars
  BY <1>1, <1>2 DEF chartVars
<1>3. ASSUME NEW points \in scene.trends, FetchTrend(points)
      PROVE  ChartInv'
  <2>1. trend' \in Seq(Points) /\ UNCHANGED <<prefs, stored, ev, tab, blocks, clicks>>
    BY <1>3, ScenesAssumption DEF FetchTrend
  <2> QED
    BY <1>0, <2>1 DEF ChartInv, BlockSound, TabIndicators, ResolvedTab
<1>4. CASE SwitchNext
  <2>1. ASSUME NEW metrics \in scene.evs, ShowEvaluation(metrics)
        PROVE  ChartInv'
    <3>1. /\ ev' = metrics /\ tab' = tab /\ blocks' = Rendered(metrics, tab, prefs.gen)
          /\ clicks' = ClicksLeft(DOMAIN blocks') /\ UNCHANGED <<prefs, stored, trend>>
      BY <2>1 DEF ShowEvaluation
    <3>2. DOMAIN metrics \subseteq Metrics
      BY DEF Metrics
    <3> QED
      BY <1>0, <3>1, <3>2, ShownKeeps
  <2>2. ASSUME NEW t \in scene.tabs, ClickTab(t)
        PROVE  ChartInv'
    <3>1. /\ ev' = ev /\ tab' = t /\ blocks' = Rendered(ev, t, prefs.gen)
          /\ clicks' = ClicksLeft(DOMAIN blocks') /\ UNCHANGED <<prefs, stored, trend>>
      BY <2>2 DEF ClickTab
    <3>2. DOMAIN ev \subseteq Metrics
      BY DEF ChartInv
    <3> QED
      BY <1>0, <3>1, <3>2, ShownKeeps
  <2>3. ASSUME NEW s \in Switches, ToggleMaster(s)
        PROVE  ChartInv'
    BY <1>0, <2>3, ToggleMasterKeeps
  <2>4. ASSUME NEW s \in Switches, NEW m \in DOMAIN blocks, ToggleOwn(m, s)
        PROVE  ChartInv'
    BY <1>0, <2>4, ToggleOwnKeeps
  <2>5. CASE Reload
    BY <1>0, <2>5, ReloadKeeps
  <2> QED
    BY <1>4, <2>1, <2>2, <2>3, <2>4, <2>5 DEF SwitchNext
<1>5. CASE AxisNext
  BY <1>0, <1>3, <1>5, SetBoundKeeps, ToggleLineKeeps DEF AxisNext
<1>6. CASE LabelNext
  BY <1>1, <1>3, <1>6 DEF LabelNext, Resize, AddEvaluation
<1> QED
  BY <1>2, <1>4, <1>5, <1>6 DEF Next, vars

LEMMA ChartInvariant == Spec => []ChartInv
BY ChartStart, ChartStep, SceneKept, PTL DEF Spec

\* A chart on the screen follows the last click that concerned it, on its own switch or
\* on the one for all charts, for any metrics, tabs, evaluations, numbers of clicks and
\* reloads; a click on its own switch is lost only with the mounted chart (the
\* generations of useMasterOverride, the stored preferences).
THEOREM ChartsShowTheLastChoice == Spec => []ChartShowsLastChoice
<1>1. ChartInv => ChartShowsLastChoice
  <2> SUFFICES ASSUME ChartInv, NEW m \in DOMAIN blocks, NEW s \in Switches
               PROVE  Effective(m, s) = IF clicks[m][s].by = "lost" THEN prefs.on[s] ELSE clicks[m][s].on
    BY DEF ChartShowsLastChoice
  <2>1. m \in Metrics
    BY DEF ChartInv, TabIndicators
  <2>2. clicks[m][s] \in Clicks
    BY <2>1 DEF ChartInv
  <2>3. Followed(clicks[m][s], m \in DOMAIN blocks, blocks[m].over[s], prefs.on[s])
    BY <2>1 DEF ChartInv
  <2>4. NULL \notin BOOLEAN
    BY ScenesAssumption
  <2> QED
    BY <2>2, <2>3, <2>4 DEF Followed, Clicks, Effective
<1> QED
  BY <1>1, ChartInvariant, PTL


-----------------------------------------------------------------------------
(* The frame of the value axis.                                            *)

\* A list of numbers has a largest one: otherwise take the shortest list without.
LEMMA ListMax ==
  ASSUME NEW n \in Nat \ {0}, NEW f \in [1..n -> Int]
  PROVE  \E k \in 1..n : \A j \in 1..n : f[k] >= f[j]
<1> DEFINE Bad(i, g) == \A k \in 1..i : \E j \in 1..i : ~(g[k] >= g[j])
           T == {i \in Nat \ {0} : \E g \in [1..i -> Int] : Bad(i, g)}
           less == OpToRel(<, Nat)
<1>1. SUFFICES ASSUME T # {} PROVE FALSE
  BY DEF Bad, T
<1>2. T \subseteq Nat
  OBVIOUS
<1>3. IsWellFoundedOn(less, Nat)
  BY NatLessThanWellFounded
<1>4. PICK i \in T : \A j \in T : ~(j < i)
  <2> HIDE DEF T, less
  <2>1. PICK i \in T : \A j \in T : ~(<<j, i>> \in less)
    BY <1>1, <1>2, <1>3, WFMin
  <2> QED
    BY <2>1, <1>2 DEF less, OpToRel
<1>5. PICK g \in [1..i -> Int] : Bad(i, g)
  OBVIOUS
<1>6. i \in Nat \ {0}
  OBVIOUS
<1>7. i # 1
  BY <1>5, <1>6
<1> DEFINE h == [j \in 1..(i - 1) |-> g[j]]
<1>8. i - 1 \in Nat \ {0} /\ h \in [1..(i - 1) -> Int]
  BY <1>6, <1>7
<1>9. i - 1 \notin T
  <2> HIDE DEF T
  <2> QED
    BY <1>4, <1>6
<1>10. ~Bad(i - 1, h)
  <2> HIDE DEF h, Bad
  <2> QED
    BY <1>8, <1>9 DEF T
<1>11. PICK k \in 1..(i - 1) : \A j \in 1..(i - 1) : h[k] >= h[j]
  BY <1>10
<1>12. \A j \in 1..(i - 1) : g[k] >= g[j]
  BY <1>11
<1>13. CASE g[k] >= g[i]
  <2>1. ASSUME NEW j \in 1..i PROVE g[k] >= g[j]
    <3>1. j = i \/ j \in 1..(i - 1)
      BY <1>6
    <3> QED
      BY <3>1, <1>12, <1>13
  <2> QED
    BY <2>1, <1>5, <1>6, <1>11
<1>14. CASE g[i] > g[k]
  <2>1. ASSUME NEW j \in 1..i PROVE g[i] >= g[j]
    <3>1. j = i \/ j \in 1..(i - 1)
      BY <1>6
    <3>2. g[i] \in Int /\ g[j] \in Int /\ g[k] \in Int
      BY <1>6, <1>8, <1>11, <1>5
    <3>3. CASE j = i
      BY <3>2, <3>3
    <3>4. CASE j \in 1..(i - 1)
      <4>1. g[k] >= g[j]
        BY <1>12, <3>4
      <4>2. \A a, b, c \in Int : a > b /\ b >= c => a >= c
        OBVIOUS
      <4> QED
        BY <4>1, <4>2, <3>2, <1>14
    <3> QED
      BY <3>1, <3>3, <3>4
  <2> QED
    BY <2>1, <1>5, <1>6
<1>15. g[k] \in Int /\ g[i] \in Int
  BY <1>6, <1>11
<1>16. \A a, b \in Int : a >= b \/ b > a
  OBVIOUS
<1> QED
  BY <1>13, <1>14, <1>15, <1>16, Zenon

LEMMA FiniteMax ==
  ASSUME NEW S \in SUBSET Int, S # {}, IsFiniteSet(S)
  PROVE  Max(S) \in S /\ \A y \in S : Max(S) >= y
<1>1. PICK n \in Nat : ExistsSurjection(1..n, S)
  BY FS_NatSurjection
<1>2. PICK f \in [1..n -> S] : \A t \in S : \E s \in 1..n : f[s] = t
  BY <1>1 DEF ExistsSurjection, Surjection
<1>3. n # 0
  <2>1. PICK t \in S : TRUE
    OBVIOUS
  <2>2. PICK s \in 1..n : f[s] = t
    BY <1>2, <2>1
  <2> QED
    BY <2>2
<1>4. f \in [1..n -> Int]
  OBVIOUS
<1>5. PICK k \in 1..n : \A j \in 1..n : f[k] >= f[j]
  BY <1>3, <1>4, ListMax
<1>6. f[k] \in S /\ \A y \in S : f[k] >= y
  BY <1>2, <1>5
<1> QED
  BY <1>6 DEF Max

LEMMA FiniteMin ==
  ASSUME NEW S \in SUBSET Int, S # {}, IsFiniteSet(S)
  PROVE  Min(S) \in S /\ \A y \in S : Min(S) <= y
<1>1. PICK n \in Nat : ExistsSurjection(1..n, S)
  BY FS_NatSurjection
<1>2. PICK f \in [1..n -> S] : \A t \in S : \E s \in 1..n : f[s] = t
  BY <1>1 DEF ExistsSurjection, Surjection
<1> DEFINE g == [j \in 1..n |-> -f[j]]
<1>3. n # 0
  <2>1. PICK t \in S : TRUE
    OBVIOUS
  <2>2. PICK s \in 1..n : f[s] = t
    BY <1>2, <2>1
  <2> QED
    BY <2>2
<1>4. f \in [1..n -> Int] /\ g \in [1..n -> Int]
  <2>1. \A j \in 1..n : f[j] \in Int
    OBVIOUS
  <2> QED
    BY <2>1
<1>9. \A j \in 1..n : g[j] = -f[j]
  OBVIOUS
<1> HIDE DEF g
<1>5. PICK k \in 1..n : \A j \in 1..n : g[k] >= g[j]
  BY <1>3, <1>4, ListMax
<1>6. f[k] \in S /\ \A y \in S : f[k] <= y
  <2>1. ASSUME NEW j \in 1..n PROVE f[k] <= f[j]
    <3>1. f[j] \in Int /\ f[k] \in Int /\ g[k] >= g[j]
      BY <1>4, <1>5
    <3>2. g[j] = -f[j] /\ g[k] = -f[k]
      BY <1>9
    <3> QED
      BY <3>1, <3>2
  <2> QED
    BY <1>2, <2>1
<1> QED
  BY <1>6 DEF Min

LEMMA FloorToBelow ==
  ASSUME NEW v \in Int, NEW step \in Nat \ {0}
  PROVE  FloorTo(v, step) \in Int /\ FloorTo(v, step) <= v /\ v - step < FloorTo(v, step)
BY DEF FloorTo

LEMMA CeilToAbove ==
  ASSUME NEW v \in Int, NEW step \in Nat \ {0}
  PROVE  CeilTo(v, step) \in Int /\ CeilTo(v, step) >= v /\ CeilTo(v, step) < v + step
<1> DEFINE w == -v
<1>1. w \in Int /\ v = -w
  OBVIOUS
<1> HIDE DEF w
<1>2. FloorTo(w, step) \in Int /\ FloorTo(w, step) <= w /\ w - step < FloorTo(w, step)
  BY <1>1, FloorToBelow
<1>3. CeilTo(v, step) = -FloorTo(w, step)
  BY DEF CeilTo, w
<1> DEFINE floor == FloorTo(w, step)
<1>4. floor \in Int /\ floor <= w /\ w - step < floor /\ CeilTo(v, step) = -floor
  BY <1>2, <1>3
<1> HIDE DEF floor
<1> QED
  BY <1>1, <1>4

\* The tick is positive and below a quarter of the span.
LEMMA NiceStepBounds ==
  ASSUME NEW span \in Int, span >= 42
  PROVE  NiceStep(span) \in Nat \ {0} /\ 100 * NiceStep(span) <= 24 * span
<1> DEFINE raw == (span * 24) \div 100
           powers == {p \in PowersOfTen : p <= raw}
           power == Max(powers)
           ticks == {c \in {power, 2 * power, (5 * power) \div 2, 5 * power} : c <= raw}
<1>1. raw \in Int /\ raw >= 10 /\ 100 * raw <= 24 * span
  OBVIOUS
<1>2. NiceStep(span) = Max(ticks)
  BY DEF NiceStep
<1> HIDE DEF raw
<1>3. powers \in SUBSET PowersOfTen /\ powers \in SUBSET Nat /\ 10 \in powers /\ \A p \in powers : p >= 10
  BY <1>1, DigitsAssumption
<1>4. IsFiniteSet(powers)
  <2> HIDE DEF powers
  <2>1. IsFiniteSet(PowersOfTen)
    BY DigitsAssumption
  <2> QED
    BY <1>3, <2>1, FS_Subset, Zenon
<1>5. power \in powers
  <2> HIDE DEF powers
  <2>1. powers \in SUBSET Int /\ powers # {}
    BY <1>3
  <2> QED
    BY <2>1, <1>4, FiniteMax
<1>6. power \in Nat /\ power >= 10 /\ power <= raw
  BY <1>3, <1>5
<1> HIDE DEF power, powers
<1>7. ticks \in SUBSET Nat /\ power \in ticks /\ \A c \in ticks : c <= raw
  BY <1>1, <1>6
<1>8. IsFiniteSet(ticks)
  <2> HIDE DEF ticks
  <2>1. raw \in Nat
    BY <1>1
  <2> QED
    BY <1>7, <2>1, FS_BoundedSetOfNaturals
<1>9. Max(ticks) \in ticks /\ Max(ticks) >= power
  <2> HIDE DEF ticks
  <2>1. ticks \in SUBSET Int /\ ticks # {}
    BY <1>7
  <2> QED
    BY <2>1, <1>7, <1>8, FiniteMax
<1> HIDE DEF ticks
<1> DEFINE step == Max(ticks)
<1>10. step \in ticks /\ step >= power /\ NiceStep(span) = step
  BY <1>2, <1>9
<1> HIDE DEF step
<1>11. step \in Nat /\ step >= 10 /\ step <= raw
  BY <1>6, <1>7, <1>10
<1> QED
  BY <1>1, <1>10, <1>11

\* Before rounding, the bounds are a tenth of the span beyond the data or more, and the
\* data have more than half of the height.
LEMMA BeyondFrames ==
  ASSUME NEW lo \in Int, NEW hi \in Int, lo <= hi,
         Span(lo, hi) \in Int, Span(lo, hi) >= 42, Span(lo, hi) % 10 = 0
  PROVE  /\ Beyond(lo, hi).min \in Int /\ Beyond(lo, hi).max \in Int
         /\ 10 * (lo - Beyond(lo, hi).min) >= Span(lo, hi)
         /\ 10 * (Beyond(lo, hi).max - hi) >= Span(lo, hi)
         /\ lo < hi => 50 * (Beyond(lo, hi).max - Beyond(lo, hi).min) < 84 * Span(lo, hi)
<1> DEFINE span == Span(lo, hi)
           step == NiceStep(span)
           pad == span \div 10
           min == FloorTo(lo - pad, step)
           max == CeilTo(hi + pad, step)
<1>1. Beyond(lo, hi).min = min /\ Beyond(lo, hi).max = max
  BY DEF Beyond
<1>2. step \in Nat \ {0} /\ 100 * step <= 24 * span /\ span \in Int /\ span >= 42 /\ span % 10 = 0
  BY NiceStepBounds
<1>3. lo < hi => span = hi - lo
  BY DEF Span
<1> HIDE DEF span, step
<1>4. pad \in Int /\ 10 * pad = span
  BY <1>2
<1> HIDE DEF pad
<1>5. lo - pad \in Int /\ hi + pad \in Int
  BY <1>4
<1>6. min \in Int /\ min <= lo - pad /\ lo - pad - step < min
  BY <1>2, <1>5, FloorToBelow
<1>7. max \in Int /\ max >= hi + pad /\ max < hi + pad + step
  BY <1>2, <1>5, CeilToAbove
<1> HIDE DEF min, max
<1>8. 10 * (lo - min) >= span /\ 10 * (max - hi) >= span
  BY <1>2, <1>4, <1>6, <1>7
<1>9. lo < hi => 50 * (max - min) < 84 * span
  BY <1>2, <1>3, <1>4, <1>6, <1>7
<1> QED
  BY <1>1, <1>6, <1>7, <1>8, <1>9 DEF span

LEMMA MaxOfTwo ==
  ASSUME NEW a \in Int, NEW b \in Int
  PROVE  Max({a, b}) \in {a, b} /\ Max({a, b}) >= a /\ Max({a, b}) >= b
<1>1. \E x \in {a, b} : \A y \in {a, b} : x >= y
  <2>1. a >= b \/ b >= a
    OBVIOUS
  <2> QED
    BY <2>1
<1> QED
  BY <1>1 DEF Max

\* Points in tenths have such a span, flat ones too.
LEMMA TenthsSpan ==
  ASSUME NEW lo \in Tenths, NEW hi \in Tenths, lo <= hi
  PROVE  Span(lo, hi) \in Int /\ Span(lo, hi) >= 42 /\ Span(lo, hi) % 10 = 0
<1>1. lo \in Int /\ hi \in Int /\ lo % 1000 = 0 /\ hi % 1000 = 0
  BY DEF Tenths
<1>2. CASE hi > lo
  <2>1. Span(lo, hi) = hi - lo
    BY <1>2 DEF Span
  <2>2. hi - lo >= 1000
    BY <1>1, <1>2
  <2> QED
    BY <1>1, <2>1, <2>2
<1>3. CASE ~(hi > lo)
  <2> DEFINE size == Size(hi)
             tenth == size \div 10
  <2>1. Span(lo, hi) = IF tenth = 0 THEN 10000 ELSE tenth
    BY <1>3 DEF Span
  <2>2. -hi \in Int
    BY <1>1
  <2>3. size \in {hi, -hi} /\ size >= hi /\ size >= -hi
    BY <1>1, <2>2, MaxOfTwo DEF Size
  <2> HIDE DEF size
  <2>4. size \in Int /\ (size = 0 \/ size >= 1000)
    BY <1>1, <2>2, <2>3
  <2>6. size % 1000 = 0
    BY <1>1, <2>3
  <2>5. tenth \in Int /\ (tenth = 0 \/ tenth >= 100) /\ tenth % 10 = 0
    BY <2>4, <2>6
  <2> HIDE DEF tenth
  <2> QED
    BY <2>1, <2>5
<1> QED
  BY <1>2, <1>3

\* The unit of the last digit that is kept is 1, or even.
LEMMA UnitSound ==
  ASSUME NEW v \in Int
  PROVE  Unit(v) \in Nat /\ (Unit(v) = 1 \/ (Unit(v) >= 10 /\ Unit(v) % 10 = 0))
<1> DEFINE powers == {p \in PowersOfTen : p <= Size(v) \div Kept}
           units == {1} \union powers
<1>1. powers \in SUBSET PowersOfTen /\ IsFiniteSet(PowersOfTen)
  BY DigitsAssumption
<1>2. \A p \in powers : p \in Nat /\ p >= 10 /\ p % 10 = 0
  BY DigitsAssumption
<1>3. Unit(v) = Max(units)
  BY DEF Unit
<1> HIDE DEF powers
<1>4. IsFiniteSet(powers)
  BY <1>1, FS_Subset, Zenon
<1>5. IsFiniteSet({1} \union powers)
  BY <1>4, FS_Singleton, FS_Union
<1>6. units \in SUBSET Int /\ units # {}
  BY <1>2
<1>7. IsFiniteSet(units)
  BY <1>5
<1> HIDE DEF units
<1>8. Unit(v) \in units
  BY <1>3, <1>6, <1>7, FiniteMax
<1> QED
  BY <1>2, <1>8 DEF units

\* Rounding to a multiple of a unit moves a number by at most half of it.
LEMMA Nearest ==
  ASSUME NEW n \in Nat, NEW unit \in Nat \ {0}
  PROVE  LET near == ((2 * n + unit) \div (2 * unit)) * unit
         IN  near \in Nat /\ 2 * (near - n) <= unit /\ 2 * (n - near) <= unit
<1> DEFINE q == (2 * n + unit) \div (2 * unit)
           near == q * unit
<1>1. 2 * unit \in Nat \ {0} /\ 2 * n + unit \in Nat
  OBVIOUS
<1> DEFINE d == 2 * unit
           a == 2 * n + unit
<1>2. d \in Nat \ {0} /\ a \in Nat
  BY <1>1
<1>3. q = a \div d
  OBVIOUS
<1> HIDE DEF q, d, a
<1>4. q \in Nat /\ d * q <= a /\ a < d * q + d
  BY <1>2, <1>3, SMTT(30)
<1>5. near \in Nat
  BY <1>4
<1>6. d * q = 2 * near
  BY <1>4 DEF d
<1> HIDE DEF near
<1>7. 2 * near <= 2 * n + unit /\ 2 * n + unit < 2 * near + 2 * unit
  BY <1>4, <1>6 DEF a, d
<1>8. 2 * (near - n) <= unit /\ 2 * (n - near) <= unit
  BY <1>5, <1>7
<1> QED
  BY <1>5, <1>8 DEF near, q

LEMMA RoundBoundNear ==
  ASSUME NEW v \in Int
  PROVE  RoundBound(v) \in Int /\ 2 * (RoundBound(v) - v) <= Unit(v) /\ 2 * (v - RoundBound(v)) <= Unit(v)
<1> DEFINE unit == Unit(v)
           n == Size(v)
           near == ((2 * n + unit) \div (2 * unit)) * unit
<1>1. RoundBound(v) = IF v < 0 THEN -near ELSE near
  BY DEF RoundBound
<1>2. unit \in Nat \ {0}
  BY UnitSound
<1>3. n \in Nat /\ n = IF v < 0 THEN -v ELSE v
  <2>1. -v \in Int
    OBVIOUS
  <2>2. n \in {v, -v} /\ n >= v /\ n >= -v
    BY <2>1, MaxOfTwo DEF Size
  <2> QED
    BY <2>2
<1> HIDE DEF unit, n
<1>4. near \in Nat /\ 2 * (near - n) <= unit /\ 2 * (n - near) <= unit
  BY <1>2, <1>3, Nearest
<1> HIDE DEF near
<1>5. RoundBound(v) \in Int /\ 2 * (RoundBound(v) - v) <= unit /\ 2 * (v - RoundBound(v)) <= unit
  BY <1>1, <1>2, <1>3, <1>4
<1> QED
  BY <1>5 DEF unit

\* The automatic bounds: at most half a unit inside of the data, and outside of data that
\* span more than five units.
LEMMA PaddedAxisFrames ==
  ASSUME NEW lo \in Int, NEW hi \in Int, lo <= hi,
         Span(lo, hi) \in Int, Span(lo, hi) >= 42, Span(lo, hi) % 10 = 0,
         NEW u, u = Unit(Beyond(lo, hi).min), NEW w, w = Unit(Beyond(lo, hi).max)
  PROVE  /\ 2 * (PaddedAxis(lo, hi).min - lo) < u /\ 2 * (hi - PaddedAxis(lo, hi).max) < w
         /\ 5 * u < Span(lo, hi) /\ 5 * w < Span(lo, hi) =>
               /\ PaddedAxis(lo, hi).min < lo /\ PaddedAxis(lo, hi).max > hi
               /\ lo < hi => 2 * (hi - lo) >= PaddedAxis(lo, hi).max - PaddedAxis(lo, hi).min
<1> DEFINE span == Span(lo, hi)
           rawMin == Beyond(lo, hi).min
           rawMax == Beyond(lo, hi).max
           min == RoundBound(rawMin)
           max == RoundBound(rawMax)
<1>1. PaddedAxis(lo, hi).min = min /\ PaddedAxis(lo, hi).max = max
  BY DEF PaddedAxis
<1>2. /\ rawMin \in Int /\ rawMax \in Int
      /\ 10 * (lo - rawMin) >= span /\ 10 * (rawMax - hi) >= span
      /\ lo < hi => 50 * (rawMax - rawMin) < 84 * span
      /\ span \in Int /\ span >= 42 /\ (lo < hi => span = hi - lo)
  BY BeyondFrames DEF Span
<1> HIDE DEF span, rawMin, rawMax
<1>3. /\ u \in Nat /\ min \in Int /\ 2 * (min - rawMin) <= u /\ 2 * (rawMin - min) <= u
      /\ w \in Nat /\ max \in Int /\ 2 * (max - rawMax) <= w /\ 2 * (rawMax - max) <= w
  BY <1>2, UnitSound, RoundBoundNear DEF rawMin, rawMax
<1> HIDE DEF min, max
<1>4. 2 * (min - lo) < u /\ 2 * (hi - max) < w
  BY <1>2, <1>3
<1>5. 5 * u < span /\ 5 * w < span =>
        min < lo /\ max > hi /\ (lo < hi => 2 * (hi - lo) >= max - min)
  BY <1>2, <1>3
<1> QED
  BY <1>1, <1>4, <1>5 DEF span

\* What a chart draws is a finite set of such numbers.
LEMMA DrawnFinite ==
  ASSUME ChartInv, NEW m \in DOMAIN blocks, trend # << >>
  PROVE  Drawn(m) \subseteq Tenths /\ Drawn(m) # {} /\ IsFiniteSet(Drawn(m))
<1> DEFINE lines == {"value"} \union (IF blocks[m].target /\ HasTarget THEN {"target"} ELSE {})
                              \union (IF blocks[m].base THEN {"base"} ELSE {})
           T == {trend[i][line] : i \in DOMAIN trend, line \in lines}
           P == (DOMAIN trend) \X lines
           f == [p \in P |-> trend[p[1]][p[2]]]
<1>1. Drawn(m) = T \ {NULL}
  BY DEF Drawn
<1>2. "value" \in lines /\ lines \subseteq {"value", "target", "base"}
  OBVIOUS
<1> HIDE DEF lines
<1>3. Len(trend) \in Nat /\ DOMAIN trend = 1..Len(trend) /\ trend \in Seq(Points)
  BY LenProperties DEF ChartInv
<1>4. 1 \in DOMAIN trend
  BY <1>3
<1>5. \A i \in DOMAIN trend : trend[i] \in Points
  BY <1>3
<1>6. \A i \in DOMAIN trend, line \in {"value", "target", "base"} : trend[i][line] \in Tenths \union {NULL}
  BY <1>5 DEF Points
<1>7. NULL \notin Tenths
  BY ScenesAssumption DEF Tenths
<1>8. trend[1]["value"] \in Tenths
  BY <1>4, <1>5 DEF Points
<1>9. T \subseteq Tenths \union {NULL} /\ trend[1]["value"] \in T
  BY <1>2, <1>4, <1>6
<1>10. IsFiniteSet(DOMAIN trend)
  BY <1>3, FS_Interval
<1>11. IsFiniteSet(lines)
  <2>1. IsFiniteSet({"value"} \union {"target"} \union {"base"})
    BY FS_Singleton, FS_Union
  <2>2. lines \in SUBSET ({"value"} \union {"target"} \union {"base"})
    BY <1>2
  <2> QED
    BY <2>1, <2>2, FS_Subset
<1>12. IsFiniteSet(P)
  BY <1>10, <1>11, FS_Product
<1>13. f \in Surjection(P, T)
  <2>1. f \in [P -> T]
    OBVIOUS
  <2>2. ASSUME NEW t \in T PROVE \E p \in P : f[p] = t
    <3>1. PICK i \in DOMAIN trend, line \in lines : t = trend[i][line]
      OBVIOUS
    <3>2. <<i, line>> \in P /\ f[<<i, line>>] = t
      BY <3>1
    <3> QED
      BY <3>2
  <2> HIDE DEF f, P, T
  <2>3. \A t \in T : \E p \in P : f[p] = t
    BY <2>2
  <2> QED
    BY <2>1, <2>3 DEF Surjection
<1>14. IsFiniteSet(T)
  <2> HIDE DEF f, P, T
  <2> QED
    BY <1>12, <1>13, FS_Surjection
<1>15. IsFiniteSet(Drawn(m))
  <2> HIDE DEF T
  <2> QED
    BY <1>1, <1>14, FS_Subset
<1> HIDE DEF T
<1> QED
  BY <1>1, <1>7, <1>8, <1>9, <1>15

\* Data that span more than five units of the last kept digit are framed by automatic
\* bounds and fill half of the height between two of them; of flatter data at most half
\* such a unit is cut; typed bounds are not inverted. For any numbers of points and
\* values, any switches, any bounds typed in and any number of kept digits
\* (paddedAxisBound, roundBound and the resolution of the typed bounds).
THEOREM AxesFrameTheirData == Spec => []AxisFramesData
<1>1. ChartInv => AxisFramesData
  <2> SUFFICES ASSUME ChartInv, NEW m \in DOMAIN blocks, trend # << >>
               PROVE  LET lo == Min(Drawn(m))
                          hi == Max(Drawn(m))
                          unit == [side \in {"min", "max"} |-> Unit(Beyond(lo, hi)[side])]
                          auto == {side \in {"min", "max"} : Typed(m)[side] = NULL}
                      IN  /\ "min" \in auto => 2 * (Axis(m).min - lo) < unit.min
                          /\ "max" \in auto => 2 * (hi - Axis(m).max) < unit.max
                          /\ auto = {} => Axis(m).min < Axis(m).max
                          /\ 5 * unit.min < Span(lo, hi) /\ 5 * unit.max < Span(lo, hi) =>
                                /\ "min" \in auto => Axis(m).min < lo
                                /\ "max" \in auto => Axis(m).max > hi
                                /\ auto = {"min", "max"} /\ lo < hi =>
                                      2 * (hi - lo) >= Axis(m).max - Axis(m).min
    BY DEF AxisFramesData
  <2> DEFINE lo == Min(Drawn(m))
             hi == Max(Drawn(m))
             padded == PaddedAxis(lo, hi)
             unit == [side \in {"min", "max"} |-> Unit(Beyond(lo, hi)[side])]
             auto == {side \in {"min", "max"} : Typed(m)[side] = NULL}
  <2>1. Drawn(m) \subseteq Tenths /\ Drawn(m) # {} /\ IsFiniteSet(Drawn(m))
    BY DrawnFinite
  <2>2. Tenths \subseteq Int
    BY DEF Tenths
  <2>3. lo \in Drawn(m) /\ hi \in Drawn(m) /\ hi >= lo
    BY <2>1, <2>2, FiniteMin, FiniteMax
  <2>4. Axis(m) = [side \in {"min", "max"} |->
                     IF Typed(m)[side] = NULL THEN padded[side] ELSE Typed(m)[side]]
    BY DEF Axis
  <2>14. unit.min = Unit(Beyond(lo, hi).min) /\ unit.max = Unit(Beyond(lo, hi).max)
    OBVIOUS
  <2>15. /\ "min" \in auto <=> Typed(m).min = NULL
         /\ "max" \in auto <=> Typed(m).max = NULL
    OBVIOUS
  <2> HIDE DEF lo, hi
  <2>5. lo \in Tenths /\ hi \in Tenths /\ lo \in Int /\ hi \in Int /\ lo <= hi
    BY <2>1, <2>2, <2>3
  <2>6. Span(lo, hi) \in Int /\ Span(lo, hi) >= 42 /\ Span(lo, hi) % 10 = 0
    BY <2>5, TenthsSpan
  <2> HIDE DEF unit, auto, padded
  <2>7. /\ 2 * (padded.min - lo) < unit.min /\ 2 * (hi - padded.max) < unit.max
        /\ 5 * unit.min < Span(lo, hi) /\ 5 * unit.max < Span(lo, hi) =>
              /\ padded.min < lo /\ padded.max > hi
              /\ lo < hi => 2 * (hi - lo) >= padded.max - padded.min
    BY <2>5, <2>6, <2>14, PaddedAxisFrames DEF padded
  <2>8. Typed(m).min # NULL /\ Typed(m).max # NULL => Typed(m).min < Typed(m).max
    <3>1. BlockSound(blocks[m])
      BY DEF ChartInv
    <3>2. blocks[m].min \in Int \union {NULL} /\ blocks[m].max \in Int \union {NULL}
      BY <3>1 DEF BlockSound
    <3> QED
      BY <3>2 DEF Typed
  <2>9. /\ Axis(m).min = IF "min" \in auto THEN padded.min ELSE Typed(m).min
        /\ Axis(m).max = IF "max" \in auto THEN padded.max ELSE Typed(m).max
    BY <2>4, <2>15
  <2>10. auto = {} => Axis(m).min < Axis(m).max
    BY <2>8, <2>9, <2>15
  <2>11. /\ "min" \in auto => 2 * (Axis(m).min - lo) < unit.min
         /\ "max" \in auto => 2 * (hi - Axis(m).max) < unit.max
    BY <2>7, <2>9
  <2>12. 5 * unit.min < Span(lo, hi) /\ 5 * unit.max < Span(lo, hi) =>
            /\ "min" \in auto => Axis(m).min < lo
            /\ "max" \in auto => Axis(m).max > hi
            /\ auto = {"min", "max"} /\ lo < hi => 2 * (hi - lo) >= Axis(m).max - Axis(m).min
    <3>1. auto = {"min", "max"} => "min" \in auto /\ "max" \in auto
      OBVIOUS
    <3> QED
      BY <2>7, <2>9, <3>1
  <2> QED
    BY <2>10, <2>11, <2>12 DEF lo, hi, unit, auto
<1> QED
  BY <1>1, ChartInvariant, PTL

-----------------------------------------------------------------------------
(* Loops: what a pass over the numbers from 1 to n leaves behind.          *)

LEMMA UpTo ==
  ASSUME NEW n \in Nat, NEW T, 0 \in T, \A k \in 1..n : k - 1 \in T => k \in T
  PROVE  \A k \in 0..n : k \in T
<1> DEFINE U == {k \in 0..n : k \notin T}
           less == OpToRel(<, Nat)
<1>0. IsWellFoundedOn(less, Nat)
  BY NatLessThanWellFounded
<1>1. SUFFICES ASSUME U # {} PROVE FALSE
  OBVIOUS
<1>2. U \subseteq Nat /\ IsWellFoundedOn(less, Nat)
  <2> HIDE DEF less
  <2> QED
    BY <1>0
<1>3. PICK k \in U : \A j \in U : ~(<<j, k>> \in less)
  <2> HIDE DEF U, less
  <2> QED
    BY <1>1, <1>2, WFMin
<1>4. k \in 1..n /\ k - 1 \in 0..n
  OBVIOUS
<1>5. <<k - 1, k>> \in less
  BY <1>4 DEF OpToRel
<1>6. k - 1 \in T
  BY <1>3, <1>4, <1>5
<1> QED
  BY <1>4, <1>6

\* The steps of a pass can be taken, one after the other.
LEMMA Iterated ==
  ASSUME NEW A, NEW base \in A, NEW n \in Nat, NEW step \in [1..n -> [A -> A]]
  PROVE  \E f \in [0..n -> A] : f[0] = base /\ \A k \in 1..n : f[k] = step[k][f[k - 1]]
<1> DEFINE Runs(m, f) == f[0] = base /\ \A k \in 1..m : f[k] = step[k][f[k - 1]]
           T == {m \in 0..n : \E f \in [0..m -> A] : Runs(m, f)}
<1>1. 0 \in T
  <2> DEFINE f == [k \in 0..0 |-> base]
  <2>1. f \in [0..0 -> A] /\ Runs(0, f) /\ 0 \in 0..n
    OBVIOUS
  <2> HIDE DEF f, Runs
  <2> QED
    BY <2>1
<1>2. ASSUME NEW m \in 1..n, m - 1 \in T PROVE m \in T
  <2>1. PICK f \in [0..(m - 1) -> A] : Runs(m - 1, f)
    BY <1>2
  <2> DEFINE g == [k \in 0..m |-> IF k = m THEN step[m][f[m - 1]] ELSE f[k]]
  <2>2. f[m - 1] \in A /\ step[m] \in [A -> A]
    OBVIOUS
  <2>3. step[m][f[m - 1]] \in A
    BY <2>2
  <2>4. g \in [0..m -> A]
    BY <2>3
  <2>5. Runs(m, g)
    BY <2>1
  <2>6. m \in 0..n
    OBVIOUS
  <2> HIDE DEF g, Runs
  <2> QED
    BY <2>4, <2>5, <2>6
<1> HIDE DEF T
<1>3. \A m \in 0..n : m \in T
  BY <1>1, <1>2, UpTo
<1>4. n \in T
  BY <1>3
<1> QED
  BY <1>4 DEF T

\* The loop is well defined, and its steps are those.
LEMMA LoopKeeps ==
  ASSUME NEW A, NEW base \in A, NEW n \in Nat, NEW step \in [1..n -> [A -> A]], NEW d,
         d[0] = base, \A k \in 1..n : d[k - 1] \in A => d[k] = step[k][d[k - 1]]
  PROVE  \A k \in 0..n : d[k] \in A
<1> DEFINE T == {k \in 0..n : d[k] \in A}
<1>1. 0 \in T
  OBVIOUS
<1>2. ASSUME NEW k \in 1..n, k - 1 \in T PROVE k \in T
  <2>1. step[k] \in [A -> A] /\ d[k - 1] \in A
    BY <1>2
  <2> QED
    BY <2>1
<1> HIDE DEF T
<1>3. \A k \in 0..n : k \in T
  BY <1>1, <1>2, UpTo
<1> QED
  BY <1>3 DEF T

Collects(up, S, n) ==
    /\ up \in [0..n -> Seq(Int)] /\ up[0] = << >>
    /\ \A k \in 1..n : up[k] = IF k \in S THEN Append(up[k - 1], k) ELSE up[k - 1]

LEMMA InOrderRuns ==
  ASSUME NEW S, NEW n \in Nat
  PROVE  \E up : Collects(up, S, n) /\ InOrder(S, n) = up[n]
<1> DEFINE A == Seq(Int)
           Longer(k, s) == IF k \in S THEN Append(s, k) ELSE s
           step == [k \in 1..n |-> [s \in A |-> Longer(k, s)]]
           empty == << >>
           Levels(d) == [k \in 0..n |-> IF k = 0 THEN empty ELSE Longer(k, d[k - 1])]
           up == CHOOSE d : d = Levels(d)
<1>1. empty \in A /\ \A k \in 1..n : \A s \in A : Longer(k, s) \in A
  OBVIOUS
<1>2. InOrder(S, n) = up[n]
  BY DEF InOrder
<1> HIDE DEF A, Longer, empty
<1>3. step \in [1..n -> [A -> A]] /\ \A k \in 1..n : \A s \in A : step[k][s] = Longer(k, s)
  BY <1>1
<1> HIDE DEF step
<1>4. PICK f \in [0..n -> A] : f[0] = empty /\ \A k \in 1..n : f[k] = step[k][f[k - 1]]
  <2>1. empty \in A /\ step \in [1..n -> [A -> A]]
    BY <1>1, <1>3
  <2> QED
    BY <2>1, Iterated
<1>5. f = Levels(f)
  BY <1>3, <1>4
<1>6. up = Levels(up)
  <2> HIDE DEF Levels
  <2> QED
    BY <1>5
<1> HIDE DEF up
<1>7. up[0] = empty /\ \A k \in 1..n : up[k] = Longer(k, up[k - 1])
  BY <1>6
<1>8. \A k \in 0..n : up[k] \in A
  <2>1. \A k \in 1..n : up[k - 1] \in A => up[k] = step[k][up[k - 1]]
    BY <1>3, <1>7
  <2> QED
    BY <1>1, <1>3, <1>7, <2>1, LoopKeeps
<1>9. up \in [0..n -> A]
  BY <1>6, <1>8
<1> QED
  BY <1>2, <1>7, <1>9 DEF A, Longer, empty, Collects

\* The list goes up and has the numbers of S and no others.
LEMMA InOrderLists ==
  ASSUME NEW S, NEW n \in Nat, NEW r, r = InOrder(S, n)
  PROVE  /\ r \in Seq(Int) /\ Len(r) \in Nat /\ DOMAIN r = 1..Len(r)
         /\ \A i \in DOMAIN r : r[i] \in 1..n /\ r[i] \in S
         /\ \A i, j \in DOMAIN r : i < j => r[i] < r[j]
         /\ \A k \in 1..n : k \in S => \E i \in DOMAIN r : r[i] = k
<1>0. PICK up : Collects(up, S, n) /\ InOrder(S, n) = up[n]
  BY InOrderRuns
<1>1. /\ up \in [0..n -> Seq(Int)] /\ up[0] = << >> /\ InOrder(S, n) = up[n]
      /\ \A k \in 1..n : up[k] = IF k \in S THEN Append(up[k - 1], k) ELSE up[k - 1]
  BY <1>0 DEF Collects
<1> DEFINE Goes(k, s) ==
             /\ \A i \in 1..Len(s) : s[i] \in 1..k /\ s[i] \in S
             /\ \A i, j \in 1..Len(s) : i < j => s[i] < s[j]
             /\ \A m \in 1..k : m \in S => \E i \in 1..Len(s) : s[i] = m
           T == {k \in 0..n : Goes(k, up[k])}
<1>2. 0 \in T
  <2>1. Len(up[0]) = 0
    BY <1>1
  <2> QED
    BY <2>1
<1>3. ASSUME NEW k \in 1..n, k - 1 \in T PROVE k \in T
  <2> DEFINE s == up[k - 1]
             t == up[k]
  <2>1. s \in Seq(Int) /\ Len(s) \in Nat /\ Goes(k - 1, s)
    BY <1>1, <1>3
  <2>2. t = IF k \in S THEN Append(s, k) ELSE s
    BY <1>1
  <2> HIDE DEF s, t, Goes
  <2>3. \A m \in 1..k : m = k \/ m \in 1..(k - 1)
    OBVIOUS
  <2>4. CASE k \notin S
    <3>1. \A i \in 1..Len(s) : s[i] \in 1..(k - 1) /\ s[i] \in S
      BY <2>1 DEF Goes
    <3>2. \A i \in 1..Len(s) : s[i] \in 1..k /\ s[i] \in S
      BY <3>1
    <3>3. \A m \in 1..k : m \in S => \E i \in 1..Len(s) : s[i] = m
      BY <2>1, <2>3, <2>4 DEF Goes
    <3>4. Goes(k, t)
      BY <2>1, <2>2, <2>4, <3>2, <3>3 DEF Goes
    <3> QED
      BY <3>4 DEF t
  <2>5. CASE k \in S
    <3>1. /\ Len(t) = Len(s) + 1 /\ \A i \in 1..Len(s) : t[i] = s[i]
          /\ t[Len(s) + 1] = k
      BY <2>1, <2>2, <2>5, AppendProperties
    <3>2. \A i \in 1..Len(t) : i = Len(s) + 1 \/ i \in 1..Len(s)
      BY <2>1, <3>1
    <3>3. ASSUME NEW i \in 1..Len(t) PROVE t[i] \in 1..k /\ t[i] \in S
      <4>1. CASE i = Len(s) + 1
        BY <2>5, <3>1, <4>1
      <4>2. CASE i \in 1..Len(s)
        <5>1. t[i] = s[i] /\ s[i] \in 1..(k - 1) /\ s[i] \in S
          BY <2>1, <3>1, <4>2 DEF Goes
        <5> QED
          BY <5>1
      <4> QED
        BY <3>2, <4>1, <4>2
    <3>4. ASSUME NEW i \in 1..Len(t), NEW j \in 1..Len(t), i < j PROVE t[i] < t[j]
      <4>1. i \in 1..Len(s)
        BY <2>1, <3>1, <3>4
      <4>2. CASE j \in 1..Len(s)
        BY <2>1, <3>1, <3>4, <4>1, <4>2 DEF Goes
      <4>3. CASE j = Len(s) + 1
        <5>1. t[i] = s[i] /\ s[i] \in 1..(k - 1) /\ t[j] = k
          BY <2>1, <3>1, <4>1, <4>3 DEF Goes
        <5> QED
          BY <5>1
      <4> QED
        BY <3>2, <4>2, <4>3
    <3>5. ASSUME NEW m \in 1..k, m \in S PROVE \E i \in 1..Len(t) : t[i] = m
      <4>1. CASE m = k
        <5>1. Len(s) + 1 \in 1..Len(t)
          BY <2>1, <3>1
        <5> QED
          BY <3>1, <4>1, <5>1
      <4>2. CASE m \in 1..(k - 1)
        <5>1. PICK i \in 1..Len(s) : s[i] = m
          BY <2>1, <3>5, <4>2 DEF Goes
        <5>2. i \in 1..Len(t)
          BY <2>1, <3>1
        <5> QED
          BY <3>1, <5>1, <5>2
      <4> QED
        BY <2>3, <4>1, <4>2
    <3>6. Goes(k, t)
      BY <3>3, <3>4, <3>5 DEF Goes
    <3> QED
      BY <3>6 DEF t
  <2> QED
    BY <2>4, <2>5
<1> HIDE DEF T, Goes
<1>6. \A k \in 0..n : k \in T
  BY <1>2, <1>3, UpTo
<1>4. n \in T
  BY <1>6
<1>5. r = up[n] /\ Goes(n, r)
  BY <1>1, <1>4 DEF T
<1>7. r \in Seq(Int) /\ Len(r) \in Nat /\ DOMAIN r = 1..Len(r)
  BY <1>1, <1>5, LenProperties
<1> QED
  BY <1>5, <1>7 DEF Goes

-----------------------------------------------------------------------------
(* Heatmap cells: a pass over the evaluations keeps the worst of those with *)
(* the key of the cell.                                                    *)

EvalRow(e) == e.result \in DOMAIN RESULT_RANK /\ e.note \in BOOLEAN

EvalList(list) == list \in Seq({list[i] : i \in DOMAIN list}) /\ \A i \in DOMAIN list : EvalRow(list[i])

Cells == [result : DOMAIN RESULT_RANK, note : BOOLEAN, count : Nat]

LEMMA RanksCompare == \A r \in DOMAIN RESULT_RANK : RESULT_RANK[r] \in Nat
BY DEF RESULT_RANK

LEMMA AccumulatedCell ==
  ASSUME NEW cell \in Cells, NEW e, EvalRow(e)
  PROVE  /\ Accumulated(cell, e) \in Cells
         /\ Accumulated(cell, e).count = cell.count + 1
         /\ Accumulated(cell, e).note <=> cell.note \/ e.note
         /\ RESULT_RANK[e.result] <= RESULT_RANK[Accumulated(cell, e).result]
         /\ cell.count # 0 => RESULT_RANK[cell.result] <= RESULT_RANK[Accumulated(cell, e).result]
         /\ \/ Accumulated(cell, e).result = e.result
            \/ cell.count # 0 /\ Accumulated(cell, e).result = cell.result
<1> DEFINE r == IF cell.count = 0 \/ RESULT_RANK[e.result] > RESULT_RANK[cell.result]
                THEN e.result ELSE cell.result
           b == cell.note \/ e.note
<1>1. Accumulated(cell, e) = [result |-> r, note |-> b, count |-> cell.count + 1]
  BY DEF Accumulated
<1>2. e.result \in DOMAIN RESULT_RANK /\ cell.result \in DOMAIN RESULT_RANK /\ cell.count \in Nat
  BY DEF EvalRow, Cells
<1>3. /\ r \in DOMAIN RESULT_RANK /\ RESULT_RANK[e.result] <= RESULT_RANK[r]
      /\ cell.count # 0 => RESULT_RANK[cell.result] <= RESULT_RANK[r]
      /\ r = e.result \/ (cell.count # 0 /\ r = cell.result)
  BY <1>2, RanksCompare
<1>4. b \in BOOLEAN /\ (b <=> cell.note \/ e.note)
  BY DEF EvalRow, Cells
<1> HIDE DEF r, b
<1>5. Accumulated(cell, e) \in Cells
  BY <1>1, <1>2, <1>3, <1>4 DEF Cells
<1> QED
  BY <1>1, <1>3, <1>4, <1>5

Accumulates(cell, list, key) ==
    /\ cell \in [0..Len(list) -> Cells] /\ cell[0] = NoCell
    /\ \A n \in 1..Len(list) :
         cell[n] = IF KeyOf(list[n]) = key THEN Accumulated(cell[n - 1], list[n]) ELSE cell[n - 1]

LEMMA CellRuns ==
  ASSUME NEW list, EvalList(list), NEW key
  PROVE  \E cell : Accumulates(cell, list, key) /\ CellOf(list, key) = cell[Len(list)]
<1> DEFINE N == Len(list)
           A == Cells
           none == NoCell
           Merged(k, c) == IF KeyOf(list[k]) = key THEN Accumulated(c, list[k]) ELSE c
           step == [k \in 1..N |-> [c \in A |-> Merged(k, c)]]
           Levels(d) == [k \in 0..N |-> IF k = 0 THEN none ELSE Merged(k, d[k - 1])]
           cell == CHOOSE d : d = Levels(d)
<1>1. N \in Nat /\ DOMAIN list = 1..N
  BY LenProperties DEF EvalList
<1>2. none \in A
  BY RanksCompare DEF NoCell, Cells, RESULT_RANK
<1>3. \A k \in 1..N : \A c \in A : Merged(k, c) \in A
  BY <1>1, AccumulatedCell DEF EvalList
<1>4. CellOf(list, key) = cell[N]
  BY DEF CellOf
<1> HIDE DEF A, none, Merged, N
<1>5. step \in [1..N -> [A -> A]] /\ \A k \in 1..N : \A c \in A : step[k][c] = Merged(k, c)
  BY <1>3
<1> HIDE DEF step
<1>6. PICK f \in [0..N -> A] : f[0] = none /\ \A k \in 1..N : f[k] = step[k][f[k - 1]]
  <2>1. none \in A /\ step \in [1..N -> [A -> A]] /\ N \in Nat
    BY <1>1, <1>2, <1>5
  <2> QED
    BY <2>1, Iterated
<1>7. f = Levels(f)
  BY <1>1, <1>5, <1>6
<1>8. cell = Levels(cell)
  <2> HIDE DEF Levels
  <2> QED
    BY <1>7
<1> HIDE DEF cell
<1>9. cell[0] = none /\ \A k \in 1..N : cell[k] = Merged(k, cell[k - 1])
  BY <1>1, <1>8
<1>10. \A k \in 0..N : cell[k] \in A
  <2>1. \A k \in 1..N : cell[k - 1] \in A => cell[k] = step[k][cell[k - 1]]
    BY <1>5, <1>9
  <2> QED
    BY <1>1, <1>2, <1>5, <1>9, <2>1, LoopKeeps
<1>11. cell \in [0..N -> A]
  BY <1>8, <1>10
<1> QED
  BY <1>4, <1>9, <1>11 DEF A, none, Merged, N, Accumulates

\* What the cell of a key says of the first n evaluations.
SaysWorst(c, list, key, n) ==
    /\ c.count = 0 => \A i \in 1..n : KeyOf(list[i]) # key
    /\ c.count # 0 => \E i \in 1..n : KeyOf(list[i]) = key /\ list[i].result = c.result
    /\ \A i \in 1..n : KeyOf(list[i]) = key => RESULT_RANK[list[i].result] <= RESULT_RANK[c.result]
    /\ c.note <=> \E i \in 1..n : KeyOf(list[i]) = key /\ list[i].note

LEMMA WorstGoesOn ==
  ASSUME NEW list, EvalList(list), NEW key, NEW n \in 1..Len(list), NEW c \in Cells,
         SaysWorst(c, list, key, n - 1)
  PROVE  SaysWorst(IF KeyOf(list[n]) = key THEN Accumulated(c, list[n]) ELSE c, list, key, n)
<1>1. Len(list) \in Nat /\ DOMAIN list = 1..Len(list)
  BY LenProperties DEF EvalList
<1>2. \A i \in 1..n : i = n \/ i \in 1..(n - 1)
  BY <1>1
<1>3. n \in 1..n /\ \A i \in 1..(n - 1) : i \in 1..n /\ i \in 1..Len(list)
  BY <1>1
<1>4. CASE KeyOf(list[n]) # key
  BY <1>2, <1>3, <1>4 DEF SaysWorst
<1>5. CASE KeyOf(list[n]) = key
  <2> DEFINE e == list[n]
             d == Accumulated(c, e)
  <2>1. EvalRow(e)
    BY <1>1 DEF EvalList
  <2>2. /\ d \in Cells /\ d.count = c.count + 1 /\ (d.note <=> c.note \/ e.note)
        /\ RESULT_RANK[e.result] <= RESULT_RANK[d.result]
        /\ c.count # 0 => RESULT_RANK[c.result] <= RESULT_RANK[d.result]
        /\ d.result = e.result \/ (c.count # 0 /\ d.result = c.result)
    BY <2>1, AccumulatedCell
  <2>3. c.count \in Nat /\ RESULT_RANK[c.result] \in Nat /\ RESULT_RANK[d.result] \in Nat
    BY <2>2, RanksCompare DEF Cells
  <2>4. e = list[n]
    OBVIOUS
  <2> HIDE DEF d, e
  <2>5. d.count # 0
    BY <2>2, <2>3
  <2>6. \E i \in 1..n : KeyOf(list[i]) = key /\ list[i].result = d.result
    <3>1. CASE d.result = e.result
      BY <1>3, <1>5, <2>4, <3>1
    <3>2. CASE c.count # 0 /\ d.result = c.result
      BY <1>3, <3>2 DEF SaysWorst
    <3> QED
      BY <2>2, <3>1, <3>2
  <2>7. ASSUME NEW i \in 1..n, KeyOf(list[i]) = key
        PROVE  RESULT_RANK[list[i].result] <= RESULT_RANK[d.result]
    <3>1. CASE i = n
      BY <2>2, <2>4, <3>1
    <3>2. CASE i \in 1..(n - 1)
      <4>1. c.count # 0 /\ RESULT_RANK[list[i].result] <= RESULT_RANK[c.result]
        BY <2>7, <3>2 DEF SaysWorst
      <4>2. RESULT_RANK[list[i].result] \in Nat
        BY <1>1, <1>3, <3>2, RanksCompare DEF EvalList, EvalRow
      <4> QED
        BY <2>2, <2>3, <4>1, <4>2
    <3> QED
      BY <1>2, <3>1, <3>2
  <2>8. d.note <=> \E i \in 1..n : KeyOf(list[i]) = key /\ list[i].note
    <3>1. c.note <=> \E i \in 1..(n - 1) : KeyOf(list[i]) = key /\ list[i].note
      BY DEF SaysWorst
    <3> QED
      BY <1>2, <1>3, <1>5, <2>2, <2>4, <3>1
  <2>9. SaysWorst(d, list, key, n)
    BY <2>5, <2>6, <2>7, <2>8 DEF SaysWorst
  <2> QED
    BY <1>5, <2>9 DEF d, e
<1> QED
  BY <1>4, <1>5

LEMMA CellSaysWorst ==
  ASSUME NEW list, EvalList(list), NEW key
  PROVE  SaysWorst(CellOf(list, key), list, key, Len(list))
<1>1. PICK cell : Accumulates(cell, list, key) /\ CellOf(list, key) = cell[Len(list)]
  BY CellRuns
<1>2. Len(list) \in Nat
  BY LenProperties DEF EvalList
<1> DEFINE T == {n \in 0..Len(list) : SaysWorst(cell[n], list, key, n)}
<1>3. 0 \in T
  BY <1>1, <1>2 DEF Accumulates, SaysWorst, NoCell
<1>4. ASSUME NEW n \in 1..Len(list), n - 1 \in T PROVE n \in T
  <2>1. cell[n - 1] \in Cells /\ n \in 0..Len(list)
    BY <1>1, <1>2 DEF Accumulates
  <2>2. SaysWorst(cell[n - 1], list, key, n - 1)
    BY <1>4
  <2>3. cell[n] = IF KeyOf(list[n]) = key THEN Accumulated(cell[n - 1], list[n]) ELSE cell[n - 1]
    BY <1>1 DEF Accumulates
  <2>4. SaysWorst(cell[n], list, key, n)
    BY <2>1, <2>2, <2>3, WorstGoesOn
  <2> QED
    BY <2>1, <2>4
<1> HIDE DEF T
<1>5. \A n \in 0..Len(list) : n \in T
  BY <1>2, <1>3, <1>4, UpTo
<1>6. Len(list) \in T
  BY <1>2, <1>5
<1> QED
  BY <1>1, <1>6 DEF T

LEMMA CellsExplained ==
  ASSUME EvalList(evals)
  PROVE  CellsWorst
<1> DEFINE data == BuildData(evals)
           keys == {KeyOf(evals[i]) : i \in DOMAIN evals}
           mine(k) == {i \in DOMAIN evals : KeyOf(evals[i]) = k}
<1>1. DOMAIN evals = 1..Len(evals)
  BY LenProperties DEF EvalList
<1>2. DOMAIN data.cells = keys /\ \A k \in keys : data.cells[k] = CellOf(evals, k)
  BY DEF BuildData
<1>3. data.gaps = {at \in {k[1] : k \in keys} \X {k[2] : k \in keys} : \A k \in keys : <<k[1], k[2]>> # at}
  BY DEF BuildData
<1>4. \A i \in DOMAIN evals : KeyOf(evals[i]) \in keys /\ KeyOf(evals[i])[1] = evals[i].asset
                            /\ KeyOf(evals[i])[2] = evals[i].slot
  BY DEF KeyOf
<1> HIDE DEF data, keys
<1>5. ASSUME NEW k \in DOMAIN data.cells
      PROVE  /\ \A i \in mine(k) : RESULT_RANK[evals[i].result] <= RESULT_RANK[data.cells[k].result]
             /\ \E i \in mine(k) : evals[i].result = data.cells[k].result
             /\ data.cells[k].note <=> \E i \in mine(k) : evals[i].note
  <2>1. SaysWorst(data.cells[k], evals, k, Len(evals))
    BY <1>2, CellSaysWorst
  <2>2. \E i \in DOMAIN evals : KeyOf(evals[i]) = k
    BY <1>2 DEF keys
  <2> QED
    BY <1>1, <2>1, <2>2 DEF SaysWorst
<1>6. ASSUME NEW i \in DOMAIN evals, NEW j \in DOMAIN evals
      PROVE  \/ <<evals[i].asset, evals[j].slot>> \in data.gaps
             \/ \E k \in DOMAIN data.cells : <<k[1], k[2]>> = <<evals[i].asset, evals[j].slot>>
  <2> DEFINE at == <<evals[i].asset, evals[j].slot>>
  <2>1. evals[i].asset \in {k[1] : k \in keys}
    BY <1>4
  <2>2. evals[j].slot \in {k[2] : k \in keys}
    BY <1>4
  <2>3. at \in {k[1] : k \in keys} \X {k[2] : k \in keys}
    BY <2>1, <2>2
  <2> HIDE DEF at
  <2>4. at \in data.gaps \/ \E k \in keys : <<k[1], k[2]>> = at
    BY <1>3, <2>3
  <2> QED
    BY <1>2, <2>4 DEF at
<1>7. CellsWorst <=>
        /\ \A k \in DOMAIN data.cells :
              /\ \A i \in mine(k) : RESULT_RANK[evals[i].result] <= RESULT_RANK[data.cells[k].result]
              /\ \E i \in mine(k) : evals[i].result = data.cells[k].result
              /\ data.cells[k].note <=> \E i \in mine(k) : evals[i].note
        /\ \A i, j \in DOMAIN evals :
              \/ <<evals[i].asset, evals[j].slot>> \in data.gaps
              \/ \E k \in DOMAIN data.cells : <<k[1], k[2]>> = <<evals[i].asset, evals[j].slot>>
  BY DEF CellsWorst, data
<1> QED
  BY <1>5, <1>6, <1>7

LEMMA EvalsStart == Init => EvalList(evals)
<1> SUFFICES ASSUME Init PROVE EvalList(evals)
  OBVIOUS
<1>1. evals = << >> /\ << >> \in Seq({}) /\ DOMAIN << >> = {}
  BY DEF Init
<1>2. evals \in Seq({evals[i] : i \in DOMAIN evals})
  BY <1>1, SeqListed
<1> QED
  BY <1>1, <1>2 DEF EvalList

LEMMA EvalsStep == EvalList(evals) /\ scene \in Scenes /\ [Next]_vars => EvalList(evals)'
<1> SUFFICES ASSUME EvalList(evals), scene \in Scenes, [Next]_vars PROVE EvalList(evals)'
  OBVIOUS
<1>1. CASE evals' = evals
  BY <1>1
<1>2. ASSUME NEW e \in scene.evals, AddEvaluation(e) PROVE EvalList(evals)'
  <2>1. EvalRow(e)
    BY ScenesAssumption DEF EvalRow
  <2>2. evals' = Append(evals, e)
    BY <1>2 DEF AddEvaluation
  <2>3. /\ evals' \in Seq({evals'[i] : i \in DOMAIN evals'})
        /\ \A i \in DOMAIN evals : i \in DOMAIN evals' /\ evals'[i] = evals[i]
        /\ \A i \in DOMAIN evals' : i \in DOMAIN evals \/ evals'[i] = e
    BY <2>2, Appended DEF EvalList
  <2> QED
    BY <2>1, <2>3 DEF EvalList
<1>3. CASE LabelNext
  BY <1>1, <1>2, <1>3 DEF LabelNext, FetchTrend, Resize
<1>4. CASE SwitchNext \/ AxisNext
  BY <1>1, <1>4 DEF SwitchNext, AxisNext, ShowEvaluation, ClickTab, ToggleMaster, ToggleOwn, Reload,
     FetchTrend, ToggleLine, SetBound
<1> QED
  BY <1>1, <1>3, <1>4 DEF Next, vars, chartVars

\* Whatever evaluations fall into a cell, in whatever order, it has the worst result among
\* them and a note if one of them has, and no position of the grid is left out (buildData
\* of EvaluationHeatmap).
THEOREM CellsShowTheWorst == Spec => []CellsWorst
<1>1. scene \in Scenes /\ EvalList(evals) => CellsWorst
  BY CellsExplained
<1>2. Spec => []EvalList(evals)
  BY EvalsStart, EvalsStep, SceneKept, PTL DEF Spec
<1> QED
  BY <1>1, <1>2, SceneKept, PTL

-----------------------------------------------------------------------------
(* Notes as the pages know them.                                           *)

\* The cached list is in the order of creation.
SeenSound ==
    /\ seenNotes \in Seq({seenNotes[k] : k \in DOMAIN seenNotes})
    /\ \A k \in DOMAIN seenNotes : seenNotes[k].id \in Nat
    /\ \A j, k \in DOMAIN seenNotes : j < k => seenNotes[j].id < seenNotes[k].id

\* Texts have a width, in the table, in the cache and in the form, and so has the chart.
WidthsSound ==
    /\ \A i \in DOMAIN notes : notes[i].width \in Nat
    /\ \A k \in DOMAIN seenNotes : seenNotes[k].width \in Nat
    /\ section \in [run : {section.run}, form : [open : BOOLEAN, width : Nat, cat : {section.form.cat}],
                    hiding : {section.hiding}]
    /\ width \in Nat

\* What the API answers to the list of notes.
LEMMA ListNotesSound ==
  ASSUME SoundTables(categories, notes), NEW list, list = ListNotes
  PROVE  /\ list \in Seq({list[k] : k \in DOMAIN list})
         /\ \A k \in DOMAIN list : \E i \in DOMAIN notes : list[k].id = i /\ list[k].width = notes[i].width
         /\ \A k \in DOMAIN list : list[k].id \in Nat
         /\ \A j, k \in DOMAIN list : j < k => list[j].id < list[k].id
<1> DEFINE S == {i \in DOMAIN notes : ~notes[i].hidden}
           ids == InOrder(S, Len(notes))
<1>1. Len(notes) \in Nat /\ DOMAIN notes = 1..Len(notes)
  BY LenProperties DEF SoundTables
<1>2. list = [k \in DOMAIN ids |-> AnnotationRead(ids[k])]
  BY DEF ListNotes
<1>3. S \subseteq DOMAIN notes
  OBVIOUS
<1>4. ids = InOrder(S, Len(notes))
  OBVIOUS
<1> HIDE DEF ids, S
<1>5. /\ ids \in Seq(Int) /\ Len(ids) \in Nat /\ DOMAIN ids = 1..Len(ids)
      /\ \A i \in DOMAIN ids : ids[i] \in 1..Len(notes)
      /\ \A i, j \in DOMAIN ids : i < j => ids[i] < ids[j]
  BY <1>1, <1>4, InOrderLists
<1>6. DOMAIN list = DOMAIN ids /\ \A k \in DOMAIN list : list[k] = AnnotationRead(ids[k])
  BY <1>2
<1>7. \A k \in DOMAIN list : list[k].id = ids[k] /\ list[k].width = notes[ids[k]].width
  BY <1>6 DEF AnnotationRead
<1>8. list \in Seq({list[k] : k \in DOMAIN list})
  <2>1. ids \in Seq({ids[k] : k \in DOMAIN ids})
    BY <1>5, SeqListed
  <2>2. list = [k \in DOMAIN list |-> list[k]]
    BY <1>2
  <2> QED
    BY <1>6, <2>1, <2>2, MappedListed
<1>9. \A k \in DOMAIN list : \E i \in DOMAIN notes : list[k].id = i /\ list[k].width = notes[i].width
  BY <1>1, <1>5, <1>6, <1>7
<1>10. \A k \in DOMAIN list : list[k].id \in Nat
  BY <1>1, <1>5, <1>6, <1>7
<1>11. \A j, k \in DOMAIN list : j < k => list[j].id < list[k].id
  BY <1>5, <1>6, <1>7
<1> QED
  BY <1>8, <1>9, <1>10, <1>11

LEMMA SeenStart == Init => SeenSound
<1> SUFFICES ASSUME Init PROVE SeenSound
  OBVIOUS
<1>1. SoundTables(categories, notes)
  BY NotesStart DEF NotesInv
<1>2. seenNotes = ListNotes
  BY DEF Init
<1> QED
  BY <1>1, <1>2, ListNotesSound DEF SeenSound

LEMMA FetchNotesKeeps ==
  ASSUME NotesInv, FetchNotes
  PROVE  SeenSound'
<1>1. SoundTables(categories, notes) /\ seenNotes' = ListNotes
  BY DEF NotesInv, FetchNotes
<1> QED
  BY <1>1, ListNotesSound DEF SeenSound

LEMMA SeenStep == SeenSound /\ NotesInv /\ [Next]_vars => SeenSound'
<1> SUFFICES ASSUME SeenSound, NotesInv, [Next]_vars PROVE SeenSound'
  OBVIOUS
<1>1. CASE UNCHANGED seenNotes
  BY <1>1 DEF SeenSound
<1>2. CASE NoteNext
  <2>1. CASE FetchNotes
    BY <2>1, FetchNotesKeeps
  <2>2. CASE ~FetchNotes
    <3>1. UNCHANGED seenNotes
      BY <1>2, <2>2 DEF NoteNext, FetchCategories, ToggleForm, EndDelete, ShowRun, TypeNote, ReEvaluationNote,
         SaveNote, AskHide, ConfirmHide
    <3> QED
      BY <1>1, <3>1
  <2> QED
    BY <2>1, <2>2
<1>3. CASE CategoryNext
  <2>1. UNCHANGED seenNotes
    BY <1>3 DEF CategoryNext, AddCategory, SubmitEdit, CancelCategory, PickCategory, BeginDelete, ToggleShow,
       EditCategory, SubmitCreate, UpdateNote, EnterFields
  <2> QED
    BY <1>1, <2>1
<1> QED
  BY <1>1, <1>2, <1>3 DEF Next, vars, noteVars

LEMMA SeenInvariant == Spec => []SeenSound
BY SeenStart, SeenStep, NotesInvariant, PTL DEF Spec

\* A group is begun by the first of its notes.
LEMMA GroupBegun ==
  ASSUME SeenSound, NEW k \in DOMAIN seenNotes
  PROVE  \E h \in DOMAIN seenNotes : SameGroup(h, k) /\ ~GroupSeen(h)
<1>1. Len(seenNotes) \in Nat /\ DOMAIN seenNotes = 1..Len(seenNotes)
  BY LenProperties DEF SeenSound
<1> DEFINE S == {j \in 1..k : SameGroup(j, k)}
           h == Min(S)
<1>2. S \in SUBSET Int /\ S # {} /\ IsFiniteSet(S)
  <2>1. IsFiniteSet(1..k)
    BY <1>1, FS_Interval
  <2>2. k \in S
    BY <1>1 DEF SameGroup
  <2>3. S \subseteq 1..k
    OBVIOUS
  <2> QED
    BY <1>1, <2>1, <2>2, <2>3, FS_Subset
<1>3. h \in S /\ \A j \in S : h <= j
  <2> HIDE DEF S
  <2> QED
    BY <1>2, FiniteMin
<1> HIDE DEF h
<1>4. h \in DOMAIN seenNotes /\ SameGroup(h, k)
  BY <1>1, <1>3
<1>5. ASSUME NEW j \in 1..h - 1, SameGroup(j, h) PROVE FALSE
  <2>1. SameGroup(j, k)
    BY <1>4, <1>5 DEF SameGroup
  <2>2. j \in S /\ j < h
    BY <1>1, <1>3, <2>1
  <2> QED
    BY <1>1, <1>3, <2>2
<1> QED
  BY <1>4, <1>5 DEF GroupSeen

MineOf(run) == {k \in DOMAIN seenNotes : seenNotes[k].run = run}
MembersOf(run, k) == IF seenNotes[k].group = NULL THEN {k} ELSE {j \in MineOf(run) : SameGroup(j, k)}
HeadsOf(run) == {k \in MineOf(run) : seenNotes[k].group = NULL \/ ~GroupSeen(k)}

\* An entry begins with its head, and a note is in the entry of one head.
LEMMA EntriesApart ==
  ASSUME SeenSound, NEW run
  PROVE  /\ \A h \in HeadsOf(run) : /\ h \in MembersOf(run, h) /\ MembersOf(run, h) \subseteq MineOf(run)
                                    /\ \A j \in MembersOf(run, h) : h <= j
         /\ \A k \in MineOf(run) : \E h \in HeadsOf(run) : k \in MembersOf(run, h)
         /\ \A g, h \in HeadsOf(run) : MembersOf(run, g) \cap MembersOf(run, h) # {} => g = h
         /\ \A g, h \in HeadsOf(run) :
              seenNotes[g].group # NULL /\ seenNotes[g].group = seenNotes[h].group => g = h
<1> USE DEF MineOf, MembersOf, HeadsOf
<1>1. Len(seenNotes) \in Nat /\ DOMAIN seenNotes = 1..Len(seenNotes)
  BY LenProperties DEF SeenSound
<1>2. \A k \in MineOf(run) : k \in Int /\ k >= 1 /\ k \in DOMAIN seenNotes
  BY <1>1
<1>3. \A g, h \in MineOf(run) : g <= h \/ h <= g
  BY <1>2
<1>4. ASSUME NEW h \in MineOf(run), ~GroupSeen(h), NEW j \in MineOf(run), SameGroup(j, h) PROVE h <= j
  <2>1. CASE j < h
    <3>1. j \in 1..h - 1
      BY <1>2, <2>1
    <3> QED
      BY <1>4, <3>1 DEF GroupSeen
  <2> QED
    BY <1>2, <2>1
<1>5. ASSUME NEW g \in HeadsOf(run), NEW h \in HeadsOf(run), seenNotes[g].group # NULL, SameGroup(g, h) PROVE g = h
  <2>1. seenNotes[h].group # NULL /\ SameGroup(h, g)
    BY <1>5 DEF SameGroup
  <2>2. g \in MineOf(run) /\ h \in MineOf(run) /\ ~GroupSeen(g) /\ ~GroupSeen(h)
    BY <1>5, <2>1
  <2>3. g <= h /\ h <= g
    BY <1>4, <1>5, <2>1, <2>2
  <2> QED
    BY <1>2, <2>2, <2>3
<1>6. ASSUME NEW h \in HeadsOf(run)
      PROVE  h \in MembersOf(run, h) /\ MembersOf(run, h) \subseteq MineOf(run) /\ \A j \in MembersOf(run, h) : h <= j
  <2>1. h \in MineOf(run) /\ h \in Int
    BY <1>2
  <2>2. CASE seenNotes[h].group = NULL
    <3>1. MembersOf(run, h) = {h}
      BY <2>1, <2>2
    <3> QED
      BY <2>1, <3>1
  <2>3. CASE seenNotes[h].group # NULL
    <3>1. MembersOf(run, h) = {j \in MineOf(run) : SameGroup(j, h)} /\ ~GroupSeen(h)
      BY <2>1, <2>3
    <3>2. SameGroup(h, h)
      BY DEF SameGroup
    <3> QED
      BY <1>4, <2>1, <3>1, <3>2
  <2> QED
    BY <2>2, <2>3
<1>7. ASSUME NEW k \in MineOf(run) PROVE \E h \in HeadsOf(run) : k \in MembersOf(run, h)
  <2>1. CASE seenNotes[k].group = NULL
    BY <2>1
  <2>2. CASE seenNotes[k].group # NULL
    <3>1. PICK h \in DOMAIN seenNotes : SameGroup(h, k) /\ ~GroupSeen(h)
      BY <1>2, GroupBegun
    <3>2. h \in MineOf(run) /\ seenNotes[h].group # NULL /\ SameGroup(k, h)
      BY <2>2, <3>1 DEF SameGroup
    <3>3. h \in HeadsOf(run) /\ k \in MembersOf(run, h)
      BY <3>1, <3>2
    <3> QED
      BY <3>3
  <2> QED
    BY <2>1, <2>2
<1>8. ASSUME NEW g \in HeadsOf(run), NEW h \in HeadsOf(run), NEW j, j \in MembersOf(run, g), j \in MembersOf(run, h) PROVE g = h
  <2>1. seenNotes[g].group = NULL => j = g
    BY <1>8
  <2>2. seenNotes[h].group = NULL => j = h
    BY <1>8
  <2>3. seenNotes[g].group # NULL => SameGroup(j, g)
    BY <1>8
  <2>4. seenNotes[h].group # NULL => SameGroup(j, h)
    BY <1>8
  <2>5. CASE seenNotes[j].group = NULL
    BY <2>1, <2>2, <2>3, <2>4, <2>5 DEF SameGroup
  <2>6. CASE seenNotes[j].group # NULL
    <3>1. seenNotes[g].group # NULL /\ seenNotes[h].group # NULL
      BY <2>1, <2>2, <2>6
    <3>2. SameGroup(g, h)
      BY <2>3, <2>4, <3>1 DEF SameGroup
    <3> QED
      BY <1>5, <3>1, <3>2
  <2> QED
    BY <2>5, <2>6
<1>9. ASSUME NEW g \in HeadsOf(run), NEW h \in HeadsOf(run), seenNotes[g].group # NULL, seenNotes[g].group = seenNotes[h].group
      PROVE  g = h
  <2>1. SameGroup(g, h)
    BY <1>9 DEF SameGroup
  <2> QED
    BY <1>5, <1>9, <2>1
<1>10. \A g, h \in HeadsOf(run) : MembersOf(run, g) \cap MembersOf(run, h) # {} => g = h
  <2>1. \A g, h \in HeadsOf(run) : \A j : j \in MembersOf(run, g) /\ j \in MembersOf(run, h) => g = h
    BY <1>8
  <2> QED
    BY <2>1
<1> QED
  BY <1>6, <1>7, <1>9, <1>10

\* The section lists the notes entry by entry, each entry from its head on.
LEMMA EntriesListed ==
  ASSUME SeenSound
  PROVE  NotesListedOnce
<1> DEFINE N == Len(seenNotes)
           run == section.run
           mine == MineOf(run)
           Members(k) == MembersOf(run, k)
           heads == HeadsOf(run)
           H == InOrder(heads, N)
           M(k) == InOrder(Members(k), N)
           list == NoteList(run)
<1>1. N \in Nat /\ DOMAIN seenNotes = 1..N
  BY LenProperties DEF SeenSound
<1>2. list = [e \in DOMAIN H |-> [x \in DOMAIN M(H[e]) |-> seenNotes[M(H[e])[x]]]]
  BY DEF NoteList, MineOf, MembersOf, HeadsOf
<1>3. mine \subseteq 1..N /\ heads \subseteq mine /\ H = InOrder(heads, N)
  BY <1>1 DEF MineOf, HeadsOf
<1>4. /\ \A h \in heads : h \in Members(h) /\ Members(h) \subseteq mine /\ \A j \in Members(h) : h <= j
      /\ \A k \in mine : \E h \in heads : k \in Members(h)
      /\ \A g, h \in heads : Members(g) \cap Members(h) # {} => g = h
      /\ \A g, h \in heads : seenNotes[g].group # NULL /\ seenNotes[g].group = seenNotes[h].group => g = h
  BY EntriesApart
<1>5. \A h \in heads : M(h) = InOrder(Members(h), N)
  OBVIOUS
<1>6. mine = {k \in DOMAIN seenNotes : seenNotes[k].run = section.run} /\ list = NoteList(section.run)
  BY DEF MineOf
<1> HIDE DEF N, mine, Members, heads, H, list
<1>7. /\ DOMAIN H = 1..Len(H) /\ Len(H) \in Nat
      /\ \A e \in DOMAIN H : H[e] \in heads
      /\ \A e, f \in DOMAIN H : e < f => H[e] < H[f]
      /\ \A h \in heads : \E e \in DOMAIN H : H[e] = h
  <2>1. heads \subseteq 1..N
    BY <1>3
  <2> QED
    BY <1>1, <1>3, <2>1, InOrderLists
<1>8. ASSUME NEW h \in heads
      PROVE  /\ DOMAIN M(h) = 1..Len(M(h)) /\ Len(M(h)) \in Nat
             /\ \A x \in DOMAIN M(h) : M(h)[x] \in Members(h) /\ M(h)[x] \in mine
             /\ \A x, y \in DOMAIN M(h) : x < y => M(h)[x] < M(h)[y]
             /\ \A j \in Members(h) : \E x \in DOMAIN M(h) : M(h)[x] = j
  <2> DEFINE r == M(h)
             S == Members(h)
  <2>1. S \subseteq mine /\ S \subseteq 1..N /\ r = InOrder(S, N)
    BY <1>3, <1>4, <1>5
  <2> HIDE DEF r, S, M
  <2>2. /\ DOMAIN r = 1..Len(r) /\ Len(r) \in Nat
        /\ \A x \in DOMAIN r : r[x] \in S
        /\ \A x, y \in DOMAIN r : x < y => r[x] < r[y]
        /\ \A j \in 1..N : j \in S => \E x \in DOMAIN r : r[x] = j
    BY <1>1, <2>1, InOrderLists
  <2>3. \A x \in DOMAIN r : r[x] \in mine
    BY <2>1, <2>2
  <2>4. \A j \in S : \E x \in DOMAIN r : r[x] = j
    BY <2>1, <2>2
  <2> QED
    BY <2>2, <2>3, <2>4 DEF r, S
<1>9. \A e \in DOMAIN H : \A x \in DOMAIN M(H[e]) : list[e][x] = seenNotes[M(H[e])[x]]
  BY <1>2
<1>10. DOMAIN list = DOMAIN H /\ \A e \in DOMAIN H : DOMAIN list[e] = DOMAIN M(H[e])
  BY <1>2
<1>11. /\ \A k \in mine : k \in Int /\ k \in DOMAIN seenNotes
       /\ \A h \in heads : h \in Int /\ h \in DOMAIN seenNotes
  <2>1. mine \subseteq 1..N /\ 1..N \subseteq Int
    BY <1>3
  <2> QED
    BY <1>1, <1>3, <2>1
<1>12. \A h \in heads : 1 \in DOMAIN M(h) /\ M(h)[1] = h
  <2> SUFFICES ASSUME NEW h \in heads PROVE 1 \in DOMAIN M(h) /\ M(h)[1] = h
    OBVIOUS
  <2> DEFINE r == M(h)
  <2>1. /\ DOMAIN r = 1..Len(r) /\ Len(r) \in Nat
        /\ \A x \in DOMAIN r : r[x] \in Members(h) /\ r[x] \in mine
        /\ \A x, y \in DOMAIN r : x < y => r[x] < r[y]
        /\ \A j \in Members(h) : \E x \in DOMAIN r : r[x] = j
    BY <1>8
  <2>2. h \in Members(h) /\ \A j \in Members(h) : h <= j
    BY <1>4
  <2> HIDE DEF r, M
  <2>3. PICK x \in DOMAIN r : r[x] = h
    BY <2>1, <2>2
  <2>4. 1 \in DOMAIN r /\ 1 <= x
    BY <2>1
  <2>5. h <= r[1] /\ r[1] \in Int /\ h \in Int
    BY <1>11, <2>1, <2>2, <2>4
  <2>6. r[1] = h
    <3>1. CASE x = 1
      BY <2>3, <3>1
    <3>2. CASE 1 < x
      <4>1. r[1] < r[x]
        BY <2>1, <2>4, <3>2
      <4> QED
        BY <2>3, <2>5, <4>1
    <3> QED
      BY <2>1, <2>4, <3>1, <3>2
  <2> QED
    BY <2>4, <2>6 DEF r
<1> HIDE DEF M
<1>13. \A k \in mine : \E e \in DOMAIN list : \E x \in DOMAIN list[e] : list[e][x] = seenNotes[k]
  <2> SUFFICES ASSUME NEW k \in mine
               PROVE  \E e \in DOMAIN list : \E x \in DOMAIN list[e] : list[e][x] = seenNotes[k]
    OBVIOUS
  <2>1. PICK h \in heads : k \in Members(h)
    BY <1>4
  <2>2. PICK e \in DOMAIN H : H[e] = h
    BY <1>7
  <2>3. PICK x \in DOMAIN M(h) : M(h)[x] = k
    BY <1>8, <2>1
  <2> QED
    BY <1>9, <1>10, <2>2, <2>3
<1>14. \A e \in DOMAIN list : \A x \in DOMAIN list[e] : \E k \in mine : list[e][x] = seenNotes[k]
  BY <1>7, <1>8, <1>9, <1>10
<1>15. \A e, f \in DOMAIN list : \A x \in DOMAIN list[e], y \in DOMAIN list[f] :
          list[e][x].id = list[f][y].id => e = f /\ x = y
  <2> SUFFICES ASSUME NEW e \in DOMAIN list, NEW f \in DOMAIN list, NEW x \in DOMAIN list[e], NEW y \in DOMAIN list[f],
                      list[e][x].id = list[f][y].id
               PROVE  e = f /\ x = y
    OBVIOUS
  <2> DEFINE i == M(H[e])[x]
             j == M(H[f])[y]
  <2>1. H[e] \in heads /\ H[f] \in heads /\ x \in DOMAIN M(H[e]) /\ y \in DOMAIN M(H[f])
    BY <1>7, <1>10
  <2>2. i \in Members(H[e]) /\ j \in Members(H[f]) /\ i \in mine /\ j \in mine
    BY <1>8, <2>1
  <2>3. seenNotes[i].id = seenNotes[j].id
    BY <1>9, <1>10, <2>1
  <2>4. i \in DOMAIN seenNotes /\ j \in DOMAIN seenNotes /\ i \in Int /\ j \in Int
    BY <1>11, <2>2
  <2>5. i = j
    <3> HIDE DEF i, j
    <3>1. ~(i < j) /\ ~(j < i)
      BY <2>3, <2>4 DEF SeenSound
    <3> QED
      BY <2>4, <3>1
  <2>6. H[e] = H[f]
    <3> HIDE DEF i, j
    <3>1. Members(H[e]) \cap Members(H[f]) # {}
      BY <2>2, <2>5
    <3> QED
      BY <1>4, <2>1, <3>1
  <2>7. e = f
    <3>1. e \in DOMAIN H /\ f \in DOMAIN H /\ e \in Int /\ f \in Int /\ H[e] \in Int /\ H[f] \in Int
      BY <1>7, <1>10, <1>11, <2>1
    <3>2. ~(e < f) /\ ~(f < e)
      BY <1>7, <2>6, <3>1
    <3> QED
      BY <3>1, <3>2
  <2>8. x = y
    <3> DEFINE r == M(H[e])
    <3>1. x \in DOMAIN r /\ y \in DOMAIN r /\ r[x] = r[y]
      BY <2>1, <2>5, <2>6
    <3>2. /\ DOMAIN r = 1..Len(r)
          /\ \A u, v \in DOMAIN r : u < v => r[u] < r[v]
      BY <1>8, <2>1
    <3>3. r[x] \in Int /\ r[y] \in Int
      BY <2>4, <3>1
    <3> HIDE DEF r
    <3>4. ~(x < y) /\ ~(y < x)
      BY <3>1, <3>2, <3>3
    <3> QED
      BY <3>1, <3>2, <3>4
  <2> QED
    BY <2>7, <2>8
<1>16. \A e \in DOMAIN list : list[e][1] = seenNotes[H[e]] /\ H[e] \in heads /\ H[e] \in DOMAIN seenNotes
  BY <1>7, <1>9, <1>10, <1>12, <1>11
<1>17. \A e, f \in DOMAIN list : e < f => list[e][1].id < list[f][1].id
  BY <1>7, <1>10, <1>16 DEF SeenSound
<1>18. \A e, f \in DOMAIN list :
          list[e][1].group # NULL /\ list[e][1].group = list[f][1].group => e = f
  <2> SUFFICES ASSUME NEW e \in DOMAIN list, NEW f \in DOMAIN list,
                      list[e][1].group # NULL, list[e][1].group = list[f][1].group
               PROVE  e = f
    OBVIOUS
  <2>1. H[e] = H[f]
    BY <1>4, <1>16
  <2>2. e \in DOMAIN H /\ f \in DOMAIN H /\ e \in Int /\ f \in Int /\ H[e] \in Int /\ H[f] \in Int
    BY <1>7, <1>10, <1>16, <1>11
  <2>3. ~(e < f) /\ ~(f < e)
    BY <1>7, <2>1, <2>2
  <2> QED
    BY <2>2, <2>3
<1> QED
  BY <1>6, <1>13, <1>14, <1>15, <1>17, <1>18 DEF NotesListedOnce

\* However notes are written, hidden and fetched, the section shows each note of its run
\* that the cache has once, those of a re-evaluation in one entry, in the order in which
\* the entries were begun (the grouping of AnnotationSection).
THEOREM NotesAreListedOnce == Spec => []NotesListedOnce
<1>1. SeenSound => NotesListedOnce
  BY EntriesListed
<1> QED
  BY <1>1, SeenInvariant, PTL

LEMMA WidthsStart == Init => WidthsSound
<1> SUFFICES ASSUME Init PROVE WidthsSound
  OBVIOUS
<1>1. SoundTables(categories, notes) /\ seenNotes = ListNotes
  BY NotesStart DEF NotesInv, Init
<1>2. \A i \in DOMAIN notes : notes[i].width \in Nat
  BY ScenesAssumption DEF Init
<1>3. \A k \in DOMAIN seenNotes : seenNotes[k].width \in Nat
  BY <1>1, <1>2, ListNotesSound
<1>4. section = [run |-> 1, form |-> NoForm, hiding |-> {}] /\ width = 0
  BY DEF Init
<1> QED
  BY <1>2, <1>3, <1>4 DEF WidthsSound, NoForm

\* What the notes section has typed and asked is kept in its form.
SectionSound(s) ==
    s \in [run : {s.run}, form : [open : BOOLEAN, width : Nat, cat : {s.form.cat}], hiding : {s.hiding}]

LEMMA SectionStep ==
  ASSUME WidthsSound, NotesInv, scene \in Scenes, NoteNext \/ CategoryNext
  PROVE  SectionSound(section')
<1>1. SectionSound(section)
  BY DEF WidthsSound, SectionSound
<1>2. CASE UNCHANGED section
  BY <1>1, <1>2
<1>3. CASE FetchNotes
  <2>1. section' = [section EXCEPT !.hiding = KeptHiding(section.run, seenNotes')]
    BY <1>3 DEF FetchNotes
  <2> QED
    BY <1>1, <2>1 DEF SectionSound
<1>4. ASSUME NEW run, NEW b, ShowRun(run, b) PROVE SectionSound(section')
  BY <1>1, <1>4 DEF SectionSound, ShowRun, NoForm
<1>5. CASE ToggleForm
  BY <1>1, <1>5 DEF SectionSound, ToggleForm, NoForm
<1>6. ASSUME NEW w \in scene.pills, TypeNote(w) PROVE SectionSound(section')
  <2>1. w \in Nat
    BY ScenesAssumption
  <2> QED
    BY <1>1, <1>6, <2>1 DEF SectionSound, TypeNote
<1>7. ASSUME NEW c, PickCategory(c) PROVE SectionSound(section')
  BY <1>1, <1>7 DEF SectionSound, PickCategory
<1>8. ASSUME NEW lost, SaveNote(lost) PROVE SectionSound(section')
  <2>1. UNCHANGED section \/ section' = [section EXCEPT !.form = NoForm]
    BY <1>8 DEF SaveNote
  <2>2. CASE section' = [section EXCEPT !.form = NoForm]
    BY <1>1, <2>2 DEF SectionSound, NoForm
  <2> QED
    BY <1>2, <2>1, <2>2
<1>9. ASSUME NEW k, AskHide(k) PROVE SectionSound(section')
  BY <1>1, <1>9 DEF SectionSound, AskHide
<1>10. ASSUME NEW id, ConfirmHide(id) PROVE SectionSound(section')
  BY <1>1, <1>10 DEF SectionSound, ConfirmHide
<1>11. CASE NoteNext
  <2>1. CASE FetchCategories \/ EndDelete \/ \E run, w : ReEvaluationNote(run, "g", w)
    BY <1>2, <2>1 DEF FetchCategories, EndDelete, ReEvaluationNote
  <2> QED
    BY <1>3, <1>4, <1>5, <1>6, <1>8, <1>9, <1>10, <1>11, <2>1 DEF NoteNext
<1>12. CASE CategoryNext
  <2>1. UNCHANGED section \/ \E c \in CatIds : PickCategory(c)
    BY <1>12 DEF CategoryNext, AddCategory, SubmitEdit, CancelCategory, BeginDelete, ToggleShow,
       EditCategory, SubmitCreate, UpdateNote, EnterFields
  <2> QED
    BY <1>2, <1>7, <2>1
<1> QED
  BY <1>11, <1>12

\* The table: a note that is added has the width of its text, others keep theirs.
LEMMA NoteWidthsStep ==
  ASSUME WidthsSound, NotesInv, scene \in Scenes, NoteNext \/ CategoryNext
  PROVE  \A i \in DOMAIN notes' : notes'[i].width \in Nat
<1> DEFINE Wide(list) == \A i \in DOMAIN list : list[i].width \in Nat
<1>1. Wide(notes) /\ \A i \in DOMAIN notes : NoteRow(notes[i])
  BY DEF WidthsSound, NotesInv, SoundTables
<1>2. CASE UNCHANGED notes
  BY <1>1, <1>2
<1>3. ASSUME NEW note, note.width \in Nat, notes' = Append(notes, note) PROVE Wide(notes')
  <2>1. \A i \in DOMAIN notes' : (i \in DOMAIN notes /\ notes'[i] = notes[i]) \/ notes'[i] = note
    BY <1>3, Appended DEF NotesInv, SoundTables
  <2> QED
    BY <1>1, <1>3, <2>1
<1>4. CASE EndDelete
  <2>1. CASE UNCHANGED notes
    BY <1>2, <2>1
  <2>2. CASE notes' = [i \in DOMAIN notes |->
                         IF i \in deleting.moved THEN [notes[i] EXCEPT !.cat = deleting.info] ELSE notes[i]]
    BY <1>1, <2>2 DEF NoteRow
  <2> QED
    BY <1>4, <2>1, <2>2 DEF EndDelete
<1>5. ASSUME NEW i, NEW c, UpdateNote(i, c) PROVE Wide(notes')
  BY <1>1, <1>5 DEF UpdateNote, NoteRow
<1>6. ASSUME NEW id, ConfirmHide(id) PROVE Wide(notes')
  BY <1>1, <1>6 DEF ConfirmHide, NoteRow
<1>7. ASSUME NEW lost, SaveNote(lost) PROVE Wide(notes')
  <2> DEFINE note == [run |-> section.run, cat |-> EffectiveId, group |-> NULL, hidden |-> FALSE,
                      width |-> section.form.width]
  <2>1. UNCHANGED notes \/ notes' = Append(notes, note)
    BY <1>7 DEF SaveNote
  <2>2. note.width \in Nat
    BY DEF WidthsSound
  <2>3. CASE UNCHANGED notes
    BY <1>2, <2>3
  <2> HIDE DEF note, Wide
  <2>4. CASE notes' = Append(notes, note)
    BY <1>3, <2>2, <2>4
  <2> QED
    BY <2>1, <2>3, <2>4
<1>8. ASSUME NEW run, NEW w \in scene.pills, ReEvaluationNote(run, "g", w) PROVE Wide(notes')
  <2> DEFINE note == [run |-> run, cat |-> IdOf(REEVAL), group |-> "g", hidden |-> FALSE, width |-> w]
  <2>1. notes' = Append(notes, note)
    BY <1>8 DEF ReEvaluationNote
  <2>2. note.width \in Nat
    BY ScenesAssumption
  <2> HIDE DEF note, Wide
  <2> QED
    BY <1>3, <2>1, <2>2
<1> HIDE DEF Wide
<1>9. CASE NoteNext
  <2>1. UNCHANGED notes \/ EndDelete \/ (\E id : ConfirmHide(id)) \/ (\E lost : SaveNote(lost))
        \/ (\E w \in scene.pills : \E run : ReEvaluationNote(run, "g", w))
    BY <1>9 DEF NoteNext, FetchNotes, FetchCategories, ToggleForm, ShowRun, TypeNote, AskHide, tableVars
  <2> QED
    BY <1>2, <1>4, <1>6, <1>7, <1>8, <2>1 DEF Wide
<1>10. CASE CategoryNext
  <2>1. UNCHANGED notes \/ \E i, c : UpdateNote(i, c)
    BY <1>10 DEF CategoryNext, AddCategory, SubmitEdit, CancelCategory, PickCategory, BeginDelete, ToggleShow,
       EditCategory, SubmitCreate, EnterFields, tableVars
  <2> QED
    BY <1>2, <1>5, <2>1 DEF Wide
<1> QED
  BY <1>9, <1>10 DEF Wide

LEMMA WidthsStep == WidthsSound /\ NotesInv /\ scene \in Scenes /\ [Next]_vars => WidthsSound'
<1> SUFFICES ASSUME WidthsSound, NotesInv, scene \in Scenes, [Next]_vars PROVE WidthsSound'
  OBVIOUS
<1>1. \A k \in DOMAIN seenNotes' : seenNotes'[k].width \in Nat
  <2>1. CASE FetchNotes
    <3>1. SoundTables(categories, notes) /\ seenNotes' = ListNotes
      BY <2>1 DEF NotesInv, FetchNotes
    <3>2. \A k \in DOMAIN seenNotes' : \E i \in DOMAIN notes : seenNotes'[k].width = notes[i].width
      BY <3>1, ListNotesSound
    <3> QED
      BY <3>2 DEF WidthsSound
  <2>2. CASE UNCHANGED seenNotes
    BY <2>2 DEF WidthsSound
  <2>3. CASE NoteNext
    BY <2>1, <2>2, <2>3 DEF NoteNext, FetchCategories, ToggleForm, EndDelete, ShowRun, TypeNote,
       ReEvaluationNote, SaveNote, AskHide, ConfirmHide
  <2>4. CASE CategoryNext
    BY <2>2, <2>4 DEF CategoryNext, AddCategory, SubmitEdit, CancelCategory, PickCategory, BeginDelete,
       ToggleShow, EditCategory, SubmitCreate, UpdateNote, EnterFields
  <2> QED
    BY <2>2, <2>3, <2>4 DEF Next, vars, noteVars
<1>2. width' \in Nat
  <2>1. width \in Nat /\ scene.widths \subseteq Nat
    BY ScenesAssumption DEF WidthsSound
  <2>2. CASE UNCHANGED width
    BY <2>1, <2>2
  <2>3. CASE LabelNext
    BY <2>1, <2>3 DEF LabelNext, Resize, FetchTrend, AddEvaluation
  <2>4. CASE SwitchNext \/ AxisNext
    BY <2>2, <2>4 DEF SwitchNext, AxisNext, ShowEvaluation, ClickTab, ToggleMaster, ToggleOwn, Reload,
       FetchTrend, ToggleLine, SetBound
  <2> QED
    BY <2>2, <2>3, <2>4 DEF Next, vars, chartVars
<1>3. CASE NoteNext \/ CategoryNext
  BY <1>1, <1>2, <1>3, SectionStep, NoteWidthsStep DEF WidthsSound, SectionSound
<1>4. CASE UNCHANGED noteVars
  BY <1>1, <1>2, <1>4 DEF WidthsSound, noteVars, tableVars
<1> QED
  BY <1>3, <1>4 DEF Next, vars

LEMMA WidthsInvariant == Spec => []WidthsSound
BY WidthsStart, WidthsStep, NotesInvariant, SceneKept, PTL DEF Spec

-----------------------------------------------------------------------------
(* Pills of notes.                                                         *)

\* A number that is kept between two bounds.
LEMMA ClampedBetween ==
  ASSUME NEW x \in Int, NEW lo \in Int, NEW hi \in Int, lo <= hi
  PROVE  Clamped(x, lo, hi) \in Int /\ lo <= Clamped(x, lo, hi) /\ Clamped(x, lo, hi) <= hi
<1> DEFINE a == Max({x, lo})
<1>1. a \in Int /\ a >= lo
  BY MaxOfTwo
<1> HIDE DEF a
<1>2. \E m \in {a, hi} : \A y \in {a, hi} : m <= y
  <2>1. a <= hi \/ hi <= a
    BY <1>1
  <2> QED
    BY <1>1, <2>1
<1>3. Min({a, hi}) \in {a, hi} /\ Min({a, hi}) <= a /\ Min({a, hi}) <= hi
  BY <1>2 DEF Min
<1>4. Clamped(x, lo, hi) = Min({a, hi})
  BY DEF Clamped, a
<1> QED
  BY <1>1, <1>3, <1>4

LEMMA PixelsWhole ==
  ASSUME NEW i \in Int, NEW n \in Nat, NEW px \in Int
  PROVE  PixelXForIndex(i, n, px) \in Int
<1>1. CASE n <= 1
  BY <1>1 DEF PixelXForIndex, GRID_LEFT
<1>2. CASE n > 1
  <2> DEFINE across == 2 * (i - 1) * (px - GRID_LEFT - GRID_RIGHT)
  <2>1. across \in Int /\ n - 1 \in Int /\ n - 1 > 0
    BY <1>2 DEF GRID_LEFT, GRID_RIGHT
  <2>2. PixelXForIndex(i, n, px) = 2 * GRID_LEFT + across \div (n - 1)
    BY <1>2 DEF PixelXForIndex
  <2> HIDE DEF across
  <2>3. across \div (n - 1) \in Int
    BY <2>1
  <2> QED
    BY <2>2, <2>3 DEF GRID_LEFT
<1> QED
  BY <1>1, <1>2

\* The width of a pill is a number of pixels.
LEMMA LabelWidthWhole ==
  ASSUME SeenSound, WidthsSound, NEW run
  PROVE  LabelWidth(run) \in Nat
<1> DEFINE visible == {k \in DOMAIN seenNotes : seenNotes[k].run = run /\ seenNotes[k].show}
           more == IF Cardinality(visible) > 1 THEN 24 ELSE 0
           full == seenNotes[Min(visible)].width + more
<1>1. DOMAIN seenNotes = 1..Len(seenNotes) /\ Len(seenNotes) \in Nat
  BY LenProperties DEF SeenSound
<1>2. visible \in SUBSET Int /\ IsFiniteSet(visible) /\ visible \subseteq DOMAIN seenNotes
  <2>1. IsFiniteSet(1..Len(seenNotes))
    BY <1>1, FS_Interval
  <2> QED
    BY <1>1, <2>1, FS_Subset
<1>3. LabelWidth(run) = IF visible = {} THEN 0 ELSE Min({160, full})
  BY DEF LabelWidth
<1>4. more \in Nat
  OBVIOUS
<1> HIDE DEF visible, more
<1>5. CASE visible # {}
  <2>1. Min(visible) \in DOMAIN seenNotes
    BY <1>2, <1>5, FiniteMin
  <2>2. full \in Nat
    BY <1>4, <2>1 DEF WidthsSound
  <2> HIDE DEF full
  <2>3. \E m \in {160, full} : \A y \in {160, full} : m <= y
    <3>1. 160 <= full \/ full <= 160
      BY <2>2
    <3> QED
      BY <2>2, <3>1
  <2>4. Min({160, full}) \in {160, full}
    BY <2>3 DEF Min
  <2> QED
    BY <1>3, <1>5, <2>2, <2>4
<1> QED
  BY <1>3, <1>5

\* Pills that are laid out: each stands inside of the chart, if it is wide enough.
LaidOut(items, px) ==
    /\ DOMAIN items = 1..Len(items) /\ Len(items) \in Nat
    /\ \A i \in DOMAIN items :
          /\ items[i].x \in Int /\ items[i].w \in Nat
          /\ items[i].x >= items[i].w + 2 * LABEL_EDGE_INSET
          /\ \/ items[i].x <= 2 * px - items[i].w - 2 * LABEL_EDGE_INSET
             \/ items[i].x <= items[i].w + 2 * LABEL_EDGE_INSET

LEMMA LabelsLaidOut ==
  ASSUME NEW n \in Nat, NEW widths \in [1..n -> Nat], NEW px \in Int
  PROVE  LaidOut(PrepareLabels(widths, n, px), px)
<1> DEFINE S == {i \in 1..n : widths[i] > 0}
           noted == InOrder(S, n)
           X(k) == ClampLabelX(PixelXForIndex(noted[k], n, px), widths[noted[k]], px)
           items == [k \in DOMAIN noted |-> [x |-> X(k), w |-> widths[noted[k]], point |-> noted[k]]]
<1>1. CASE px <= GRID_LEFT + GRID_RIGHT
  <2>1. PrepareLabels(widths, n, px) = << >>
    BY <1>1 DEF PrepareLabels
  <2>2. << >> \in Seq({}) /\ Len(<< >>) = 0 /\ DOMAIN << >> = {}
    OBVIOUS
  <2> QED
    BY <2>1, <2>2 DEF LaidOut
<1>2. CASE ~(px <= GRID_LEFT + GRID_RIGHT)
  <2>1. PrepareLabels(widths, n, px) = items
    BY <1>2 DEF PrepareLabels
  <2>2. noted = InOrder(S, n)
    OBVIOUS
  <2> HIDE DEF noted, S
  <2>3. noted \in Seq(Int) /\ Len(noted) \in Nat /\ DOMAIN noted = 1..Len(noted) /\ \A k \in DOMAIN noted : noted[k] \in 1..n
    BY <2>2, InOrderLists
  <2>4. DOMAIN items = 1..Len(items) /\ Len(items) \in Nat
    <3>1. noted \in Seq({noted[k] : k \in DOMAIN noted})
      BY <2>3, SeqListed
    <3>2. DOMAIN items = DOMAIN noted /\ items = [k \in DOMAIN items |-> items[k]]
      OBVIOUS
    <3> HIDE DEF items
    <3>3. items \in Seq({items[k] : k \in DOMAIN items})
      BY <3>1, <3>2, MappedListed
    <3> QED
      BY <3>3, LenProperties
  <2>5. ASSUME NEW k \in DOMAIN noted
        PROVE  /\ items[k].x \in Int /\ items[k].w \in Nat
               /\ items[k].x >= items[k].w + 2 * LABEL_EDGE_INSET
               /\ \/ items[k].x <= 2 * px - items[k].w - 2 * LABEL_EDGE_INSET
                  \/ items[k].x <= items[k].w + 2 * LABEL_EDGE_INSET
    <3> DEFINE at == PixelXForIndex(noted[k], n, px)
               w == widths[noted[k]]
               lo == w + 2 * LABEL_EDGE_INSET
               far == 2 * px - w - 2 * LABEL_EDGE_INSET
               hi == Max({far, lo})
    <3>1. items[k].x = Clamped(at, lo, hi) /\ items[k].w = w
      BY DEF ClampLabelX
    <3>2. w \in Nat /\ noted[k] \in Int
      BY <2>3
    <3>3. at \in Int
      BY <3>2, PixelsWhole
    <3> HIDE DEF at, w, items
    <3>4. lo \in Int /\ far \in Int
      BY <3>2 DEF LABEL_EDGE_INSET
    <3> HIDE DEF lo, far
    <3>5. hi \in {far, lo} /\ hi >= lo /\ hi \in Int
      BY <3>4, MaxOfTwo
    <3> HIDE DEF hi
    <3>6. Clamped(at, lo, hi) \in Int /\ lo <= Clamped(at, lo, hi) /\ Clamped(at, lo, hi) <= hi
      BY <3>3, <3>4, <3>5, ClampedBetween
    <3> QED
      BY <3>1, <3>2, <3>4, <3>5, <3>6 DEF lo, far
  <2>6. DOMAIN items = DOMAIN noted
    OBVIOUS
  <2> HIDE DEF items
  <2> QED
    BY <2>1, <2>4, <2>5, <2>6 DEF LaidOut
<1> QED
  BY <1>1, <1>2

\* Placing pills one by one in the first free row: the steps of the pass.
Packs(pack, items, rowCount) ==
    /\ pack \in [0..Len(items) -> Seq(Int)] /\ pack[0] = << >>
    /\ \A k \in 1..Len(items) :
         pack[k] = IF Len(pack[k - 1]) < k - 1 \/ FreeRows(items, pack[k - 1], rowCount) = {} THEN pack[k - 1]
                   ELSE Append(pack[k - 1], Min(FreeRows(items, pack[k - 1], rowCount)))

LEMMA RowFound ==
  ASSUME NEW items, NEW s, NEW rowCount \in Nat, FreeRows(items, s, rowCount) # {}
  PROVE  /\ Min(FreeRows(items, s, rowCount)) \in FreeRows(items, s, rowCount)
         /\ Min(FreeRows(items, s, rowCount)) \in Int
<1> DEFINE free == FreeRows(items, s, rowCount)
<1>1. free \subseteq 0..rowCount - 1 /\ free # {}
  BY DEF FreeRows
<1>2. IsFiniteSet(0..rowCount - 1)
  BY FS_Interval
<1> HIDE DEF free
<1>3. free \in SUBSET Int /\ IsFiniteSet(free)
  <2>1. IsFiniteSet(free)
    BY <1>1, <1>2, FS_Subset, Zenon
  <2> QED
    BY <1>1, <2>1
<1>4. Min(free) \in free
  BY <1>1, <1>3, FiniteMin
<1> QED
  BY <1>3, <1>4 DEF free

LEMMA PackRuns ==
  ASSUME NEW items, Len(items) \in Nat, NEW rowCount \in Nat
  PROVE  \E pack : Packs(pack, items, rowCount) /\ TryPack(items, rowCount) = pack[Len(items)]
<1> DEFINE N == Len(items)
           A == Seq(Int)
           empty == << >>
           Placed(k, s) == IF Len(s) < k - 1 \/ FreeRows(items, s, rowCount) = {} THEN s
                           ELSE Append(s, Min(FreeRows(items, s, rowCount)))
           step == [k \in 1..N |-> [s \in A |-> Placed(k, s)]]
           Levels(d) == [k \in 0..N |-> IF k = 0 THEN empty ELSE Placed(k, d[k - 1])]
           pack == CHOOSE d : d = Levels(d)
<1>1. N \in Nat /\ empty \in A
  OBVIOUS
<1>2. \A k \in 1..N : \A s \in A : Placed(k, s) \in A
  <2> SUFFICES ASSUME NEW k \in 1..N, NEW s \in A PROVE Placed(k, s) \in A
    OBVIOUS
  <2>1. CASE FreeRows(items, s, rowCount) = {}
    BY <2>1
  <2>2. CASE FreeRows(items, s, rowCount) # {}
    <3>1. Min(FreeRows(items, s, rowCount)) \in Int
      BY <2>2, RowFound
    <3> QED
      BY <3>1
  <2> QED
    BY <2>1, <2>2
<1>3. TryPack(items, rowCount) = pack[N]
  BY DEF TryPack
<1> HIDE DEF A, empty, Placed, N
<1>4. step \in [1..N -> [A -> A]] /\ \A k \in 1..N : \A s \in A : step[k][s] = Placed(k, s)
  BY <1>2
<1> HIDE DEF step
<1>5. PICK f \in [0..N -> A] : f[0] = empty /\ \A k \in 1..N : f[k] = step[k][f[k - 1]]
  <2>1. empty \in A /\ step \in [1..N -> [A -> A]] /\ N \in Nat
    BY <1>1, <1>4
  <2> QED
    BY <2>1, Iterated
<1>6. f = Levels(f)
  BY <1>1, <1>4, <1>5
<1>7. pack = Levels(pack)
  <2> HIDE DEF Levels
  <2> QED
    BY <1>6
<1> HIDE DEF pack
<1>8. pack[0] = empty /\ \A k \in 1..N : pack[k] = Placed(k, pack[k - 1])
  BY <1>1, <1>7
<1>9. \A k \in 0..N : pack[k] \in A
  <2>1. \A k \in 1..N : pack[k - 1] \in A => pack[k] = step[k][pack[k - 1]]
    BY <1>4, <1>8
  <2> QED
    BY <1>1, <1>4, <1>8, <2>1, LoopKeeps
<1>10. pack \in [0..N -> A]
  BY <1>7, <1>9
<1> QED
  BY <1>3, <1>8, <1>10 DEF A, empty, Placed, N, Packs

\* The first k pills: those of one row are apart, and the pass only stops at a pill that
\* is too close to one of each row.
PlacedApart(s, items, rowCount, k) ==
    /\ Len(s) <= k
    /\ \A i \in 1..Len(s) : s[i] \in 0..rowCount - 1
    /\ \A i, j \in 1..Len(s) : i < j /\ s[i] = s[j] => Clear(items[i], items[j])
    /\ Len(s) < k => FreeRows(items, s, rowCount) = {}

LEMMA PlacingGoesOn ==
  ASSUME NEW items, NEW rowCount \in Nat, NEW k \in Nat, k # 0, NEW s \in Seq(Int),
         PlacedApart(s, items, rowCount, k - 1)
  PROVE  PlacedApart(IF Len(s) < k - 1 \/ FreeRows(items, s, rowCount) = {} THEN s
                     ELSE Append(s, Min(FreeRows(items, s, rowCount))), items, rowCount, k)
<1>1. Len(s) \in Nat /\ DOMAIN s = 1..Len(s) /\ Len(s) <= k - 1
  BY LenProperties DEF PlacedApart
<1>2. CASE Len(s) < k - 1 \/ FreeRows(items, s, rowCount) = {}
  BY <1>1, <1>2 DEF PlacedApart
<1>3. CASE Len(s) = k - 1 /\ FreeRows(items, s, rowCount) # {}
  <2> DEFINE row == Min(FreeRows(items, s, rowCount))
             t == Append(s, row)
  <2>1. row \in FreeRows(items, s, rowCount) /\ row \in Int
    BY <1>3, RowFound
  <2>2. row \in 0..rowCount - 1 /\ \A j \in 1..Len(s) : s[j] = row => Clear(items[j], items[Len(s) + 1])
    BY <1>1, <2>1 DEF FreeRows
  <2> HIDE DEF row
  <2>3. Len(t) = Len(s) + 1 /\ (\A i \in 1..Len(s) : t[i] = s[i]) /\ t[Len(s) + 1] = row
    BY <2>1, AppendProperties
  <2> HIDE DEF t
  <2>4. \A i \in 1..Len(t) : i = Len(s) + 1 \/ i \in 1..Len(s)
    BY <1>1, <2>3
  <2>5. \A i \in 1..Len(t) : t[i] \in 0..rowCount - 1
    <3>1. \A i \in 1..Len(s) : s[i] \in 0..rowCount - 1
      BY DEF PlacedApart
    <3> QED
      BY <2>2, <2>3, <2>4, <3>1
  <2>6. ASSUME NEW i \in 1..Len(t), NEW j \in 1..Len(t), i < j, t[i] = t[j]
        PROVE  Clear(items[i], items[j])
    <3>1. i \in 1..Len(s)
      BY <1>1, <2>3, <2>6
    <3>2. CASE j \in 1..Len(s)
      <4>1. s[i] = s[j]
        BY <2>3, <2>6, <3>1, <3>2
      <4> QED
        BY <2>6, <3>1, <3>2, <4>1 DEF PlacedApart
    <3>3. CASE j = Len(s) + 1
      <4>1. s[i] = row
        BY <2>3, <2>6, <3>1, <3>3
      <4> QED
        BY <2>2, <3>1, <3>3, <4>1
    <3> QED
      BY <2>4, <3>2, <3>3
  <2>7. Len(t) = k
    BY <1>1, <1>3, <2>3
  <2>8. PlacedApart(t, items, rowCount, k)
    BY <2>5, <2>6, <2>7 DEF PlacedApart
  <2> QED
    BY <1>1, <1>3, <2>8 DEF t, row
<1> QED
  BY <1>1, <1>2, <1>3

LEMMA TryPackApart ==
  ASSUME NEW items, Len(items) \in Nat, NEW rowCount \in Nat
  PROVE  /\ TryPack(items, rowCount) \in Seq(Int)
         /\ PlacedApart(TryPack(items, rowCount), items, rowCount, Len(items))
<1>1. PICK pack : Packs(pack, items, rowCount) /\ TryPack(items, rowCount) = pack[Len(items)]
  BY PackRuns
<1> DEFINE T == {k \in 0..Len(items) : PlacedApart(pack[k], items, rowCount, k)}
<1>2. 0 \in T
  BY <1>1 DEF Packs, PlacedApart
<1>3. ASSUME NEW k \in 1..Len(items), k - 1 \in T PROVE k \in T
  <2>1. pack[k - 1] \in Seq(Int) /\ k \in Nat /\ k # 0 /\ k \in 0..Len(items)
    BY <1>1 DEF Packs
  <2>2. PlacedApart(pack[k - 1], items, rowCount, k - 1)
    BY <1>3
  <2>3. pack[k] = IF Len(pack[k - 1]) < k - 1 \/ FreeRows(items, pack[k - 1], rowCount) = {} THEN pack[k - 1]
                  ELSE Append(pack[k - 1], Min(FreeRows(items, pack[k - 1], rowCount)))
    BY <1>1 DEF Packs
  <2>4. PlacedApart(pack[k], items, rowCount, k)
    BY <2>1, <2>2, <2>3, PlacingGoesOn
  <2> QED
    BY <2>1, <2>4
<1> HIDE DEF T
<1>4. \A k \in 0..Len(items) : k \in T
  BY <1>2, <1>3, UpTo
<1>5. Len(items) \in T
  BY <1>4
<1> QED
  BY <1>1, <1>5 DEF T, Packs

LEMMA IntervalFinite == \A a, b \in Int : IsFiniteSet(a..b)
BY FS_Interval

\* A set with one element for each row has as many.
LEMMA ThreeOf ==
  ASSUME NEW S, IsFiniteSet(S), NEW a \in S, NEW b \in S, NEW c \in S, a # b, a # c, b # c
  PROVE  Cardinality(S) >= 3
<1> DEFINE one == {} \union {a}
           two == one \union {b}
           three == two \union {c}
<1>1. IsFiniteSet({}) /\ Cardinality({}) = 0
  BY FS_EmptySet
<1>2. b \notin one /\ c \notin two
  OBVIOUS
<1>0. three \in SUBSET S
  OBVIOUS
<1>3. IsFiniteSet(one) /\ Cardinality(one) = 1
  BY <1>1, FS_AddElement
<1> HIDE DEF one
<1>4. IsFiniteSet(two) /\ Cardinality(two) = 2
  BY <1>2, <1>3, FS_AddElement
<1> HIDE DEF two
<1>5. Cardinality(three) = 3
  <2>1. Cardinality(two \union {c}) = IF c \in two THEN Cardinality(two) ELSE Cardinality(two) + 1
    BY <1>4, FS_AddElement, Zenon
  <2> QED
    BY <1>2, <1>4, <2>1
<1> HIDE DEF three
<1>6. Cardinality(three) <= Cardinality(S)
  BY <1>0, FS_Subset
<1>7. Cardinality(S) \in Nat
  BY FS_CardinalityType
<1> QED
  BY <1>5, <1>6, <1>7

\* The earlier pills that leave too little room for the i-th.
NearTo(items, i) == {j \in 1..i - 1 : LeftEdge(items[i]) - RightEdge(items[j]) < 2 * MIN_LABEL_GAP}

LEMMA NotClear ==
  ASSUME NEW px, NEW items, LaidOut(items, px), NEW i \in DOMAIN items, NEW j \in DOMAIN items
  PROVE  /\ Clear(items[j], items[i]) <=> ~(LeftEdge(items[i]) - RightEdge(items[j]) < 2 * MIN_LABEL_GAP)
         /\ Clear(items[j], items[i]) => ~Overlap(items[j], items[i])
BY DEF Clear, LaidOut, LeftEdge, RightEdge, MIN_LABEL_GAP, Overlap

\* When three rows are not enough, a pill is too close to an earlier one of each.
LEMMA CrowdedPill ==
  ASSUME NEW px, NEW items, LaidOut(items, px), Len(TryPack(items, MAX_ROWS)) # Len(items)
  PROVE  \E k \in DOMAIN items : Cardinality(NearTo(items, k)) >= MAX_ROWS
<1> DEFINE s == TryPack(items, 3)
           k == Len(s) + 1
<1>1. Len(items) \in Nat /\ DOMAIN items = 1..Len(items)
  BY DEF LaidOut
<1>2. s \in Seq(Int) /\ PlacedApart(s, items, 3, Len(items)) /\ Len(s) # Len(items)
  BY <1>1, TryPackApart DEF MAX_ROWS
<1> HIDE DEF s
<1>3. Len(s) \in Nat /\ DOMAIN s = 1..Len(s) /\ Len(s) < Len(items) /\ FreeRows(items, s, 3) = {}
  BY <1>1, <1>2, LenProperties DEF PlacedApart
<1>4. k \in DOMAIN items
  BY <1>1, <1>3
<1>5. ASSUME NEW row \in 0..2 PROVE \E j \in NearTo(items, k) : s[j] = row
  <2>0. row \in 0..3 - 1 /\ row \notin FreeRows(items, s, 3)
    BY <1>3
  <2>1. PICK j \in 1..Len(s) : s[j] = row /\ ~Clear(items[j], items[Len(s) + 1])
    BY <1>3, <2>0 DEF FreeRows
  <2>2. j \in DOMAIN items /\ j \in 1..k - 1
    BY <1>1, <1>3
  <2>3. LeftEdge(items[k]) - RightEdge(items[j]) < 2 * MIN_LABEL_GAP
    BY <1>4, <2>1, <2>2, NotClear
  <2> QED
    BY <2>1, <2>2, <2>3 DEF NearTo
<1>6. IsFiniteSet(NearTo(items, k))
  <2>1. IsFiniteSet(1..k - 1)
    BY <1>3, FS_Interval
  <2>2. NearTo(items, k) \subseteq 1..k - 1
    BY DEF NearTo
  <2> QED
    BY <2>1, <2>2, FS_Subset, Zenon
<1>7. PICK a \in NearTo(items, k) : s[a] = 0
  BY <1>5
<1>8. PICK b \in NearTo(items, k) : s[b] = 1
  BY <1>5
<1>9. PICK c \in NearTo(items, k) : s[c] = 2
  BY <1>5
<1>10. a # b /\ a # c /\ b # c
  BY <1>7, <1>8, <1>9
<1> HIDE DEF k
<1>11. Cardinality(NearTo(items, k)) >= 3
  BY <1>6, <1>10, ThreeOf
<1> QED
  BY <1>4, <1>11 DEF MAX_ROWS

\* Each pill has one of the rows; where a number of rows is enough, those of a row are apart.
LEMMA RowsPacked ==
  ASSUME NEW px, NEW items, LaidOut(items, px), NEW rows, rows = PackRows(items)
  PROVE  /\ DOMAIN rows = DOMAIN items
         /\ \A i \in DOMAIN rows : rows[i] \in 0..MAX_ROWS - 1
         /\ \/ \A i, j \in DOMAIN items : i < j /\ rows[i] = rows[j] => Clear(items[i], items[j])
            \/ \E k \in DOMAIN items : Cardinality(NearTo(items, k)) >= MAX_ROWS
<1> DEFINE fits == {r \in 1..MAX_ROWS : Len(TryPack(items, r)) = Len(items)}
<1>1. Len(items) \in Nat /\ DOMAIN items = 1..Len(items)
  BY DEF LaidOut
<1>2. rows = IF fits # {} THEN TryPack(items, Min(fits)) ELSE [i \in DOMAIN items |-> (i - 1) % MAX_ROWS]
  BY DEF PackRows
<1>3. CASE fits # {}
  <2> DEFINE r == Min(fits)
  <2>1. IsFiniteSet(1..3) /\ fits \subseteq 1..3
    <3>1. 1 \in Int /\ 3 \in Int
      OBVIOUS
    <3>2. IsFiniteSet(1..3)
      BY <3>1, IntervalFinite, Zenon
    <3> QED
      BY <3>2 DEF MAX_ROWS
  <2>2. r \in fits
    <3> HIDE DEF fits
    <3>1. IsFiniteSet(fits)
      BY <2>1, FS_Subset, Zenon
    <3>2. fits \in SUBSET Int
      BY <2>1
    <3> QED
      BY <1>3, <3>1, <3>2, FiniteMin
  <2>3. rows = TryPack(items, r)
    BY <1>2, <1>3
  <2>4. r \in 1..3 /\ Len(rows) = Len(items)
    BY <2>1, <2>2, <2>3
  <2> HIDE DEF r, fits
  <2>0. r \in Nat
    BY <2>4
  <2>5. rows \in Seq(Int) /\ PlacedApart(rows, items, r, Len(items))
    BY <1>1, <2>0, <2>3, TryPackApart
  <2>6. DOMAIN rows = 1..Len(items)
    BY <2>4, <2>5, LenProperties
  <2>7. \A i \in 1..Len(items) : rows[i] \in 0..MAX_ROWS - 1
    BY <2>4, <2>5 DEF PlacedApart, MAX_ROWS
  <2> QED
    BY <1>1, <2>4, <2>5, <2>6, <2>7 DEF PlacedApart
<1>4. CASE fits = {}
  <2>1. rows = [i \in DOMAIN items |-> (i - 1) % MAX_ROWS]
    BY <1>2, <1>4
  <2>2. \A i \in DOMAIN rows : rows[i] \in 0..MAX_ROWS - 1
    BY <1>1, <2>1 DEF MAX_ROWS
  <2>3. Len(TryPack(items, MAX_ROWS)) # Len(items)
    BY <1>4 DEF MAX_ROWS
  <2>4. \E k \in DOMAIN items : Cardinality(NearTo(items, k)) >= MAX_ROWS
    BY <2>3, CrowdedPill
  <2> QED
    BY <2>1, <2>2, <2>4
<1> QED
  BY <1>3, <1>4

\* The band above the plot is as high as the last row in use.
LEMMA BandHoldsRows ==
  ASSUME NEW rows, NEW i \in DOMAIN rows, \A j \in DOMAIN rows : rows[j] \in 0..MAX_ROWS - 1
  PROVE  RowTop(rows[i]) + ROW_HEIGHT <= 16 + BandPx(rows)
<1> DEFINE used == {rows[j] : j \in DOMAIN rows}
<1>1. used \subseteq 0..2 /\ rows[i] \in used
  BY DEF MAX_ROWS
<1>2. IsFiniteSet(0..2)
  <2>1. 0 \in Int /\ 2 \in Int
    OBVIOUS
  <2> QED
    BY <2>1, IntervalFinite, Zenon
<1>3. rows # << >>
  <2>1. DOMAIN << >> = {}
    OBVIOUS
  <2> QED
    BY <2>1
<1>4. BandPx(rows) = RowTop(Max(used)) + ROW_HEIGHT \div 2 + 6
  BY <1>3 DEF BandPx
<1> HIDE DEF used
<1>5. IsFiniteSet(used)
  BY <1>1, <1>2, FS_Subset, Zenon
<1>6. used \in SUBSET Int /\ used # {} /\ rows[i] \in Int
  BY <1>1
<1>7. Max(used) \in Int /\ Max(used) >= rows[i]
  BY <1>1, <1>5, <1>6, FiniteMax
<1> QED
  BY <1>4, <1>6, <1>7 DEF RowTop, ROW_HEIGHT

LEMMA LaidOutInside ==
  ASSUME NEW px \in Nat, NEW items, LaidOut(items, px), NEW i \in DOMAIN items,
         items[i].w + 2 * LABEL_EDGE_INSET <= px
  PROVE  LeftEdge(items[i]) >= 0 /\ RightEdge(items[i]) <= 2 * px
BY DEF LaidOut, LeftEdge, RightEdge, LABEL_EDGE_INSET

LEMMA LabelsExplained ==
  ASSUME ChartInv, SeenSound, WidthsSound
  PROVE  LabelsLegible
<1> SUFFICES ASSUME NEW m \in DOMAIN blocks
             PROVE  LET items == Labels(m)
                        rows == PackRows(items)
                        near(i) == {j \in 1..i - 1 : LeftEdge(items[i]) - RightEdge(items[j]) < 2 * MIN_LABEL_GAP}
                    IN  /\ \A i, j \in DOMAIN items : i < j /\ rows[i] = rows[j] /\ Overlap(items[i], items[j]) =>
                              \E k \in DOMAIN items : Cardinality(near(k)) >= MAX_ROWS
                        /\ \A i \in DOMAIN items :
                              /\ RowTop(rows[i]) + ROW_HEIGHT <= 16 + BandPx(rows)
                              /\ items[i].w + 2 * LABEL_EDGE_INSET <= width =>
                                    LeftEdge(items[i]) >= 0 /\ RightEdge(items[i]) <= 2 * width
  BY DEF LabelsLegible
<1> DEFINE items == Labels(m)
           rows == PackRows(items)
           near(i) == {j \in 1..i - 1 : LeftEdge(items[i]) - RightEdge(items[j]) < 2 * MIN_LABEL_GAP}
<1>1. width \in Nat
  BY DEF WidthsSound
<1>2. LaidOut(items, width)
  <2>1. CASE items = << >>
    <3>1. << >> \in Seq({}) /\ Len(<< >>) = 0 /\ DOMAIN << >> = {}
      OBVIOUS
    <3> HIDE DEF items
    <3> QED
      BY <2>1, <3>1 DEF LaidOut
  <2>2. CASE items # << >>
    <3> DEFINE n == Len(trend)
               widths == [i \in DOMAIN trend |-> LabelWidth(trend[i].run)]
    <3>1. items = PrepareLabels(widths, n, width)
      BY <2>2 DEF Labels
    <3>2. n \in Nat /\ DOMAIN trend = 1..n
      BY LenProperties DEF ChartInv
    <3>3. \A i \in DOMAIN trend : LabelWidth(trend[i].run) \in Nat
      BY LabelWidthWhole
    <3>4. widths \in [1..n -> Nat]
      BY <3>2, <3>3
    <3> HIDE DEF n, widths, items
    <3>5. LaidOut(PrepareLabels(widths, n, width), width)
      BY <1>1, <3>2, <3>4, LabelsLaidOut
    <3> QED
      BY <3>1, <3>5
  <2> QED
    BY <2>1, <2>2
<1>3. \A i : near(i) = NearTo(items, i)
  BY DEF NearTo
<1>4. rows = PackRows(items)
  OBVIOUS
<1> HIDE DEF items, rows
<1>5. /\ DOMAIN rows = DOMAIN items
      /\ \A i \in DOMAIN rows : rows[i] \in 0..MAX_ROWS - 1
      /\ \/ \A i, j \in DOMAIN items : i < j /\ rows[i] = rows[j] => Clear(items[i], items[j])
         \/ \E k \in DOMAIN items : Cardinality(NearTo(items, k)) >= MAX_ROWS
  BY <1>2, <1>4, RowsPacked
<1>6. ASSUME NEW i \in DOMAIN items, NEW j \in DOMAIN items, i < j, rows[i] = rows[j], Overlap(items[i], items[j])
      PROVE  \E k \in DOMAIN items : Cardinality(near(k)) >= MAX_ROWS
  <2>1. ~Clear(items[i], items[j])
    BY <1>2, <1>6, NotClear
  <2>2. PICK k \in DOMAIN items : Cardinality(NearTo(items, k)) >= MAX_ROWS
    BY <1>5, <1>6, <2>1
  <2> QED
    BY <1>3, <2>2
<1>7. ASSUME NEW i \in DOMAIN items
      PROVE  /\ RowTop(rows[i]) + ROW_HEIGHT <= 16 + BandPx(rows)
             /\ items[i].w + 2 * LABEL_EDGE_INSET <= width =>
                   LeftEdge(items[i]) >= 0 /\ RightEdge(items[i]) <= 2 * width
  <2>1. i \in DOMAIN rows
    BY <1>5
  <2>2. RowTop(rows[i]) + ROW_HEIGHT <= 16 + BandPx(rows)
    BY <1>5, <2>1, BandHoldsRows
  <2> QED
    BY <1>1, <1>2, <2>2, LaidOutInside
<1> QED
  BY <1>6, <1>7 DEF items, rows

\* Whatever notes, points and widths a trend chart has: pills of one row overlap only where
\* a pill is too close to one of each row, and every pill is above the plot and inside of a
\* chart that is wide enough for it (packRows, clampLabelX and bandPx of the note labels).
THEOREM LabelsStayLegible == Spec => []LabelsLegible
<1>1. ChartInv /\ SeenSound /\ WidthsSound => LabelsLegible
  BY LabelsExplained
<1> QED
  BY <1>1, ChartInvariant, SeenInvariant, WidthsInvariant, PTL

=============================================================================
