----------------------------- MODULE NotesProofs -----------------------------
(***************************************************************************)
(* Notes lose no update, for any number of actors, notes, drafts and       *)
(* versions: no save overwrites what its author has not seen, a save       *)
(* repeated after a lost answer is applied once, and the history has every *)
(* version.                                                                *)
(***************************************************************************)
EXTENDS Notes, TLAPS

Writing(a) == editors[a].pc \in {"drafting", "probing"}

(* The copy of a client is a version the note has had; while it is the     *)
(* version the note has now, it is also the text the note has now.         *)
CopiesAreVersions ==
  \A a \in Actors :
    LET e == editors[a]
    IN  /\ e.version <= notes[e.note].version
        /\ e.version = notes[e.note].version => e.text = notes[e.note].text

(* Every draft is in one place.                                            *)
DraftsAreUsed ==
  /\ \A a \in Actors : Writing(a) => editors[a].draft \in usedDrafts
  /\ \A a, b \in Actors : Writing(a) /\ Writing(b) /\ editors[a].draft = editors[b].draft => a = b
  /\ \A s \in saves : s.draft \in usedDrafts

(* A draft that was saved and is to be saved again expects a version that  *)
(* is gone.                                                                *)
SavedDraftsAreLate ==
  /\ \A s \in saves : s.version <= notes[s.note].version
  /\ \A s \in saves, a \in Actors : Writing(a) /\ editors[a].draft = s.draft =>
       s.note = editors[a].note /\ editors[a].version < s.version

NotesInv ==
  /\ NotesTypeOK
  /\ HistoryComplete
  /\ CopiesAreVersions
  /\ DraftsAreUsed
  /\ SavedDraftsAreLate
  /\ AppliedAtMostOnce

USE NotesAssumption

LEMMA InitNotes == NotesInit => NotesInv
  <1> SUFFICES ASSUME NotesInit PROVE NotesInv
    OBVIOUS
  <1>1. NotesTypeOK
    BY DEF NotesInit, NotesTypeOK, NoteRow, Editor, Texts
  <1>2. HistoryComplete
    <2>1. noteVersions = {} /\ \A n \in NoteIds : notes[n].version = 1
      BY DEF NotesInit
    <2>2. \A n \in NoteIds : VersionsOf(n) = {}
      BY <2>1 DEF VersionsOf
    <2> QED
      BY <2>1, <2>2 DEF HistoryComplete
  <1>3. CopiesAreVersions
    BY DEF NotesInit, CopiesAreVersions
  <1>4. DraftsAreUsed /\ SavedDraftsAreLate /\ AppliedAtMostOnce
    BY DEF NotesInit, DraftsAreUsed, SavedDraftsAreLate, AppliedAtMostOnce, Writing
  <1> QED
    BY <1>1, <1>2, <1>3, <1>4 DEF NotesInv

(* A client receives a version of a note, or begins a draft, or learns of  *)
(* a conflict: only its own editor changes.                                *)
LEMMA ReceiveStep ==
  ASSUME NotesInv, NEW a \in Actors, NEW n \in NoteIds, NEW version \in 1..MaxVersion,
         NEW text \in [Fields -> Texts], Receive(a, n, version, text),
         UNCHANGED <<noteVersions, usedDrafts, saves>>,
         \A m \in NoteIds : /\ notes'[m].version = notes[m].version /\ notes'[m].text = notes[m].text,
         notes' \in [NoteIds -> NoteRow],
         version <= notes[n].version, version = notes[n].version => text = notes[n].text
  PROVE  NotesInv'
  <1>0. editors \in [Actors -> Editor] /\ saves \subseteq Save
    BY DEF NotesInv, NotesTypeOK
  <1>1. /\ editors'[a] \in Editor /\ editors'[a].pc = "reading"
        /\ editors'[a].note = n /\ editors'[a].version = version /\ editors'[a].text = text
        /\ editors' \in [Actors -> Editor]
        /\ \A b \in Actors \ {a} : editors'[b] = editors[b]
    <2> DEFINE q == [editors[a] EXCEPT !.pc = "reading", !.note = n, !.version = version, !.text = text]
    <2>1. editors' = [editors EXCEPT ![a] = q]
      BY DEF Receive
    <2>2. editors[a] \in Editor
      BY <1>0
    <2>3. q \in Editor /\ q.pc = "reading" /\ q.note = n /\ q.version = version /\ q.text = text
      BY <2>2 DEF Editor
    <2> HIDE DEF q
    <2> QED
      BY <1>0, <2>1, <2>3
  <1>2. NotesTypeOK'
    BY <1>1 DEF NotesInv, NotesTypeOK
  <1>3. HistoryComplete'
    BY DEF NotesInv, HistoryComplete, VersionsOf
  <1>4. CopiesAreVersions'
    BY <1>0, <1>1 DEF NotesInv, CopiesAreVersions, Editor
  <1>5. (DraftsAreUsed /\ AppliedAtMostOnce)'
    BY <1>1 DEF NotesInv, DraftsAreUsed, AppliedAtMostOnce, Writing
  <1>6. SavedDraftsAreLate'
    BY <1>0, <1>1 DEF NotesInv, SavedDraftsAreLate, Writing, Save
  <1> QED
    BY <1>2, <1>3, <1>4, <1>5, <1>6 DEF NotesInv

LEMMA ReadStep ==
  ASSUME NotesInv, NEW a \in Actors, NEW n \in NoteIds,
         NoteCreate(a, n) \/ NoteFindById(a, n) \/ NoteListVersions(a, n)
  PROVE  NotesInv'
  <1>0. /\ notes \in [NoteIds -> NoteRow] /\ noteVersions \subseteq NoteVersionRow
        /\ notes[n].version \in 1..MaxVersion /\ notes[n].text \in [Fields -> Texts]
    BY DEF NotesInv, NotesTypeOK, NoteRow
  <1>1. CASE NoteCreate(a, n)
    <2>1. notes' = [notes EXCEPT ![n] = [notes[n] EXCEPT !.workspace = a.workspace, !.status = "live"]]
      BY <1>1 DEF NoteCreate, NoteRepoCreate
    <2>2. /\ notes' \in [NoteIds -> NoteRow]
          /\ \A m \in NoteIds : notes'[m].version = notes[m].version /\ notes'[m].text = notes[m].text
      BY <1>0, <2>1 DEF NoteRow
    <2>3. Receive(a, n, notes[n].version, notes[n].text) /\ UNCHANGED <<noteVersions, usedDrafts, saves>>
      BY <1>1 DEF NoteCreate, NoteRepoCreate
    <2> QED
      BY <1>0, <2>2, <2>3, ReceiveStep DEF NoteRow
  <1>2. CASE NoteFindById(a, n)
    <2>1. Receive(a, n, notes[n].version, notes[n].text) /\ UNCHANGED <<notes, noteVersions, usedDrafts, saves>>
      BY <1>2 DEF NoteFindById
    <2> QED
      BY <1>0, <2>1, ReceiveStep DEF NoteRow
  <1>3. CASE NoteListVersions(a, n)
    <2>1. PICK v \in VersionsOf(n) : Receive(a, n, v.version, v.text)
      BY <1>3 DEF NoteListVersions, NoteRepoListVersions, ReceiveVersion, VersionsOf
    <2>2. v.version \in 1..MaxVersion /\ v.text \in [Fields -> Texts]
      BY <1>0 DEF VersionsOf, NoteVersionRow
    <2>3. v.version <= notes[n].version /\ (v.version = notes[n].version => v.text = notes[n].text)
      <3>1. v.version \in 2..notes[n].version
        BY DEF NotesInv, HistoryComplete
      <3>2. v.version = notes[n].version => v.text = notes[n].text
        BY DEF NotesInv, HistoryComplete
      <3> QED
        BY <1>0, <3>1, <3>2
    <2>4. UNCHANGED <<notes, noteVersions, usedDrafts, saves>>
      BY <1>3 DEF NoteListVersions, NoteRepoListVersions, ReceiveVersion
    <2> QED
      BY <1>0, <2>1, <2>2, <2>3, <2>4, ReceiveStep
  <1> QED
    BY <1>1, <1>2, <1>3

LEMMA DraftStep ==
  ASSUME NotesInv, NEW a \in Actors, NEW d \in Drafts, NEW fields \in SUBSET Fields, WriteDraft(a, d, fields)
  PROVE  NotesInv'
  <1>0. /\ editors \in [Actors -> Editor] /\ d \notin usedDrafts
        /\ editors' = [editors EXCEPT ![a] = [editors[a] EXCEPT !.pc = "drafting", !.draft = d, !.fields = fields]]
        /\ usedDrafts' = usedDrafts \cup {d} /\ UNCHANGED <<notes, noteVersions, saves>>
    BY DEF WriteDraft, NotesInv, NotesTypeOK
  <1>1. /\ editors'[a] \in Editor /\ editors'[a].draft = d
        /\ editors'[a].note = editors[a].note /\ editors'[a].version = editors[a].version
        /\ editors'[a].text = editors[a].text
        /\ editors' \in [Actors -> Editor]
        /\ \A b \in Actors \ {a} : editors'[b] = editors[b]
    BY <1>0 DEF Editor, Texts
  <1>2. NotesTypeOK'
    BY <1>0, <1>1 DEF NotesInv, NotesTypeOK
  <1>3. (HistoryComplete /\ AppliedAtMostOnce)'
    BY <1>0 DEF NotesInv, HistoryComplete, VersionsOf, AppliedAtMostOnce
  <1>4. CopiesAreVersions'
    BY <1>0, <1>1 DEF NotesInv, CopiesAreVersions
  <1>5. DraftsAreUsed'
    BY <1>0, <1>1 DEF NotesInv, DraftsAreUsed, Writing
  <1>6. SavedDraftsAreLate'
    BY <1>0, <1>1 DEF NotesInv, SavedDraftsAreLate, DraftsAreUsed, Writing
  <1> QED
    BY <1>2, <1>3, <1>4, <1>5, <1>6 DEF NotesInv

(* The transaction that misses: the editor keeps its draft or gives it up. *)
LEMMA MissStep ==
  ASSUME NotesInv, NEW a \in Actors, NEW answered \in BOOLEAN,
         NoteUpdateMisses(a) \/ NoteProbe(a, answered)
  PROVE  NotesInv'
  <1>0. /\ editors \in [Actors -> Editor] /\ Writing(a)
        /\ UNCHANGED <<notes, noteVersions, usedDrafts, saves>>
    BY DEF NoteUpdateMisses, NoteProbe, Writing, NotesInv, NotesTypeOK
  <1>1. \E pc \in {"away", "reading", "drafting", "probing"} :
          editors' = [editors EXCEPT ![a] = [editors[a] EXCEPT !.pc = pc]]
    <2>1. CASE NoteUpdateMisses(a)
      BY <2>1 DEF NoteUpdateMisses
    <2>2. CASE NoteProbe(a, answered)
      <3> DEFINE pc == CASE ~answered -> "drafting"
                         [] answered /\ LiveFor(a, editors[a].note) -> "reading"
                         [] OTHER -> "away"
      <3>1. pc \in {"away", "reading", "drafting", "probing"}
        OBVIOUS
      <3>2. editors' = [editors EXCEPT ![a] = [editors[a] EXCEPT !.pc = pc]]
        BY <2>2 DEF NoteProbe
      <3> HIDE DEF pc
      <3> QED
        BY <3>1, <3>2
    <2> QED
      BY <2>1, <2>2
  <1>2. /\ editors' \in [Actors -> Editor]
        /\ \A b \in Actors : /\ editors'[b].note = editors[b].note /\ editors'[b].version = editors[b].version
                             /\ editors'[b].text = editors[b].text /\ editors'[b].draft = editors[b].draft
                             /\ editors'[b].pc \in {"drafting", "probing"} => Writing(b)
    BY <1>0, <1>1 DEF Editor, Writing
  <1>3. NotesTypeOK'
    BY <1>0, <1>2 DEF NotesInv, NotesTypeOK
  <1>4. (HistoryComplete /\ AppliedAtMostOnce)'
    BY <1>0 DEF NotesInv, HistoryComplete, VersionsOf, AppliedAtMostOnce
  <1>5. CopiesAreVersions'
    BY <1>0, <1>2 DEF NotesInv, CopiesAreVersions
  <1>6. \A b \in Actors : Writing(b)' => Writing(b)
    BY <1>2 DEF Writing
  <1>7. (DraftsAreUsed /\ SavedDraftsAreLate)'
    BY <1>0, <1>2, <1>6 DEF NotesInv, DraftsAreUsed, SavedDraftsAreLate
  <1> QED
    BY <1>3, <1>4, <1>5, <1>7 DEF NotesInv

LEMMA DeleteStep ==
  ASSUME NotesInv, NEW a \in Actors, NEW n \in NoteIds, NoteDelete(a, n)
  PROVE  NotesInv'
  <1>1. /\ notes \in [NoteIds -> NoteRow] /\ UNCHANGED <<noteVersions, editors, usedDrafts, saves>>
        /\ notes' = [notes EXCEPT ![n] = [notes[n] EXCEPT !.status = "deleted"]]
    BY DEF NoteDelete, NoteRepoSoftDelete, NotesInv, NotesTypeOK
  <1>2. /\ notes' \in [NoteIds -> NoteRow]
        /\ \A m \in NoteIds : notes'[m].version = notes[m].version /\ notes'[m].text = notes[m].text
    BY <1>1 DEF NoteRow
  <1>3. \A s \in saves : s.note \in NoteIds
    BY DEF NotesInv, NotesTypeOK, Save
  <1>4. \A b \in Actors : editors[b].note \in NoteIds
    BY DEF NotesInv, NotesTypeOK, Editor
  <1> QED
    BY <1>1, <1>2, <1>3, <1>4 DEF NotesInv, NotesTypeOK, HistoryComplete, VersionsOf, CopiesAreVersions,
                                  DraftsAreUsed, SavedDraftsAreLate, AppliedAtMostOnce, Writing

(* A save that matches: the version it expected is the version of the      *)
(* note, so its author held the text, and no earlier save was this draft.  *)
LEMMA UpdateStep ==
  ASSUME NotesInv, NEW a \in Actors, NEW answered \in BOOLEAN, NoteUpdate(a, answered)
  PROVE  NotesInv'
  <1> DEFINE e    == editors[a]
             n    == e.note
             text == Patch(notes[n].text, e.fields, e.draft)
             row  == [notes[n] EXCEPT !.text = text, !.version = notes[n].version + 1]
             hist == HistoryRow(a, n, row)
             save == [draft |-> e.draft, note |-> n, version |-> row.version]
  <1>0. /\ notes \in [NoteIds -> NoteRow] /\ noteVersions \subseteq NoteVersionRow
        /\ editors \in [Actors -> Editor] /\ saves \subseteq Save /\ e \in Editor
        /\ n \in NoteIds /\ notes[n] \in NoteRow
    BY DEF NotesInv, NotesTypeOK, Editor
  <1>1. /\ e.pc = "drafting" /\ notes[n].version = e.version /\ notes[n].version < MaxVersion
        /\ notes' = [notes EXCEPT ![n] = row] /\ noteVersions' = noteVersions \cup {hist}
        /\ saves' = saves \cup {save} /\ usedDrafts' = usedDrafts
        /\ IF answered THEN Receive(a, n, row.version, row.text) ELSE UNCHANGED editors
    BY DEF NoteUpdate, UpdateWithVersion, Matches
  <1>2. text \in [Fields -> Texts]
    BY <1>0 DEF Patch, NoteRow, Editor
  <1> HIDE DEF text
  <1>3. /\ row \in NoteRow /\ row.version = notes[n].version + 1 /\ row.version \in 1..MaxVersion
        /\ row.text \in [Fields -> Texts] /\ row.workspace = notes[n].workspace
    <2>1. notes[n].version \in 1..MaxVersion /\ notes[n].version + 1 \in 1..MaxVersion
      BY <1>0, <1>1 DEF NoteRow
    <2> QED
      BY <1>0, <1>2, <2>1 DEF NoteRow
  <1> HIDE DEF row
  <1>4. /\ hist \in NoteVersionRow /\ hist.note = n /\ hist.version = row.version /\ hist.text = row.text
    BY <1>0, <1>3 DEF HistoryRow, NoteVersionRow, NoteRow
  <1>5. /\ \A m \in NoteIds \ {n} : notes'[m] = notes[m]
        /\ notes'[n] = row /\ notes' \in [NoteIds -> NoteRow]
    BY <1>0, <1>1, <1>3
  <1>6. e.draft \in usedDrafts /\ e.draft \in Drafts
    BY <1>1 DEF NotesInv, NotesTypeOK, DraftsAreUsed, Writing
  <1>7. save \in Save /\ save.draft = e.draft /\ save.note = n /\ save.version = row.version
    BY <1>0, <1>3, <1>6 DEF Save
  <1> HIDE DEF hist, save
  <1>8. /\ editors' \in [Actors -> Editor]
        /\ \A b \in Actors \ {a} : editors'[b] = editors[b]
        /\ \/ editors'[a] = e
           \/ /\ editors'[a].pc = "reading" /\ editors'[a].note = n
              /\ editors'[a].version = row.version /\ editors'[a].text = row.text
    <2>1. CASE ~answered
      BY <1>0, <1>1, <2>1
    <2>2. CASE answered
      <3> DEFINE q == [e EXCEPT !.pc = "reading", !.note = n, !.version = row.version, !.text = row.text]
      <3>1. editors' = [editors EXCEPT ![a] = q]
        BY <1>1, <2>2 DEF Receive
      <3>2. q \in Editor /\ q.pc = "reading" /\ q.note = n /\ q.version = row.version /\ q.text = row.text
        BY <1>0, <1>3 DEF Editor
      <3> HIDE DEF q
      <3> QED
        BY <1>0, <3>1, <3>2
    <2> QED
      BY <2>1, <2>2
  <1>9. NotesTypeOK'
    BY <1>0, <1>1, <1>4, <1>5, <1>7, <1>8 DEF NotesInv, NotesTypeOK
  <1>10. HistoryComplete'
    <2> SUFFICES ASSUME NEW m \in NoteIds
                 PROVE  /\ {v.version : v \in VersionsOf(m)'} = 2..notes'[m].version
                        /\ \A v, w \in VersionsOf(m)' : v.version = w.version => v = w
                        /\ \A v \in VersionsOf(m)' : v.version = notes'[m].version => v.text = notes'[m].text
      BY DEF HistoryComplete
    <2>1. /\ {v.version : v \in VersionsOf(m)} = 2..notes[m].version
          /\ \A v, w \in VersionsOf(m) : v.version = w.version => v = w
          /\ \A v \in VersionsOf(m) : v.version = notes[m].version => v.text = notes[m].text
      BY DEF NotesInv, HistoryComplete
    <2>2. CASE m # n
      <3>1. VersionsOf(m)' = VersionsOf(m)
        BY <1>1, <1>4, <2>2 DEF VersionsOf
      <3> QED
        BY <1>5, <2>1, <2>2, <3>1
    <2>3. CASE m = n
      <3>1. VersionsOf(m)' = VersionsOf(m) \cup {hist}
        BY <1>1, <1>4, <2>3 DEF VersionsOf
      <3>2. notes[n].version \in Nat \ {0} /\ notes'[m].version = notes[n].version + 1 /\ notes'[m].text = row.text
        BY <1>0, <1>3, <1>5, <2>3 DEF NoteRow
      <3>3. \A v \in VersionsOf(m) : v.version \in 2..notes[n].version
        BY <2>1, <2>3
      <3>4. {v.version : v \in VersionsOf(m)'} = {v.version : v \in VersionsOf(m)} \cup {hist.version}
        BY <3>1
      <3>5. 2..(notes[n].version + 1) = (2..notes[n].version) \cup {notes[n].version + 1}
        BY <3>2
      <3>6. {v.version : v \in VersionsOf(m)'} = 2..notes'[m].version
        BY <1>3, <1>4, <2>1, <2>3, <3>2, <3>4, <3>5
      <3>7. \A v \in VersionsOf(m) : v.version # hist.version
        BY <1>3, <1>4, <3>2, <3>3
      <3>8. \A v, w \in VersionsOf(m)' : v.version = w.version => v = w
        BY <2>1, <3>1, <3>7
      <3>9. \A v \in VersionsOf(m)' : v.version = notes'[m].version => v.text = notes'[m].text
        BY <1>3, <1>4, <3>1, <3>2, <3>7
      <3> QED
        BY <3>6, <3>8, <3>9
    <2> QED
      BY <2>2, <2>3
  <1>11. CopiesAreVersions'
    <2>1. notes[n].version \in Nat /\ \A b \in Actors : editors[b].version \in Nat /\ editors[b].note \in NoteIds
      BY <1>0 DEF NoteRow, Editor
    <2>2. \A b \in Actors : /\ editors[b].version <= notes[editors[b].note].version
                            /\ editors[b].version = notes[editors[b].note].version =>
                                 editors[b].text = notes[editors[b].note].text
      BY DEF NotesInv, CopiesAreVersions
    <2>3. \A b \in Actors : /\ editors[b].version <= notes'[editors[b].note].version
                            /\ editors[b].version = notes'[editors[b].note].version =>
                                 editors[b].text = notes'[editors[b].note].text
      BY <1>3, <1>5, <2>1, <2>2
    <2> QED
      BY <1>3, <1>5, <1>8, <2>3 DEF CopiesAreVersions
  <1>12. \A b \in Actors : Writing(b)' => /\ Writing(b) /\ editors'[b] = editors[b]
    BY <1>1, <1>8 DEF Writing
  <1>13. DraftsAreUsed'
    BY <1>1, <1>6, <1>7, <1>12 DEF NotesInv, DraftsAreUsed
  <1>14. SavedDraftsAreLate'
    <2>1. \A s \in saves : s.note \in NoteIds /\ s.version \in Nat /\ s.version <= notes'[s.note].version
      <3>1. \A s \in saves : s.note \in NoteIds /\ s.version \in Nat /\ s.version <= notes[s.note].version
        BY <1>0 DEF NotesInv, SavedDraftsAreLate, Save
      <3>2. \A m \in NoteIds : notes[m].version \in Nat /\ notes'[m].version \in Nat
        BY <1>0, <1>5 DEF NoteRow
      <3>3. \A m \in NoteIds : notes[m].version <= notes'[m].version
        BY <1>3, <1>5, <3>2
      <3> QED
        BY <3>1, <3>2, <3>3
    <2>2. \A b \in Actors : Writing(b) /\ editors[b].draft = e.draft => b = a
      BY <1>1 DEF NotesInv, DraftsAreUsed, Writing
    <2>3. row.version <= notes'[n].version /\ e.version < row.version
      BY <1>0, <1>1, <1>3, <1>5 DEF NoteRow
    <2> QED
      BY <1>1, <1>5, <1>7, <1>12, <2>1, <2>2, <2>3 DEF NotesInv, SavedDraftsAreLate
  <1>15. AppliedAtMostOnce'
    <2>1. \A s \in saves : s.draft # e.draft
      <3> SUFFICES ASSUME NEW s \in saves, s.draft = e.draft PROVE FALSE
        OBVIOUS
      <3>1. s.note = n /\ e.version < s.version /\ s.version <= notes[n].version
        BY <1>1 DEF NotesInv, SavedDraftsAreLate, Writing
      <3>2. s.version \in Int /\ e.version \in Int
        BY <1>0 DEF Save, Editor
      <3> QED
        BY <1>1, <3>1, <3>2
    <2> QED
      BY <1>1, <1>7, <2>1 DEF NotesInv, AppliedAtMostOnce
  <1> QED
    BY <1>9, <1>10, <1>11, <1>13, <1>14, <1>15 DEF NotesInv

LEMMA NotesStep == NotesInv /\ [NotesNext]_notesVars => NotesInv'
  <1> SUFFICES ASSUME NotesInv, [NotesNext]_notesVars PROVE NotesInv'
    OBVIOUS
  <1>1. CASE UNCHANGED notesVars
    BY <1>1 DEF notesVars, NotesInv, NotesTypeOK, HistoryComplete, VersionsOf, CopiesAreVersions,
                DraftsAreUsed, SavedDraftsAreLate, AppliedAtMostOnce, Writing
  <1>2. ASSUME NEW a \in Actors, NoteUpdateMisses(a) PROVE NotesInv'
    BY <1>2, MissStep
  <1> QED
    BY <1>1, <1>2, ReadStep, DraftStep, UpdateStep, MissStep, DeleteStep DEF NotesNext

LEMMA AlwaysNotes == NotesSpec => []NotesInv
  BY InitNotes, NotesStep, PTL DEF NotesSpec

(* Types of the notes, their history and the editors.                      *)
THEOREM NotesTypeCorrect == NotesSpec => []NotesTypeOK
  <1> NotesInv => NotesTypeOK
    BY DEF NotesInv
  <1> QED
    BY AlwaysNotes, PTL

(* The history of a note has every version from 2 on exactly once, and the *)
(* newest says what the note says.                                         *)
THEOREM HistoryIsComplete == NotesSpec => []HistoryComplete
  <1> NotesInv => HistoryComplete
    BY DEF NotesInv
  <1> QED
    BY AlwaysNotes, PTL

(* A save repeated after a lost answer is applied once.                    *)
THEOREM SavedOnce == NotesSpec => []AppliedAtMostOnce
  <1> NotesInv => AppliedAtMostOnce
    BY DEF NotesInv
  <1> QED
    BY AlwaysNotes, PTL

(* A note changes only by a save whose author, the one whose draft it then *)
(* says, held the text it replaces.                                        *)
THEOREM NoLostUpdate == NotesSpec => NothingUnseenIsOverwritten
  <1> DEFINE Seen == \A n \in NoteIds : notes'[n].text # notes[n].text =>
       \E a \in Actors : LET e == editors[a]
                         IN  /\ e.pc = "drafting" /\ e.note = n
                             /\ notes'[n].text = Patch(notes[n].text, e.fields, e.draft)
                             /\ e.text = notes[n].text
  <1>1. NotesInv /\ [NotesNext]_notesVars => [Seen]_notesVars
    <2> SUFFICES ASSUME NotesInv, NotesNext PROVE Seen
      OBVIOUS
    <2>0. notes \in [NoteIds -> NoteRow]
      BY DEF NotesInv, NotesTypeOK
    <2>1. ASSUME NEW a \in Actors, NEW m \in NoteIds, NoteCreate(a, m) \/ NoteDelete(a, m) PROVE Seen
      <3>1. \E row : row.text = notes[m].text /\ notes' = [notes EXCEPT ![m] = row]
        <4>1. CASE NoteCreate(a, m)
          <5> DEFINE row == [notes[m] EXCEPT !.workspace = a.workspace, !.status = "live"]
          <5>1. row.text = notes[m].text
            BY <2>0 DEF NoteRow
          <5>2. notes' = [notes EXCEPT ![m] = row]
            BY <4>1 DEF NoteCreate, NoteRepoCreate
          <5> QED
            BY <5>1, <5>2
        <4>2. CASE NoteDelete(a, m)
          <5> DEFINE row == [notes[m] EXCEPT !.status = "deleted"]
          <5>1. row.text = notes[m].text
            BY <2>0 DEF NoteRow
          <5>2. notes' = [notes EXCEPT ![m] = row]
            BY <4>2 DEF NoteDelete, NoteRepoSoftDelete
          <5> QED
            BY <5>1, <5>2
        <4> QED
          BY <2>1, <4>1, <4>2
      <3> QED
        BY <2>0, <3>1
    <2>2. ASSUME NEW a \in Actors, NEW answered \in BOOLEAN, NoteUpdate(a, answered) PROVE Seen
      <3> DEFINE e    == editors[a]
                 text == Patch(notes[e.note].text, e.fields, e.draft)
                 row  == [notes[e.note] EXCEPT !.text = text, !.version = notes[e.note].version + 1]
      <3>0. /\ e.pc = "drafting" /\ e.version = notes[e.note].version
            /\ notes' = [notes EXCEPT ![e.note] = row]
        BY <2>2 DEF NoteUpdate, UpdateWithVersion, Matches
      <3>4. e.note \in NoteIds
        BY DEF NotesInv, NotesTypeOK, Editor
      <3>5. row.text = text
        BY <2>0, <3>4 DEF NoteRow
      <3>1. \A n \in NoteIds : IF n = e.note THEN notes'[n].text = text ELSE notes'[n] = notes[n]
        BY <2>0, <3>0, <3>4, <3>5
      <3>2. editors[a].text = notes[editors[a].note].text
        BY <3>0 DEF NotesInv, CopiesAreVersions
      <3> QED
        BY <3>0, <3>1, <3>2
    <2>3. CASE UNCHANGED notes
      BY <2>3
    <2> QED
      BY <2>1, <2>2, <2>3 DEF NotesNext, NoteFindById, NoteListVersions, NoteRepoListVersions, ReceiveVersion, WriteDraft, NoteProbe, NoteUpdateMisses
  <1>2. NotesSpec => [][Seen]_notesVars
    BY <1>1, AlwaysNotes, PTL DEF NotesSpec
  <1> QED
    BY <1>2 DEF NothingUnseenIsOverwritten
=============================================================================
