-------------------------------- MODULE Notes --------------------------------
(***************************************************************************)
(* Notes with optimistic versions (packages/services/src/notes).  A save   *)
(* names the version it was written on; the UPDATE only matches while the  *)
(* note still has that version, and the row of note_versions goes into the *)
(* same transaction.  Editors work on the copy they last received, may be  *)
(* offline while they do, and repeat a save whose answer got lost.         *)
(***************************************************************************)
EXTENDS Integers, Actors

CONSTANTS
  NoteIds,      \* the identifiers newUlid may draw
  Drafts,       \* the texts editors write, each of them once
  Original,     \* the title and the body of a note when it is created
  MaxVersion    \* bound: saves stop here

ASSUME NotesAssumption ==
  /\ MaxVersion \in Nat \ {0}
  /\ Original \notin Drafts

VARIABLES
  notes,         \* the table notes, by id
  noteVersions,  \* the table note_versions
  editors,       \* what each client holds
  usedDrafts,    \* the drafts written so far
  saves          \* history: the saves that were committed

notesVars == <<notes, noteVersions, editors, usedDrafts, saves>>

Fields == {"title", "body"}
Texts  == Drafts \cup {Original}

NoteRow == [workspace : {a.workspace : a \in Actors}, version : 1..MaxVersion,
            text : [Fields -> Texts], status : {"none", "live", "deleted"}]

NoteVersionRow == [note : NoteIds, workspace : {a.workspace : a \in Actors},
                   version : 1..MaxVersion, text : [Fields -> Texts], editedBy : Actors]

(* A client: the copy it holds of a note, the draft it has written over it *)
(* and the fields the draft patches; it is "probing" while its transaction *)
(* stands between the UPDATE that matched nothing and the SELECT.          *)
Editor == [pc : {"away", "reading", "drafting", "probing"}, note : NoteIds, version : 1..MaxVersion,
           text : [Fields -> Texts], draft : Texts, fields : SUBSET Fields]

Save == [draft : Drafts, note : NoteIds, version : 1..MaxVersion]

NotesTypeOK ==
  /\ notes \in [NoteIds -> NoteRow]
  /\ noteVersions \subseteq NoteVersionRow
  /\ editors \in [Actors -> Editor]
  /\ usedDrafts \subseteq Drafts
  /\ saves \subseteq Save

NotesInit ==
  \E a \in Actors, n \in NoteIds :
    /\ notes = [m \in NoteIds |-> [workspace |-> a.workspace, version |-> 1,
                                  text |-> [f \in Fields |-> Original], status |-> "none"]]
    /\ noteVersions = {}
    /\ editors = [e \in Actors |-> [pc |-> "away", note |-> n, version |-> 1,
                                    text |-> [f \in Fields |-> Original], draft |-> Original, fields |-> {}]]
    /\ usedDrafts = {}
    /\ saves = {}

VersionsOf(n) == {v \in noteVersions : v.note = n}

(* What the statements name: the note in the caller's workspace, not deleted. *)
LiveFor(a, n) == notes[n].status = "live" /\ notes[n].workspace = a.workspace

(* A client stores the Note, or the NoteVersion, it was answered with.     *)
Receive(a, n, version, text) ==
  editors' = [editors EXCEPT ![a] =
    [@ EXCEPT !.pc = "reading", !.note = n, !.version = version, !.text = text]]

ReceiveVersion(a, v) == Receive(a, v.note, v.version, v.text)

-----------------------------------------------------------------------------
(* create: one INSERT; the version column starts at its default, 1, and    *)
(* note_versions gets no row.                                              *)
NoteRepoCreate(a, n) ==
  /\ notes[n].status = "none"
  /\ notes' = [notes EXCEPT ![n] = [@ EXCEPT !.workspace = a.workspace, !.status = "live"]]
  /\ Receive(a, n, notes[n].version, notes[n].text)
  /\ UNCHANGED <<noteVersions, usedDrafts, saves>>

NoteCreate(a, n) ==
  /\ MayAct(a, "note:create")
  /\ editors[a].pc \in {"away", "reading"}
  /\ NoteRepoCreate(a, n)

(* findById.                                                               *)
NoteFindById(a, n) ==
  /\ editors[a].pc \in {"away", "reading"}
  /\ LiveFor(a, n)
  /\ Receive(a, n, notes[n].version, notes[n].text)
  /\ UNCHANGED <<notes, noteVersions, usedDrafts, saves>>

(* listVersions: the newest row of the history comes first, of a deleted   *)
(* note too.                                                               *)
NoteRepoListVersions(a, n) ==
  /\ \E v \in VersionsOf(n) :
       /\ v.workspace = a.workspace
       /\ \A w \in VersionsOf(n) : w.workspace = a.workspace => w.version <= v.version
       /\ ReceiveVersion(a, v)
  /\ UNCHANGED <<notes, noteVersions, usedDrafts, saves>>

NoteListVersions(a, n) ==
  /\ AssertCapability(a, "note:read-version-history")
  /\ editors[a].pc \in {"away", "reading"}
  /\ NoteRepoListVersions(a, n)

(* A user writes a draft over the copy, for one field or both.             *)
WriteDraft(a, d, fields) ==
  /\ editors[a].pc = "reading"
  /\ d \notin usedDrafts
  /\ fields # {}
  /\ editors' = [editors EXCEPT ![a] =
       [@ EXCEPT !.pc = "drafting", !.draft = d, !.fields = fields]]
  /\ usedDrafts' = usedDrafts \cup {d}
  /\ UNCHANGED <<notes, noteVersions, saves>>

(* Mutant: the UPDATE without its version.                                 *)
MatchesAnyVersion(a, n, expectedVersion) == LiveFor(a, n)

(* The WHERE clause of the UPDATE.                                         *)
Matches(a, n, expectedVersion) == LiveFor(a, n) /\ notes[n].version = expectedVersion

(* COALESCE($4, title), COALESCE($5, body_md).                             *)
Patch(text, fields, draft) == [f \in Fields |-> IF f \in fields THEN draft ELSE text[f]]

(* Mutant: the history gets the version the save was written on.           *)
HistoryRowOfOldVersion(a, n, row) ==
  [note |-> n, workspace |-> row.workspace, version |-> row.version - 1, text |-> row.text, editedBy |-> a]

(* The row for note_versions repeats what the UPDATE returned.             *)
HistoryRow(a, n, row) ==
  [note |-> n, workspace |-> row.workspace, version |-> row.version, text |-> row.text, editedBy |-> a]

(* updateWithVersion, its UPDATE matching a row: the row and its history   *)
(* commit together.  An answer that is lost leaves the client as it was,   *)
(* with the same draft and the same expected version for the next try.     *)
UpdateWithVersion(a, answered) ==
  LET e   == editors[a]
      n   == e.note
      row == [notes[n] EXCEPT !.text = Patch(notes[n].text, e.fields, e.draft), !.version = @ + 1]
  IN  /\ Matches(a, n, e.version)
      /\ notes[n].version < MaxVersion
      /\ \A v \in VersionsOf(n) : v.version # row.version     \* uq_note_version
      /\ notes' = [notes EXCEPT ![n] = row]
      /\ noteVersions' = noteVersions \cup {HistoryRow(a, n, row)}
      /\ IF answered THEN Receive(a, n, row.version, row.text) ELSE UNCHANGED editors
      /\ saves' = saves \cup {[draft |-> e.draft, note |-> n, version |-> row.version]}
      /\ UNCHANGED usedDrafts

NoteUpdate(a, answered) ==
  /\ editors[a].pc = "drafting"
  /\ MayAct(a, "note:update")
  /\ UpdateWithVersion(a, answered)

(* updateWithVersion, its UPDATE matching nothing.                         *)
NoteUpdateMisses(a) ==
  /\ editors[a].pc = "drafting"
  /\ MayAct(a, "note:update")
  /\ ~Matches(a, editors[a].note, editors[a].version)
  /\ editors' = [editors EXCEPT ![a] = [@ EXCEPT !.pc = "probing"]]
  /\ UNCHANGED <<notes, noteVersions, usedDrafts, saves>>

(* ... then its SELECT, which sees what has been committed meanwhile:      *)
(* NOTE_VERSION_CONFLICT keeps the stale copy, NOTE_NOT_FOUND drops it; an *)
(* answer that is lost makes the client try again.                         *)
NoteProbe(a, answered) ==
  /\ editors[a].pc = "probing"
  /\ editors' = [editors EXCEPT ![a] = [@ EXCEPT !.pc =
       CASE ~answered -> "drafting"
         [] answered /\ LiveFor(a, editors[a].note) -> "reading"
         [] OTHER -> "away"]]
  /\ UNCHANGED <<notes, noteVersions, usedDrafts, saves>>

(* delete: one UPDATE ... WHERE is_deleted = false.                        *)
NoteRepoSoftDelete(a, n) ==
  /\ LiveFor(a, n)
  /\ notes' = [notes EXCEPT ![n] = [@ EXCEPT !.status = "deleted"]]
  /\ UNCHANGED <<noteVersions, editors, usedDrafts, saves>>

NoteDelete(a, n) == AssertCapability(a, "note:delete") /\ NoteRepoSoftDelete(a, n)

NotesNext ==
  \E a \in Actors :
    \/ \E n \in NoteIds :
         \/ NoteCreate(a, n)
         \/ NoteFindById(a, n)
         \/ NoteListVersions(a, n)
         \/ NoteDelete(a, n)
    \/ \E d \in Drafts, fields \in SUBSET Fields : WriteDraft(a, d, fields)
    \/ \E answered \in BOOLEAN : NoteUpdate(a, answered) \/ NoteProbe(a, answered)
    \/ NoteUpdateMisses(a)

NotesSpec == NotesInit /\ [][NotesNext]_notesVars

-----------------------------------------------------------------------------
(* The history is complete: a note at version v has exactly one row of     *)
(* note_versions for each of 2..v, and the newest says what the note says. *)
HistoryComplete ==
  \A n \in NoteIds :
    /\ {v.version : v \in VersionsOf(n)} = 2..notes[n].version
    /\ \A v, w \in VersionsOf(n) : v.version = w.version => v = w
    /\ \A v \in VersionsOf(n) : v.version = notes[n].version => v.text = notes[n].text

(* A save is applied at most once, however often the client repeats it     *)
(* because the answer was lost.                                            *)
AppliedAtMostOnce == \A s, t \in saves : s.draft = t.draft => s = t

(* No lost update: a note only changes by a save whose author, the one     *)
(* whose draft it now says, held the text it replaces, offline or not.     *)
NothingUnseenIsOverwritten ==
  [][\A n \in NoteIds : notes'[n].text # notes[n].text =>
       \E a \in Actors : LET e == editors[a]
                         IN  /\ e.pc = "drafting" /\ e.note = n
                             /\ notes'[n].text = Patch(notes[n].text, e.fields, e.draft)
                             /\ e.text = notes[n].text]_notesVars
=============================================================================
