---------------------------- MODULE EditorFile ----------------------------
(***************************************************************************)
(* One file and the editor (qmdiEditor) that shows it, through sessions:   *)
(* lazy loading, saving, automatic backups, the file watcher, closing,     *)
(* quitting, crashing and starting again.                                  *)
(*                                                                         *)
(* A save and a load let the event loop run while they are under way, so   *)
(* each is two steps, with a step of the formatter before a save that      *)
(* formats; timers and the user act in between.  Other programs may write,  *)
(* replace or delete the file at any time: also within the step that reads *)
(* or writes it, before that step watches it again.                        *)
(***************************************************************************)
EXTENDS Naturals

CONSTANTS
    Texts,      \* contents of a file
    Empty,      \* the empty content, of a file just truncated too
    Missing,    \* the file does not exist
    NoText,     \* no text
    Tidy,       \* Tidy[t]: t with trailing spaces trimmed as configured
    Uids,       \* names of backup files; bound: editors made in all sessions
    NoUid,      \* no name of a backup
    NoTab,      \* the settings hold no tab for the file
    Happens     \* the events of Events that occur

\* chmod: permissions change.  delete: other programs delete the file.
\* build: a build or a run saves every document.  script: the document is run as a
\* script.  hide: the tab may stay unshown.
Events == {"chmod", "delete", "build", "script", "hide"}

ASSUME FileAssumption ==
    /\ Empty \in Texts
    /\ {Missing, NoText} \cap Texts = {} /\ Missing # NoText
    /\ NoUid \notin Uids
    /\ NoTab \notin [uid : Uids \cup {NoUid}, readOnly : BOOLEAN]
    /\ Tidy \in [Texts -> Texts]
    /\ Happens \subseteq Events

VARIABLES
    disk,       \* content of the file
    writable,   \* the file can be opened for writing
    session,    \* state of the tab in the saved settings
    backups,    \* backups[u]: content of the file u.bak
    unused,     \* uids not drawn yet
    phase,      \* "off", "closed", "idle", "loading", "formatting", "saving"
    buffer, modified, readOnly,
    loaded,     \* documentHasBeenLoaded
    uid,
    saved,      \* savedState
    lookup,     \* fileModifications
    resume,     \* modificationsEnabledState of the load or save under way
    useBackup,  \* argument of the load under way
    input,      \* what the formatter was given
    closing,    \* the save under way answers for the closing of the tab; these four
                \* are locals of handlers, and at rest when none is under way
    watching,   \* the file is in fileSystemWatcher
    notified,   \* a fileChanged signal is on its way
    changed,    \* fileChangedTimer is active
    autosave,   \* autoSaveTimer is active
    banner,     \* the user was told that the file changed outside
    slipped,    \* auxiliary: the file changed between its reading or writing and
                \* the watch, or a write failed, and nothing was reported since
    loading,    \* loadingTimer: "none", "active", "fired"
    base,       \* auxiliary: what the editor last read or wrote of the file
    owed        \* auxiliary: what the next load has to show

diskVars    == <<disk, writable, session, backups, unused>>
textVars    == <<buffer, modified, base>>
tabVars     == <<readOnly, loaded, uid, saved>>
busyVars    == <<resume, useBackup, input, closing>>
watchVars   == <<lookup, watching, notified, changed, banner, slipped>>
timerVars   == <<autosave, loading>>
vars == <<diskVars, phase, textVars, tabVars, busyVars, watchVars, timerVars, owed>>

\* What other programs may make of the file, or a write that fails.
Contents == Texts \cup (IF "delete" \in Happens THEN {Missing} ELSE {})

TabState == [uid : Uids \cup {NoUid}, readOnly : BOOLEAN]
NewTab   == [uid |-> NoUid, readOnly |-> FALSE]
On       == phase \notin {"off", "closed"}

\* getState()
State == [uid |-> uid, readOnly |-> readOnly]

\* No load and no save is under way any more.
LocalsGone == resume' = TRUE /\ useBackup' = FALSE /\ input' = NoText /\ closing' = FALSE

\* No editor.
NoEditor ==
    /\ buffer' = Empty /\ modified' = FALSE /\ base' = NoText
    /\ readOnly' = FALSE /\ loaded' = FALSE /\ uid' = NoUid /\ saved' = NewTab
    /\ LocalsGone
    /\ lookup' = TRUE /\ watching' = FALSE /\ notified' = FALSE
    /\ changed' = FALSE /\ banner' = FALSE /\ slipped' = FALSE
    /\ autosave' = FALSE /\ loading' = "none"

\* A new editor, its file named but not read, with the saved state st.
NewEditor(st) ==
    /\ \E u \in unused : uid' = u /\ unused' = unused \ {u}
    /\ phase' = "idle"
    /\ buffer' = Empty /\ modified' = FALSE /\ base' = NoText
    /\ readOnly' = FALSE /\ loaded' = FALSE /\ saved' = st
    /\ LocalsGone
    /\ lookup' = TRUE /\ watching' = FALSE /\ notified' = FALSE
    /\ changed' = FALSE /\ banner' = FALSE /\ slipped' = FALSE
    /\ autosave' = FALSE /\ loading' = "none"

Init ==
    /\ disk \in Texts \ {Empty} /\ writable = TRUE
    /\ session = NoTab
    /\ backups = [u \in Uids |-> NoText]
    /\ unused = Uids
    /\ phase = "closed" /\ owed = NoText
    /\ buffer = Empty /\ modified = FALSE /\ base = NoText
    /\ readOnly = FALSE /\ loaded = FALSE /\ uid = NoUid /\ saved = NewTab
    /\ resume = TRUE /\ useBackup = FALSE /\ input = NoText /\ closing = FALSE
    /\ lookup = TRUE /\ watching = FALSE /\ notified = FALSE
    /\ changed = FALSE /\ banner = FALSE /\ slipped = FALSE
    /\ autosave = FALSE /\ loading = "none"

-----------------------------------------------------------------------------
(* Opening, showing and loading.                                           *)

OpenTab ==
    /\ phase = "closed"
    /\ NewEditor(NewTab)
    /\ UNCHANGED <<disk, writable, session, backups, owed>>

\* The tab is shown: the content is loaded 50 ms later, unless it was hidden.
TabSelected ==
    /\ On /\ loading = "none" /\ loading' = "active"
    /\ UNCHANGED <<diskVars, phase, textVars, tabVars, busyVars, watchVars, autosave, owed>>

TabDeselected ==
    /\ On /\ loading = "active" /\ loading' = "none"
    /\ UNCHANGED <<diskVars, phase, textVars, tabVars, busyVars, watchVars, autosave, owed>>

\* loadContent() of an editor whose content is not loaded, up to the point at
\* which it lets the event loop run.
BeginLoad(backup) ==
    /\ phase = "idle" /\ phase' = "loading"
    /\ loaded' = FALSE /\ readOnly' = FALSE
    /\ resume' = lookup /\ lookup' = FALSE /\ watching' = FALSE /\ banner' = FALSE
    /\ useBackup' = backup
    /\ UNCHANGED slipped

LoadingTimer ==
    /\ loading = "active" /\ loading' = "fired"
    /\ IF loaded THEN UNCHANGED <<phase, loaded, readOnly, resume, lookup, watching, banner,
                                  slipped, useBackup>>
                 ELSE BeginLoad(TRUE)
    /\ UNCHANGED <<diskVars, textVars, uid, saved, input, closing, notified, changed, autosave, owed>>

\* Navigation to the file (a search result, a link, a server's answer).
NavigateTo ==
    /\ ~loaded /\ BeginLoad(TRUE)
    /\ UNCHANGED <<diskVars, textVars, uid, saved, input, closing, notified, changed,
                   timerVars, owed>>

\* reload(): what was typed since the last load or save is dropped.
Reload ==
    /\ BeginLoad(FALSE)
    /\ UNCHANGED <<diskVars, textVars, uid, saved, input, closing, notified,
                   timerVars>>

\* The reload link of the banner, or reloadClientContent() answered with yes.
AskReload ==
    /\ phase = "idle" /\ (banner \/ (modified /\ ~readOnly))
    /\ Reload
    /\ owed' = NoText
    /\ UNCHANGED changed

\* Faulty variant: what was typed while the file was being read is kept.
FinishLoadKeepingTyped ==
    /\ phase = "loading" /\ phase' = "idle"
    /\ disk # Missing
    /\ buffer' = IF modified THEN buffer ELSE disk
    /\ base' = disk /\ modified' = FALSE /\ loaded' = TRUE
    /\ lookup' = resume /\ watching' = resume /\ LocalsGone
    /\ UNCHANGED <<diskVars, readOnly, uid, saved, notified, changed, banner, slipped,
                   timerVars, owed>>

\* Faulty variant: whether the file could be opened is not looked at.
FinishLoadUnchecked ==
    /\ phase = "loading" /\ phase' = "idle"
    /\ buffer' = disk /\ base' = disk /\ modified' = FALSE /\ loaded' = TRUE
    /\ lookup' = resume /\ watching' = resume /\ LocalsGone
    /\ UNCHANGED <<diskVars, readOnly, uid, saved, notified, changed, banner, slipped,
                   timerVars, owed>>

\* Faulty variant: the watch is not started again.
FinishLoadUnwatched ==
    /\ phase = "loading" /\ phase' = "idle"
    /\ disk # Missing
    /\ buffer' = disk /\ base' = disk /\ modified' = FALSE /\ loaded' = TRUE
    /\ lookup' = resume /\ LocalsGone
    /\ UNCHANGED <<diskVars, readOnly, uid, saved, watching, notified, changed, banner,
                   slipped, timerVars, owed>>

\* The rest of loadContent().  A load that cannot open the file stops there.  The
\* file is looked at three times: it is read, then its permissions are, then it is
\* watched again.  By then it may be another, and nobody is told.  setState() comes
\* last, and takes the read-only flag of the saved state.
FinishLoad ==
    LET name == IF useBackup /\ saved.uid # NoUid THEN saved.uid ELSE uid
        back == useBackup /\ saved.uid # NoUid /\ backups[name] # NoText
    IN  /\ phase = "loading" /\ phase' = "idle"
        /\ IF back \/ disk # Missing
           THEN /\ buffer' = IF back THEN backups[name] ELSE disk
                /\ modified' = back
                /\ base' = IF back THEN NoText ELSE disk
                /\ disk' \in Contents /\ slipped' = (disk' # disk)
                /\ readOnly' \in IF saved.uid # NoUid THEN {saved.readOnly}
                      ELSE {found # Missing /\ ~writable : found \in {disk, disk'}}
                /\ loaded' = TRUE
                /\ uid' = IF saved.uid # NoUid THEN saved.uid ELSE uid
                /\ lookup' = resume /\ watching' = (resume /\ disk' # Missing)
           ELSE /\ uid' = name
                /\ UNCHANGED <<disk, textVars, readOnly, loaded, lookup, watching, slipped>>
        /\ LocalsGone
        /\ UNCHANGED <<writable, session, backups, unused, saved, notified, changed, banner,
                       timerVars, owed>>

-----------------------------------------------------------------------------
(* Editing and backups.                                                    *)

\* While the file is being loaded or saved as well.
Type(t) ==
    /\ On /\ ~readOnly /\ t # buffer
    /\ buffer' = t /\ modified' = TRUE /\ autosave' = TRUE
    /\ owed' = NoText
    /\ UNCHANGED <<diskVars, phase, base, tabVars, busyVars, watchVars, loading>>

\* Undo as far as the state last loaded or saved.
Undo ==
    /\ On /\ ~readOnly /\ modified /\ base # NoText
    /\ buffer' = base /\ modified' = FALSE /\ autosave' = TRUE
    /\ owed' = NoText
    /\ UNCHANGED <<diskVars, phase, base, tabVars, busyVars, watchVars, loading>>

SaveBackup   == [backups EXCEPT ![uid] = buffer]
DeleteBackup == [backups EXCEPT ![uid] = NoText]

\* Faulty variant: only the first text since the last save is backed up.
AutoSaveOnce ==
    /\ autosave /\ autosave' = FALSE
    /\ backups' = IF modified /\ backups[uid] = NoText THEN SaveBackup ELSE backups
    /\ UNCHANGED <<disk, writable, session, unused, phase, textVars, tabVars, busyVars,
                   watchVars, loading, owed>>

AutoSave ==
    /\ autosave /\ autosave' = FALSE
    /\ backups' = IF modified THEN SaveBackup ELSE backups
    /\ UNCHANGED <<disk, writable, session, unused, phase, textVars, tabVars, busyVars,
                   watchVars, loading, owed>>

-----------------------------------------------------------------------------
(* Saving.                                                                 *)

\* The opening of the file for writing, which truncates it.  A save that
\* cannot open it stops there, the watch still off.
OpenForWriting ==
    IF writable
    THEN /\ phase' = "saving" /\ disk' = Empty
         /\ input' = NoText /\ UNCHANGED <<resume, useBackup, closing>>
    ELSE phase' = "idle" /\ UNCHANGED disk /\ LocalsGone

\* saveFile(), up to the point at which it lets the event loop run: formatting
\* if so configured, else the opening.  bak is what is left of the backups.
BeginSave(format, bak, close) ==
    /\ phase = "idle" /\ loaded
    /\ lookup' = FALSE /\ watching' = FALSE /\ banner' = FALSE
    /\ backups' = bak
    /\ IF format \/ writable
       THEN /\ resume' = lookup /\ closing' = close
            /\ IF format THEN phase' = "formatting" /\ input' = buffer /\ UNCHANGED disk
                         ELSE phase' = "saving" /\ disk' = Empty /\ UNCHANGED input
       ELSE UNCHANGED <<phase, disk, resume, input, closing>>
    /\ UNCHANGED <<writable, session, unused, textVars, tabVars, useBackup, notified,
                   changed, slipped, timerVars>>

\* Faulty variant: the backup is deleted when the save starts.
SaveWithoutNet(format) ==
    /\ BeginSave(format, DeleteBackup, FALSE)
    /\ owed' = NoText

\* doSave() of the action; with no content loaded it does nothing.
Save(format) ==
    /\ BeginSave(format, backups, FALSE)
    /\ owed' = NoText

\* saveClientContent(), for a build or a run.
SaveClientContent(format) ==
    /\ "build" \in Happens
    /\ ~readOnly /\ modified
    /\ \/ BeginSave(format, DeleteBackup, FALSE)
       \/ /\ phase = "idle" /\ ~loaded
          /\ backups' = DeleteBackup
          /\ UNCHANGED <<disk, writable, session, unused, phase, textVars, tabVars,
                         busyVars, watchVars, timerVars>>
    /\ owed' = NoText

\* Faulty variant: the formatted text replaces what was typed meanwhile.
FormatterReturnsAnyway(t) ==
    /\ phase = "formatting"
    /\ buffer' = t /\ modified' = TRUE
    /\ OpenForWriting
    /\ UNCHANGED <<writable, session, backups, unused, base, tabVars, watchVars,
                   timerVars, owed>>

\* The formatter returns t for input (or fails, t = input): it is applied when
\* the text has not moved on, and the save goes on.
FormatterReturns(t) ==
    /\ phase = "formatting"
    /\ IF buffer = input /\ t # input
       THEN buffer' = t /\ modified' = TRUE /\ autosave' = TRUE
       ELSE UNCHANGED <<buffer, modified, autosave>>
    /\ OpenForWriting
    /\ UNCHANGED <<writable, session, backups, unused, base, tabVars, watchVars,
                   loading, owed>>

\* The rest of saveFile(): write, watch, back up, and no longer modified.  Whether
\* the write succeeded is not looked at, and what others make of the file between
\* its opening and the watch goes unseen: whatever is there, it passes for text.
FinishSave ==
    LET text == Tidy[buffer]
    IN  /\ phase = "saving"
        /\ disk' \in Contents
        /\ backups' = [backups EXCEPT ![uid] = text]
        /\ IF closing
           THEN phase' = "closed" /\ NoEditor
           ELSE /\ phase' = "idle"
                /\ buffer' = text /\ modified' = FALSE /\ base' = text
                /\ autosave' = (autosave \/ text # buffer)
                /\ lookup' = resume /\ watching' = (disk' # Missing)
                /\ slipped' = (disk' # text)
                /\ LocalsGone
                /\ UNCHANGED <<tabVars, notified, changed, banner, loading>>
        /\ UNCHANGED <<writable, session, unused, owed>>

-----------------------------------------------------------------------------
(* Closing and sessions.                                                   *)

Close(bak) ==
    /\ phase' = "closed" /\ NoEditor
    /\ backups' = bak
    /\ owed' = NoText
    /\ UNCHANGED <<disk, writable, session, unused>>

\* canCloseClient(CloseTab), answered with yes or no where it asks.
CloseTab ==
    /\ phase = "idle"
    /\ \/ Close(IF readOnly THEN SaveBackup ELSE DeleteBackup)
       \/ /\ ~readOnly /\ modified
          /\ IF loaded
             THEN \E format \in BOOLEAN : BeginSave(format, backups, TRUE) /\ owed' = NoText
             ELSE Close(backups)

\* The editor's script is run, if canCloseClient(CloseTab) agrees; the tab stays.
\* Here the user declines to save what is modified; agreeing is Save.
RunScript ==
    /\ "script" \in Happens /\ phase = "idle"
    /\ backups' = IF readOnly THEN SaveBackup ELSE DeleteBackup
    /\ owed' = NoText
    /\ UNCHANGED <<disk, writable, session, unused, phase, textVars, tabVars, busyVars,
                   watchVars, timerVars>>

Shown == "hide" \in Happens \/ loaded

\* canCloseClient(ApplicationQuit) and the saving of the settings.
Quit ==
    /\ phase \in {"closed", "idle"} /\ phase' = "off"
    /\ IF phase = "idle"
       THEN /\ Shown
            /\ session' = State
            /\ backups' = IF readOnly \/ modified THEN SaveBackup ELSE DeleteBackup
            /\ owed' = IF modified THEN buffer ELSE IF loaded THEN NoText ELSE owed
       ELSE session' = NoTab /\ UNCHANGED <<backups, owed>>
    /\ NoEditor
    /\ UNCHANGED <<disk, writable, unused>>

\* Many commands save the settings while the editor is at work.
SaveSettings ==
    /\ phase \in {"closed", "idle"}
    /\ IF phase = "idle" THEN Shown /\ session' = State ELSE session' = NoTab
    /\ UNCHANGED <<disk, writable, backups, unused, phase, textVars, tabVars, busyVars,
                   watchVars, timerVars, owed>>

\* The text is in the backup that the settings name, where no command deletes
\* the backups of tabs that stay.
BackedUp ==
    /\ {"build", "script"} \cap Happens = {}
    /\ On /\ loaded /\ modified /\ ~autosave
    /\ session # NoTab /\ session.uid = uid

\* The file is written, or in part, before the save is done.
Crash ==
    /\ phase # "off" /\ phase' = "off"
    /\ NoEditor
    /\ IF phase = "saving" THEN disk' \in Contents ELSE UNCHANGED disk
    /\ owed' = IF BackedUp THEN buffer ELSE IF modified \/ loaded THEN NoText ELSE owed
    /\ UNCHANGED <<writable, session, backups, unused>>

Start ==
    /\ phase = "off"
    /\ IF session = NoTab
       THEN phase' = "closed" /\ UNCHANGED <<unused, textVars, tabVars, busyVars,
                                             watchVars, timerVars>>
       ELSE NewEditor(session)
    /\ UNCHANGED <<disk, writable, session, backups, owed>>

-----------------------------------------------------------------------------
(* Other programs, and the watcher that reports what they do.              *)

\* The file is written in place: it is still the watched one.
WriteOutside(t) ==
    /\ disk # Missing /\ t # disk
    /\ disk' = t
    /\ notified' = (notified \/ watching) /\ slipped' = (slipped /\ ~watching)
    /\ UNCHANGED <<writable, session, backups, unused, phase, textVars, tabVars, busyVars,
                   lookup, watching, changed, banner, timerVars, owed>>

\* The file is renamed over, made anew or deleted: the watch goes with the old one.
ReplaceOutside(t) ==
    /\ t # disk
    /\ disk' = t
    /\ notified' = (notified \/ watching) /\ slipped' = (slipped /\ ~watching)
    /\ watching' = FALSE
    /\ UNCHANGED <<writable, session, backups, unused, phase, textVars, tabVars, busyVars,
                   lookup, changed, banner, timerVars, owed>>

ChangeMode ==
    /\ "chmod" \in Happens /\ writable' = ~writable
    /\ UNCHANGED <<disk, session, backups, unused, phase, textVars, tabVars, busyVars,
                   watchVars, timerVars, owed>>

\* Faulty variant: what happens to a modified text's file is not looked at.
FileChangedIfQuiet ==
    /\ notified /\ notified' = FALSE
    /\ changed' = (lookup /\ ~modified)
    /\ UNCHANGED <<diskVars, phase, textVars, tabVars, busyVars, lookup, watching, banner,
                   slipped, timerVars, owed>>

\* on_fileChanged()
FileChanged ==
    /\ notified /\ notified' = FALSE
    /\ changed' = (changed \/ lookup)
    /\ UNCHANGED <<diskVars, phase, textVars, tabVars, busyVars, lookup, watching, banner,
                   slipped, timerVars, owed>>

\* fileChangedTimer: an unmodified text is reloaded, else the user is told.
FileChangedTimer ==
    /\ changed /\ changed' = FALSE
    /\ IF lookup /\ ~modified
       THEN Reload /\ UNCHANGED owed
       ELSE /\ banner' = (banner \/ lookup)
            /\ UNCHANGED <<diskVars, phase, textVars, tabVars, busyVars, lookup, watching,
                           notified, slipped, timerVars, owed>>

-----------------------------------------------------------------------------
Next ==
    \/ OpenTab \/ TabSelected \/ TabDeselected \/ LoadingTimer \/ NavigateTo
    \/ AskReload \/ FinishLoad
    \/ \E t \in Texts : Type(t) \/ FormatterReturns(t) \/ WriteOutside(t)
    \/ \E t \in Contents : ReplaceOutside(t)
    \/ Undo \/ AutoSave
    \/ \E format \in BOOLEAN : Save(format) \/ SaveClientContent(format)
    \/ FinishSave
    \/ CloseTab \/ RunScript \/ Quit \/ SaveSettings \/ Crash \/ Start
    \/ ChangeMode \/ FileChanged \/ FileChangedTimer

Spec == Init /\ [][Next]_vars

\* The event loop delivers signals and timers and resumes what it interrupted;
\* the formatter returns.
FairSpec ==
    /\ Spec
    /\ WF_vars(FileChanged) /\ WF_vars(FileChangedTimer)
    /\ WF_vars(FinishLoad) /\ WF_vars(FinishSave)
    /\ WF_vars(\E t \in Texts : FormatterReturns(t))

-----------------------------------------------------------------------------
DataOK ==
    /\ disk \in Texts \cup {Missing}
    /\ backups \in [Uids -> Texts \cup {NoText}]
    /\ unused \subseteq Uids
    /\ phase \in {"off", "closed", "idle", "loading", "formatting", "saving"}
    /\ buffer \in Texts /\ base \in Texts \cup {NoText}
    /\ uid \in Uids \cup {NoUid}
    /\ input \in Texts \cup {NoText}
    /\ loading \in {"none", "active", "fired"}
    /\ owed \in Texts \cup {NoText}

FlagsOK ==
    /\ writable \in BOOLEAN /\ modified \in BOOLEAN /\ readOnly \in BOOLEAN
    /\ loaded \in BOOLEAN /\ autosave \in BOOLEAN
    /\ resume \in BOOLEAN /\ useBackup \in BOOLEAN /\ closing \in BOOLEAN

WatchOK ==
    /\ lookup \in BOOLEAN /\ watching \in BOOLEAN /\ slipped \in BOOLEAN
    /\ notified \in BOOLEAN /\ changed \in BOOLEAN /\ banner \in BOOLEAN

TypeOK ==
    /\ DataOK /\ FlagsOK /\ WatchOK
    /\ session \in TabState \cup {NoTab} /\ saved \in TabState

\* An editor at rest that shows its file as unmodified shows what it last read
\* from the file or wrote to it: nothing typed while a load, a formatter or a
\* save is under way passes for saved.
UnmodifiedIsTheFile ==
    phase = "idle" /\ loaded /\ ~modified => buffer = base

\* A file that was changed by another program since the editor last read or
\* wrote it is about to be looked at, or the user was told.  Only a change between
\* the reading or the writing of the file and the watch on it goes unnoticed, until
\* the next change.
ChangesAreNoticed ==
    phase = "idle" /\ loaded /\ lookup /\ base # NoText /\ disk # base /\ ~slipped
        => notified \/ changed \/ banner

\* Text that was changed, and not backed up by the auto-save timer.
Unbacked == On /\ loaded /\ modified /\ ~autosave /\ backups[uid] # buffer

\* Modified text is in its backup once the auto-save timer has fired, and stays
\* there: only a build, a run, or the running of the script takes that away.
EditsAreBackedUp ==
    [][~Unbacked /\ Unbacked'
        => RunScript \/ \E format \in BOOLEAN : SaveClientContent(format)]_vars

\* README.md: modified files are restored on next app start.  That is, the text
\* left unsaved by a quit, or by a crash after the auto-save timer fired, in the
\* middle of a save as well, is what the editor shows once it has loaded.
EditsSurvive ==
    phase = "idle" /\ loaded /\ owed \in Texts => buffer = owed

\* A formatter's result never replaces text typed after it was asked.
FormattingKeepsEdits ==
    [][phase = "formatting" /\ phase' # "formatting" /\ phase' # "off" /\ buffer # input
        => buffer' = buffer]_vars

\* What other programs write is shown in an editor with nothing unsaved, or
\* reported, unless it slips in before the watch, or a load or save that could not
\* open the file has left the editor not looking.
ChangesAreShown ==
    (phase = "idle" /\ loaded /\ lookup /\ ~modified /\ disk # base /\ ~slipped)
        ~> (\/ base = disk \/ slipped \/ modified \/ banner \/ ~On
            \/ phase = "idle" /\ ~lookup)
=============================================================================
