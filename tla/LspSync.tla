------------------------------ MODULE LspSync ------------------------------
(***************************************************************************)
(* How LspPlugin keeps language servers informed of the open documents.    *)
(*                                                                         *)
(* The GUI thread runs one step at a time: an editor signal, a project     *)
(* command, a timer, or a task posted for later.  Between two such steps   *)
(* the reader thread of a client finishes the handshake or delivers a      *)
(* reply, and a server process may exit.  What the plugin writes to one    *)
(* server arrives in order, so sent[r][f] is both the last text written    *)
(* for f and the text on which the server bases its next answer about f.   *)
(*                                                                         *)
(* The files are those of one server definition, so a project root has at  *)
(* most one server.                                                        *)
(***************************************************************************)
EXTENDS Naturals, FiniteSets

CONSTANTS
    Files,          \* source files of one server definition
    Roots,          \* source directories of projects
    Encl,           \* Encl[f]: the roots whose directory contains f
    Depth,          \* Depth[r]: the length of the root's path
    Removable,      \* roots of the projects that may be removed
    Texts,          \* contents of a document
    Empty,          \* the empty content
    NoDoc,          \* a server was not told of the document
    NoRoot,         \* no server for a file
    StartOutcomes,  \* what a start can lead to before the handler goes on
    MaxTabs,        \* bound: tabs open at once
    MaxTasks,       \* bound: posted tasks of one kind
    MaxRequests     \* bound: unanswered requests

ASSUME SyncAssumption ==
    /\ Encl \in [Files -> SUBSET Roots]
    /\ Depth \in [Roots -> Nat]
    /\ Removable \subseteq Roots
    /\ Empty \in Texts
    /\ NoDoc \notin Texts
    /\ NoRoot \notin Roots
    /\ StartOutcomes \subseteq {"none", "starting", "unheard"}
    /\ StartOutcomes # {}

\* Some root is the innermost: the paths above a file are finitely many.
ASSUME NestingAssumption ==
    \A f \in Files : \A S \in SUBSET Encl[f] :
        S # {} => \E r \in S : \A q \in S : Depth[q] <= Depth[r]

VARIABLES
    open,       \* files with an editor
    buffer,     \* buffer[f]: content of the editor of f
    exclusive,  \* files whose editor completes from the server only
    watched,    \* watchedEditors
    dirty,      \* dirtyDocuments
    timer,      \* documentSyncTimer is active
    projects,   \* keys of projectRoots
    status,     \* status[r]: the client of r in servers, and its process
    sent,       \* sent[r][f]: what the server of r was told about f
    synced,     \* SyncedContent: Empty also when nothing is recorded
    tasks,      \* tasks posted to the GUI thread, counted by kind
    requests    \* positional requests waiting for their answer

editorVars  == <<open, buffer, exclusive>>
pushVars    == <<watched, dirty, sent, synced>>
serverVars  == <<projects, status>>
vars == <<editorVars, pushVars, serverVars, timer, tasks, requests>>

TaskKinds == {"ready", "added", "reconcile"}

\* unheard: m_ready was set, as in ready, but before the callback that announces
\* it was there.
Statuses  == {"none", "starting", "failed", "unheard", "ready", "dead"}
Request   == [file : Files, root : Roots, content : Texts, held : Texts \cup {NoDoc}]

-----------------------------------------------------------------------------
(* Which server owns a file.                                               *)

\* The deepest root of S: roots above one file are prefixes of its path.
Innermost(S) == CHOOSE r \in S : \A q \in S : Depth[q] <= Depth[r]

\* m_ready, which stays set when the server process has gone.
IsReady(st, r) == st[r] \in {"unheard", "ready", "dead"}

\* serverForFile(): the innermost root that has a client, if that is ready.
ServerForFile(st, f) ==
    LET having == {r \in Encl[f] : st[r] # "none"}
    IN  IF having # {} /\ IsReady(st, Innermost(having))
        THEN Innermost(having) ELSE NoRoot

\* ensureServerForFile() for every open file: the roots that need a client.
RootsToStart(prj, st) ==
    {r \in Roots : /\ st[r] = "none"
                   /\ \E f \in open : /\ Encl[f] \cap prj # {}
                                      /\ r = Innermost(Encl[f] \cap prj)}

NoDocuments == [r \in Roots |-> [f \in Files |-> NoDoc]]

Init ==
    /\ open = {} /\ exclusive = {}
    /\ buffer = [f \in Files |-> Empty]
    /\ watched = {} /\ dirty = {}
    /\ timer = FALSE
    /\ projects = {}
    /\ status = [r \in Roots |-> "none"]
    /\ sent = NoDocuments
    /\ synced = [f \in Files |-> Empty]
    /\ tasks = [k \in TaskKinds |-> 0]
    /\ requests = {}

-----------------------------------------------------------------------------
(* Steps shared by the handlers.                                           *)

Post(k) == [tasks EXCEPT ![k] = @ + 1]
Take(k) == tasks[k] > 0 /\ tasks' = [tasks EXCEPT ![k] = @ - 1]

\* What the servers are told when each file of F has its text[f] pushed.
Told(F, st, text, base) ==
    [r \in Roots |-> [f \in Files |->
        IF f \in F /\ ServerForFile(st, f) = r THEN text[f] ELSE base[r][f]]]

\* Faulty variant: the record is replaced by what was pushed.
RecordedAfresh(F, text, base) == [f \in F |-> text[f]]

\* The record after the files of F have been pushed.
Recorded(F, text, base) ==
    [f \in Files |-> IF f \in F THEN text[f] ELSE base[f]]

\* syncOpenDocuments(), from the clients st, documents docs and record rec.
SyncOpenDocuments(prj, st, docs, rec) ==
    \E up \in [RootsToStart(prj, st) -> StartOutcomes] :
        LET now  == [r \in Roots |-> IF r \in RootsToStart(prj, st)
                                     THEN up[r] ELSE st[r]]
            told == {f \in open : /\ buffer[f] # Empty
                                  /\ ServerForFile(now, f) # NoRoot}
        IN  /\ status' = now
            /\ sent' = Told(told, now, buffer, docs)
            /\ synced' = Recorded(told, buffer, rec)
            /\ watched' = watched \cup told
            /\ dirty' = dirty \ told

UpdateEditorCompletionMode ==
    exclusive' = {f \in open : ServerForFile(status, f) # NoRoot}

\* stopAllServers(): every client is destroyed, which cancels what it owes.
StopAllServers(prj) ==
    /\ SyncOpenDocuments(prj, [r \in Roots |-> "none"], NoDocuments,
                         [f \in Files |-> Empty])
    /\ requests' = {}

-----------------------------------------------------------------------------
(* The editors.                                                            *)

\* A tab is added, its content still to be loaded.
OpenTab(f) ==
    /\ f \notin open /\ Cardinality(open) < MaxTabs
    /\ tasks["added"] < MaxTasks
    /\ open' = open \cup {f}
    /\ tasks' = Post("added")
    /\ UNCHANGED <<buffer, exclusive, pushVars, serverVars, timer, requests>>

\* loadContent(), first load or reload: the editor's signals are blocked, but a
\* completed load has ProjectManager emit newClientAdded for the editor.
LoadContent(f, t) ==
    /\ f \in open
    /\ tasks["added"] < MaxTasks
    /\ buffer' = [buffer EXCEPT ![f] = t]
    /\ tasks' = Post("added")
    /\ UNCHANGED <<open, exclusive, pushVars, serverVars, timer, requests>>

\* Faulty variant: the debounce timer is not started.
EditWithoutTimer(f, t) ==
    /\ f \in open /\ t # buffer[f]
    /\ buffer' = [buffer EXCEPT ![f] = t]
    /\ dirty' = IF f \in watched THEN dirty \cup {f} ELSE dirty
    /\ UNCHANGED <<open, exclusive, watched, sent, synced, serverVars,
                   timer, tasks, requests>>

\* The user types: contentChanged reaches the plugin for watched editors.
Edit(f, t) ==
    /\ f \in open /\ t # buffer[f]
    /\ buffer' = [buffer EXCEPT ![f] = t]
    /\ IF f \in watched THEN dirty' = dirty \cup {f} /\ timer' = TRUE
                        ELSE UNCHANGED <<dirty, timer>>
    /\ UNCHANGED <<open, exclusive, watched, sent, synced, serverVars,
                   tasks, requests>>

\* The editor is destroyed; only a watched one reports it.
CloseTab(f) ==
    /\ f \in open
    /\ tasks["reconcile"] < MaxTasks
    /\ open' = open \ {f} /\ exclusive' = exclusive \ {f}
    /\ buffer' = [buffer EXCEPT ![f] = Empty]
    /\ watched' = watched \ {f}
    /\ tasks' = IF f \in watched THEN Post("reconcile") ELSE tasks
    /\ UNCHANGED <<dirty, sent, synced, serverVars, timer, requests>>

\* applyTextEdits(): F are the files of the edits, new the contents of those
\* whose edits were accepted; a file without an editor is rewritten on disk.
ApplyTextEdits(F, new) ==
    LET pushed == {f \in DOMAIN new \ open : ServerForFile(status, f) # NoRoot}
    IN  /\ F # {}
        /\ buffer' = Recorded(DOMAIN new \cap open, new, buffer)
        /\ sent' = Told(pushed, status, new, sent)
        /\ synced' = Recorded(pushed, new, synced)
        /\ dirty' = dirty \cup F
        /\ timer' = TRUE
        /\ UNCHANGED <<open, exclusive, watched, serverVars, tasks, requests>>

-----------------------------------------------------------------------------
(* Timers and posted tasks.                                                *)

\* flushDirtyDocuments(): a push that fails is not retried.
FlushDirtyDocuments ==
    LET pushed == {f \in dirty \cap open : ServerForFile(status, f) # NoRoot}
    IN  /\ timer
        /\ timer' = FALSE
        /\ dirty' = {}
        /\ sent' = Told(pushed, status, buffer, sent)
        /\ synced' = Recorded(pushed, buffer, synced)
        /\ UNCHANGED <<editorVars, watched, serverVars, tasks, requests>>

\* Faulty variant: what a new server changes for the editors is left to the next tab.
AnnounceQuietly(k) ==
    /\ Take(k)
    /\ IF k = "added" THEN UpdateEditorCompletionMode ELSE UNCHANGED exclusive
    /\ SyncOpenDocuments(projects, status, sent, synced)
    /\ UNCHANGED <<open, buffer, projects, timer, requests>>

\* The slots of serverReady (k = "ready") and the deferred half of
\* newClientAdded (k = "added") do the same two calls.
AnnounceTask(k) ==
    /\ Take(k)
    /\ UpdateEditorCompletionMode
    /\ SyncOpenDocuments(projects, status, sent, synced)
    /\ UNCHANGED <<open, buffer, projects, timer, requests>>

ServerReadyTask   == AnnounceTask("ready")
ClientAddedTask   == AnnounceTask("added")

\* Faulty variant: documents are closed, the record is not told.
ReconcileKeepingRecord ==
    /\ Take("reconcile")
    /\ sent' = [r \in Roots |-> [f \in Files |-> IF f \in open THEN sent[r][f] ELSE NoDoc]]
    /\ UNCHANGED <<editorVars, watched, dirty, synced, serverVars, timer, requests>>

\* reconcileOpenDocuments(): didClose for what has no editor any more.
ReconcileOpenDocuments ==
    LET gone == {f \in Files \ open : \E r \in Roots : sent[r][f] # NoDoc}
    IN  /\ Take("reconcile")
        /\ sent' = [r \in Roots |-> [f \in Files |->
                        IF f \in gone THEN NoDoc ELSE sent[r][f]]]
        /\ synced' = Recorded(gone, [f \in Files |-> Empty], synced)
        /\ UNCHANGED <<editorVars, watched, dirty, serverVars, timer, requests>>

-----------------------------------------------------------------------------
(* Project commands and configuration.                                     *)

ProjectLoaded(r) ==
    /\ projects' = projects \cup {r}
    /\ SyncOpenDocuments(projects', status, sent, synced)
    /\ UNCHANGED <<editorVars, timer, tasks, requests>>

ProjectConfigChanged(r) ==
    /\ projects' = projects \cup {r}
    /\ StopAllServers(projects')
    /\ UNCHANGED <<editorVars, timer, tasks>>

\* configurationHasBeenModified(), and a reload of a definitions file.
ConfigurationModified ==
    /\ StopAllServers(projects)
    /\ UNCHANGED <<editorVars, projects, timer, tasks>>

\* Faulty variant: the servers of the other projects go as well.
ProjectRemovedStoppingAll(r) ==
    /\ r \in Removable \cap projects
    /\ projects' = projects \ {r}
    /\ status' = [q \in Roots |-> "none"]
    /\ sent' = NoDocuments
    /\ requests' = {}
    /\ UNCHANGED <<editorVars, watched, dirty, synced, timer, tasks>>

\* handleProjectRemoved(): the record is left as it is.
ProjectRemoved(r) ==
    /\ r \in Removable \cap projects
    /\ projects' = projects \ {r}
    /\ status' = [status EXCEPT ![r] = "none"]
    /\ sent' = [sent EXCEPT ![r] = [f \in Files |-> NoDoc]]
    /\ requests' = {q \in requests : q.root # r}
    /\ UNCHANGED <<editorVars, watched, dirty, synced, timer, tasks>>

-----------------------------------------------------------------------------
(* Positional requests.                                                    *)

\* handleCommandAsync(): push when the record differs, then ask.
Ask(f) ==
    LET r     == ServerForFile(status, f)
        stale == synced[f] # buffer[f]
    IN  /\ f \in open
        /\ r # NoRoot
        /\ Cardinality(requests) < MaxRequests
        /\ IF stale
           THEN /\ sent' = Told({f}, status, buffer, sent)
                /\ synced' = Recorded({f}, buffer, synced)
                /\ dirty' = dirty \ {f}
           ELSE UNCHANGED <<sent, synced, dirty>>
        /\ requests' = requests \cup
               {[file |-> f, root |-> r, content |-> buffer[f], held |-> sent'[r][f]]}
        /\ UNCHANGED <<editorVars, watched, serverVars, timer, tasks>>

-----------------------------------------------------------------------------
(* Reader threads and server processes.                                    *)

\* Faulty variant: nobody hears of the end of the handshake.
ServerInitializedUnheard(r) ==
    /\ status[r] = "starting"
    /\ status' = [status EXCEPT ![r] = "ready"]
    /\ UNCHANGED <<editorVars, pushVars, projects, timer, tasks, requests>>

\* The initialize result: m_ready is set and serverReady is emitted.
ServerInitialized(r) ==
    /\ status[r] = "starting"
    /\ tasks["ready"] < MaxTasks
    /\ status' = [status EXCEPT ![r] = "ready"]
    /\ tasks' = Post("ready")
    /\ UNCHANGED <<editorVars, pushVars, projects, timer, requests>>

ServerAnswers(q) ==
    /\ q \in requests /\ status[q.root] \in {"unheard", "ready"}
    /\ requests' = requests \ {q}
    /\ UNCHANGED <<editorVars, pushVars, serverVars, timer, tasks>>

\* The process is gone; the client stays in servers with m_ready unchanged.
ServerExits(r) ==
    /\ status[r] \in {"starting", "unheard", "ready"}
    /\ status' = [status EXCEPT ![r] = IF @ = "starting" THEN "failed" ELSE "dead"]
    /\ UNCHANGED <<editorVars, pushVars, projects, timer, tasks, requests>>

-----------------------------------------------------------------------------
Next ==
    \/ \E f \in Files, t \in Texts : LoadContent(f, t) \/ Edit(f, t)
    \/ \E f \in Files : OpenTab(f) \/ CloseTab(f) \/ Ask(f)
    \/ \E F \in SUBSET Files : \E A \in SUBSET F : \E new \in [A -> Texts] :
           ApplyTextEdits(F, new)
    \/ FlushDirtyDocuments
    \/ ServerReadyTask
    \/ ClientAddedTask
    \/ ReconcileOpenDocuments
    \/ \E r \in Roots : ProjectLoaded(r) \/ ProjectConfigChanged(r) \/ ProjectRemoved(r)
    \/ ConfigurationModified
    \/ \E q \in requests : ServerAnswers(q)
    \/ \E r \in Roots : ServerInitialized(r) \/ ServerExits(r)

Spec == Init /\ [][Next]_vars

\* The event loop runs what was posted, and the debounce timer fires once the
\* user pauses.  Nothing is assumed of the user or of the servers.
FairSpec ==
    /\ Spec
    /\ WF_vars(FlushDirtyDocuments)
    /\ WF_vars(ServerReadyTask)
    /\ WF_vars(ClientAddedTask)
    /\ WF_vars(ReconcileOpenDocuments)

-----------------------------------------------------------------------------
TypeOK ==
    /\ open \subseteq Files /\ exclusive \subseteq Files
    /\ watched \subseteq Files /\ dirty \subseteq Files
    /\ buffer \in [Files -> Texts]
    /\ timer \in BOOLEAN
    /\ projects \subseteq Roots
    /\ status \in [Roots -> Statuses]
    /\ sent \in [Roots -> [Files -> Texts \cup {NoDoc}]]
    /\ synced \in [Files -> Texts]
    /\ tasks \in [TaskKinds -> Nat]
    /\ requests \subseteq Request

\* The files that only ever have one server: one project contains them, and it
\* is not removed.
Stable == {f \in Files : \E r \in Roots \ Removable : Encl[f] = {r}}

\* The record of SyncedContent never gets ahead of the servers: unless a project
\* around the file can be removed, what the record says is what some server of
\* the file, up and not replaced since, was last told.
RecordIsNotAhead ==
    \A f \in Files :
        (Encl[f] \cap Removable = {} /\ synced[f] # Empty)
            => \E r \in Encl[f] : IsReady(status, r) /\ sent[r][f] = synced[f]

\* A positional request on a non-empty buffer is answered from that buffer.
RequestsSeeTheBuffer ==
    \A q \in requests : q.file \in Stable /\ q.content # Empty => q.held = q.content

\* No change is forgotten: a watched editor with content that differs from the
\* record waits for the debounce timer, or for the announcement that follows a
\* load, or its server holds nothing of it yet and is not up, or the announcement
\* that follows the server's start has still to run.
EditsAreTracked ==
    \A f \in Stable \cap open \cap watched : \A r \in Encl[f] :
        \/ synced[f] = buffer[f] \/ buffer[f] = Empty
        \/ f \in dirty /\ timer
        \/ tasks["added"] > 0
        \/ synced[f] = Empty /\ (~IsReady(status, r) \/ tasks["ready"] > 0)

\* What is loaded or typed reaches the server, through restarts and drops, unless
\* the tab is closed or emptied or the server is stopped.
EditsReachTheServer ==
    \A f \in Stable : \A r \in Encl[f] :
        (f \in watched /\ IsReady(status, r) /\ buffer[f] # Empty)
            ~> \/ sent[r][f] = buffer[f]
               \/ f \notin open \/ buffer[f] = Empty \/ ~IsReady(status, r)

\* An editor ends up completing from its server only once the server was heard
\* of, or is up while a tab or a server is to be announced, however the opening
\* of tabs, restarts and the ends of handshakes interleave.  Of a server whose
\* handshake ends before the callback is set nobody hears: its editors wait for
\* the next announcement, whatever that is about.
EditorsBecomeExclusive ==
    \A f \in Stable : \A r \in Encl[f] :
        (/\ f \in open /\ IsReady(status, r)
         /\ status[r] = "ready" \/ tasks["ready"] > 0 \/ tasks["added"] > 0)
            ~> (f \in exclusive \/ f \notin open \/ ~IsReady(status, r))

-----------------------------------------------------------------------------
(* The record, the debounce, the projects and the handshakes hidden.       *)

\* The one root of a stable file.
RootOf(f) == CHOOSE r \in Roots : Encl[f] = {r}

Edited == open \cap Stable

Shown == [f \in Stable |-> buffer[f]]

Copies == [f \in Stable |-> sent[RootOf(f)][f]]

Questions ==
    {[doc |-> q.file, about |-> q.content, held |-> q.held] : q \in {p \in requests : p.file \in Stable}}

\* The server of a file that keeps its server has what the editor showed when
\* it was last told, and answers from what it shows when it is asked: that a
\* push is left out when the record says so, or put off, can not be seen.
Documents == INSTANCE SharedDocuments WITH
    Doc <- Stable, Text <- Texts, open <- Edited, text <- Shown, copy <- Copies, asked <- Questions
ImplementsSharedDocuments == Documents!Spec

-----------------------------------------------------------------------------
(* What a comment of the code promises of every file.                      *)

\* lsp_synced_content.h: a positional request is only meaningful against the
\* document the server actually has.
EveryRequestSeesTheBuffer ==
    \A q \in requests : q.content # Empty => q.held = q.content
=============================================================================
