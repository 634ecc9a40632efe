# CodePointer in TLA+

Specifications of the parts of CodePointer that are hard to test: the code that
runs between two events, the callbacks that come in an order nobody chose, the
files that other programs change, and the processes and servers that die. The
specifications are checked with TLC on small instances, and the properties that
matter most are proved with TLAPS for every instance.

Source paths below are relative to `src/src/` of the repository; `P` stands for
`plugins/ProjectManager/ProjectManagerPlg.cpp`, `E` for `widgets/qmdieditor.cpp`,
`L` for `plugins/LSP/LspPlugin.cpp`, `S` for `widgets/SplitTabWidget.cpp`,
`Q` for `widgets/qmdiSplitTab.cpp`, `T` for `plugins/TreeSitter/TreeSitterPlugin.cpp`.

## 1. Inventory

CodePointer is a Qt program: one GUI thread that runs an event loop, plugins that
send one another named commands (`GlobalCommands.hpp`) and get futures back, and
a few threads (a reader per language server, the global thread pool, a scanner for
the files list). Plugins share three things: the tabs (`qmdiServer`,
`qmdiSplitTab`), the command bus, and the files on the disk.

| component | state it keeps | operations | what is hard about it |
|---|---|---|---|
| LSP synchronisation (`plugins/LSP`) | clients by project root, record of what each server holds (`SyncedContent`), dirty documents, debounce timer, watched editors | open, edit, close, flush, request, project loaded / changed / removed, server ready, server exit | handshake on another thread; a debounced push races with requests; servers die and come back; nested projects |
| Editor and file (`E`) | document, modified and loaded flags, watcher, timers, backup uid | lazy load, save (with formatter), backup, restore, reload, close, quit | nested event loops inside save and load; truncation before write; other programs; crashes; state carried over sessions |
| Code actions (`E`, `L`) | caret, mark, one watcher for two kinds of request, cached diagnostics | probe, menu, apply, push, publish | answers later than the text they are about |
| Project tasks (`P`) | project list, current project, configurations, file watcher, one process, its pty, raw pointers to task and project | add / select / remove project, reload of `codepointer.json`, run task / target / script, end of process | signals delivered inside the call that stops a process; indexes and pointers into replaced configurations; a deferred release |
| Rename and text edits (`widgets/lsp_rename_geometry.h`, `E`, `L`) | the rename box, renames in flight, fixes offered | open the box, send, apply the reply to open editors and closed files, apply a fix | ranges computed for a text that is gone; several files; the order of edits |
| Split tabs (`S`, `Q`, `plugins/SplitTabsPlugin`) | splits, tabs, current split, merged client, saved layout | add, move, close tab or split, restore layout | focus signals change the current split while it is being changed; an emptied split is deleted later |
| Files list (`widgets/FilesList.cpp`) | directory, scanner thread, generation, shown rows | set directory, set filters | results of pool threads posted later, out of order |
| CTags (`plugins/CTags`) | a loader per project | project loaded / built / removed, query | loaders shared by pool threads without locks |
| TreeSitter (`plugins/TreeSitter`) | queue of directories, running scans, parsed files, index | project loaded or built, query, unload | debounce timer and the end of a scan both start scans; parsed trees shared by threads |
| Git (`plugins/git`) | log, branches, commit form | log, diff, revert, checkout, commit | answers of processes out of order, or after a tab is gone |
| Project search, issues | results tree, a `running` flag | search, stop | the flag is shared with the search thread |
| Decoders, `AnsiToHTML`, tag files, kits | none, or the state of a scanner | pure functions of text | boundaries, off by one |
| Terminal, help, viewers, themes, find and replace, small widgets, `main.cpp` | display | | little; see section 8 |

How they interact. `P` emits `ProjectLoaded`, `ProjectConfigChanged`,
`ProjectRemoved` and `BuildFinished`, to which the LSP, CTags and TreeSitter plugins
react. `P` also relays the creation of a tab (`newClientAdded`), after which the LSP
plugin looks at every open editor. Before a task runs, `P` asks every editor to
save. An editor asks for completions, hover texts, code actions and formatting through
the command bus; the answers are futures that end on the GUI thread. Every one of
these is an action, or a step of an action, of the module of the component that reacts.

What makes each component correct:

* LSP synchronisation: a request is answered from the text in the editor; every
  edit reaches the server in the end; the record of what a server holds is never
  ahead of the server; an editor learns that its server is up.
* Editor and file: text shown as unmodified is text of the file; what other
  programs write is noticed; what the user typed is in the file, in the editor or in
  a backup; a formatter does not undo typing.
* Code actions: a fix is only applied to the text it was made for; the mark is at
  a line with a fix, at the caret; what the user asked for is answered.
* Project tasks: what is announced as built was built; the button starts a task
  that exists; a running process keeps its terminal, and a finished one gives it up;
  the configuration is that of the file.
* Rename and text edits: a reply changes the symbol, everywhere it said or nowhere,
  and never another part of the text.
* Split tabs: no tab is lost; the main window has the menus of one open tab; a layout
  that was saved is restored.
* TreeSitter: a directory that was asked for is scanned, whatever runs meanwhile; a
  tree is not deleted while a thread walks it.
* Files list, searches, panels: what is shown belongs to the last question.

## 2. Plan

1. `LspSync` (done): the record, the pushes and the servers, with the abstract specification
   `SharedDocuments` that it implements.
2. `EditorFile` (done): one editor, its file and its backups over sessions.
3. `CodeActions` (done): late answers and stale diagnostics.
4. `TaskRunner` (done): projects, configuration files, the process and its pty.
5. `SplitTabs` (done), with the abstract tab area `OpenTabs` that it implements.
6. `WorkspaceEdits` (done): renames and fixes over changing files, with the position
   arithmetic and the order of edits compared with the replacement of all ranges at once.
7. `ScanQueue` and `SymbolTrees` (done): the queue of TreeSitter's scans, and the trees
   that its threads share.

What the plan has left, in this order:

8. `FilesList` (the scanner, the filters and their late rows), then `ProjectSearch` and the
   git panel: a question, a thread, and an answer that comes later. The abstract
   specification is a register that shows the answer to the last question. The tag loaders
   of CTags would follow once their hash is locked: the claim is then that no loader is
   deleted while a thread reads it. As the code is, every outcome is possible.
9. `DurableText`, a text with copies that survive, implemented by `EditorFile`: the theorems
   `BackupSafety` and `SurvivalSafety` are what its proof would rest on.
10. The decoders, the search of a sorted tag file, `ProjectBuildConfig::expand` and the
   log graph of `CommitModel`, as functions against reference definitions.

Runs are few on purpose: each asks a question of its own, and a larger configuration takes
the place of a smaller one that it contains.

The theorem most worth adding is the refinement of step 9: `EditsAreBackedUp` tells which commands
may lose a copy, and `BackupSafety` that no other does.

## 3. Modules and the code

Each module has one action per handler. The GUI thread runs a handler to its end
before the next, so a handler is one step, except where the code itself lets other
handlers in: a nested event loop, a modal dialog, a signal emitted inside a call. Where another thread
or another program may act in the middle of a handler in a way that matters, the handler is several steps
(`CodeActions`, `SymbolTrees`) or leaves what the other may have made of it (`EditorFile`).
Definitions whose comment says *Faulty variant* or *Mutant* are not used by any specification: they
are plausible mistakes, each of which breaks a property, and are kept to show that
the properties are sensitive to the code.

### LspSync

`open`, `buffer`: the editors. `watched`, `dirty`, `timer`, `projects`: the members
`watchedEditors`, `dirtyDocuments`, `documentSyncTimer`, `projectRoots` of `LspPlugin`.
`synced` is `SyncedContent`; `status[r]` is the client of root `r` with its process and
`m_ready` (`unheard`: up, and the callback that would have announced it was set too late);
`sent[r][f]` is what was written to that server about `f`. Writes reach a server
in order, so `sent` is also the text that it answers from.

| action | code |
|---|---|
| `OpenTab`, `LoadContent`, `Edit`, `CloseTab` | editor signals that the plugin connects to |
| `ApplyTextEdits` | `applyTextEdits`, `applyEditsToClosedFile` |
| `FlushDirtyDocuments` | `flushDirtyDocuments` |
| `ServerReadyTask`, `ClientAddedTask` | slots of `serverReady` and `newClientAdded` |
| `ReconcileOpenDocuments` | `reconcileOpenDocuments` |
| `ProjectLoaded`, `ProjectConfigChanged`, `ProjectRemoved`, `ConfigurationModified` | the project commands, `stopAllServers`, `syncOpenDocuments` |
| `Ask` | the positional part of `handleCommandAsync` |
| `ServerInitialized`, `ServerAnswers`, `ServerExits` | the reader thread and the process |

`SharedDocuments` is what those who ask a server are promised. It has the editors, their texts, the
copy of each document that its server answers from, and the questions; `Documents` maps `LspSync` to
it, for files that keep their server: `sent` at the root of a file becomes its copy, and
the record, the dirty documents, the debounce, the posted tasks, the handshake and the projects
are hidden. There a copy is replaced only by what the editor shows, or lost; a question is about the
text of the editor and answered from it. A push left out because the record says that the server
has the text already is a step of the copy to that text all the same, so that a wrong record
shows as a question answered from another text. `Write` lets a server be told a text only of a
document without an editor, which is what `applyEditsToClosedFile` does.

### EditorFile

One file and its editor over several sessions. `disk`, `backups`, `session` survive a
crash; the rest belongs to the editor and carries the names of its members. `phase` says
which nested event loop the editor is in: between the start and the end of a load,
in the formatter, or between opening (which truncates) and writing. Three variables
are auxiliary. `base` is the text last read or written. `owed` is the text a restart has to show: what was
unsaved at a quit, or at a crash if its backup had been written and the settings named it (`BackedUp`).
`slipped` says that the file was changed while nobody looked: other programs are not stopped by a handler, so
`FinishLoad` and `FinishSave` leave anything in the file (`Contents`) by the time they watch it again, and
a write that fails does so too. The next change that is reported makes `slipped` false again.
`BeginLoad` and `FinishLoad` are the two halves of `loadContent`; `BeginSave`,
`FormatterReturns` and `FinishSave` the parts of `saveFile`; `Save`, `SaveClientContent`
and `CloseTab` its callers; `AutoSave`, `FileChanged`, `FileChangedTimer` and
`LoadingTimer` the timers; `Quit`, `SaveSettings`, `Crash`, `Start` the sessions;
`WriteOutside`, `ReplaceOutside`, `ChangeMode` other programs.

### CodeActions

`request` is what the one `codeActionWatcher` waits for; asking again drops it, as
`setFuture` does. `held` is the text of the server; `due` that it has not looked at it since;
`computed`, `diagnostics` and `stale` are the diagnostics on their way, in the cache, and their
mark. A menu remembers the text it was asked about and, as an auxiliary, the text the server computed
it from; the auxiliary `late` says that what is in the cache was of an older text than
the pushed one when it arrived.

`gui` says how far the GUI thread is in a handler that the reader thread may run in between
of: `Flush` and `Ask` push, `MarkStale` marks the diagnostics, `LookWhetherStale` and
`EchoDiagnostics` look at the mark and collect them for the request, and `PublishDiagnostics` may
come between any two of these. `Ask` begins `ProbeCodeActions` and `RequestCodeActions`.

### TaskRunner

`open` and `index` are the combo of projects, `config[p]` their `ProjectBuildConfig`,
`shown` the project from which the task button and its menus were last filled,
`selected` the `selectedTaskIndex`, `target` the project of `selectedTarget`. `claim` stands for
the raw pointers `runningTask` and `runningProject`: it records whether the objects they
point to are gone. `pty`, `epoch` and `releases` are the terminal, `taskPtyEpoch` and the
zero-timers that close it. `verdict` is auxiliary: what the last process did and what was
announced. `RunCommand` contains the `finished` handler of the process it kills, because that
is delivered inside the call (`P`, `stop` and `waitForFinished` in `runCommand`);
`RunTaskClicked` and `SavesDone` are the two halves of `runTask_clicked`, with the saving
of files, and its dialogs, between them. `crashed` says that a null or dangling pointer was
followed, after which nothing is claimed.

### WorkspaceEdits

`text` is the text of every file, in its editor or on the disk, `open` the files that have an
editor, `box` the inline rename box, `sent` the renames whose replies are to come, `offers` the
fixes of a menu with the text they were made for (the action's content).

| action | code |
|---|---|
| `RequestRename`, `HideInlineRename` | `requestRename` and what hides the box |
| `ApplyInlineRename` | `applyInlineRename`, and `handleRename` up to the request |
| `Renamed`, `RenameFails` | the queued reply of `handleRename` |
| `OfferFix`, `DropFix`, `ApplyCodeAction` | `handleCodeActionRequest`, the menu, `handleApplyCodeAction` |
| `Write`, `OpenEditor`, `CloseEditor` | typing, reloads, other programs, tabs |

`ApplyTextEdits` is `applyTextEdits`: the file of origin and the closed files are
edited by `ApplyRenameEdits`, which refuses a file of which one range is not the symbol;
the other editors by `ApplyEdits`, which does not look. Both edit from the bottom up; where two
edits start at one place the order is any (`BottomUp`), as the code's sort leaves it. `Char` is only
there to say what texts are made of.

### SplitTabs and OpenTabs

`splits` is the row of tab widgets, `home` and `shown` the place of each tab and the current tab
of each split, `cur` is `currentTabWidget`, `menu` is `activeWidget` with the clients whose
menus the main window has, `dying` the splits on which `deleteLater` was called, `saved`
the counts of the saved layout. `layout` is auxiliary: the counts while nothing but opening
has happened.

| action | code |
|---|---|
| `OpenFile`, `OpenIn`, `SplitTab`, `OpenAt` | `addTabToCurrentSplit`, the buttons, "Split tabs", `addClient` |
| `CloseTab`, `Delete` | `deleteClient` with the `tabWidgetRemoved` handler, the deferred deletion |
| `ShowTab`, `SetCurrentClientIndex`, `Focus`, `PageIsShown` | `currentChanged`, `setCurrentClientIndex`, `focusChanged`, `eventFilter` |
| `DropWithin`, `DropAlone`, `DropOnSplit`, `MoveClient`, `MoveTabToNewSplit` | `dropEvent`, `moveClient`, "Move editor to new split" |
| `Restart` | `saveConfig`, then `loadConfig` of the plugin |

`Leaves` is what removing a page does, in the order of the signals: another tab is shown, or the
empty split forgets or moves the current one and is to be deleted. `OpenTabs` knows
only the open tabs and those whose menus are merged; `ImplementsOpenTabs` maps the row
of splits to it.

### ScanQueue and SymbolTrees

`ScanQueue` has the GUI thread of the plugin (`ScanProjectDir`, `DebounceTimerFires`,
`ScanFinished`, `EventLoopIsBack`, `Ask`, `Cleanup`, `CleanedUp`) and the scans with their workers
(`TakeFile`, `FileDone`, `ScanReturns`). A scan that returns is at once not running for
`isFinished()`, while its `notice` is still on the way; starting a scan turns the watcher to
it, and a notice of the earlier one is lost. `owed` is auxiliary: the files that were asked for
and not looked at since.

`SymbolTrees` is what the workers and the queries do with one another in the engine:
`UpdateFile` puts a new context into `fileContexts`, `LookUp` takes the context for a walk,
`KeepSymbols` deletes its tree. Each is what the code does while it holds the mutex; the
parse and the walk lie between them.

## 4. Runs

| run | instance | shows |
|---|---|---|
| `sync` | one file, one project, three texts, restarts and server deaths | implements `SharedDocuments`: requests see the buffer; no edit is forgotten, and each reaches the server; editors become exclusive once their server is heard of |
| `sync_siblings` | two projects, one of which may be removed | removing one does not put the record of the other's files ahead of their server |
| `file` | two texts, two editors over sessions, deletion and permissions | outside changes are noticed, but for one between a look at the file and its watch, and unsaved text is shown again after a quit or a crash |
| `file_fair` | three texts, trimming, one editor, deletion, builds, scripts, hidden tabs | unmodified text is the file's, formatting keeps edits, only builds, runs and scripts take the backup of unsaved text away, outside changes are shown |
| `actions` | three texts, two lines, one fix each | fixes fit the text, the mark is at the caret and catches up, only diagnostics that came late are echoed into a request about another text |
| `tasks` | two projects, two tasks each, two processes | builds are announced truly, ptys are kept and released, the tasks are those of the file, the button is backed |
| `edits` | two files, four texts of one line, one request at a time | renames and fixes replace all of their ranges where the text is still the one meant, or nothing; the box stays on its symbol |
| `edits_plain` | the same | refutes `RepliesCannotCorrupt`: editors other than the rename's origin are edited without the check (`L` 694) |
| `tabs` | five tabs, three splits | the current split is live, menus follow the tab, no tab is out of reach, layouts are restored, emptied splits go; the row implements `OpenTabs` |
| `tabs_dropped` | three tabs, two splits | refutes `TabsGoOnlyWhenClosed`: the only tab of a split dropped on its own split is destroyed (`S` 251) |
| `scans` | two nested projects, two files, two scans of two workers | waiting directories are woken, files asked for stay scheduled and are looked at |
| `trees_shared` | two threads, two files | refutes `TreesOutliveTheirReaders`: a tree is deleted while another thread walks it (`TreeSitterEngine.cpp` 309) |

The properties of the refuting runs are promises of comments or documents of the
repository, which the code breaks; `PROJECT.json` quotes them under `findings`.

### Bounds, and why they are enough

* `LspSync`: `MaxTabs`, `MaxTasks`, `MaxRequests`. Handlers of one kind of posted task are
  idempotent, so that more than two waiting adds no behaviour. Three texts distinguish the
  buffer, the record and the server. Requests of a file are independent: one shows all.
* `EditorFile`: `Uids` bounds the editors made over all sessions; two allow a
  quit and a restore; the refutation of section 7 takes three, for a second quit, and hidden tabs. `Happens` selects the outside events of a run, to
  keep the products of events apart that do not act on the same state.
* `CodeActions`: no counter. Two lines tell the mark from the caret, three texts tell the
  text asked about, the text pushed and the text in the editor apart.
* `WorkspaceEdits`: `MaxAsked` bounds renames in flight and fixes offered together, `MaxLen` the
  texts about which the server is asked (the new name is longer than the old, so that
  repeated renames would grow a text for ever). The texts have a symbol twice, a symbol in
  the last column, another symbol, and nothing. `FixSpans` has a replacement and an insertion.
* `SplitTabs`: no counter; the tabs and the splits are the bound. Three splits have one in the
  middle; five tabs fill them unevenly with one to spare. Restarts need
  no bound: each leads back to the start with another layout.
* `ScanQueue`: two in `Scan` for an overlap, `MaxWakes` for the calls waiting in the event loop,
  one query (queries do not touch the queue). `SymbolTrees`: a context for every file
  and every thread is enough, since no more can be referred to.
* `TaskRunner`: `MaxRuns` bounds the processes, `MaxTasks` the tasks; two processes are
  enough for one to replace the other and for the older one's release to come late.
  `Finds` fixes whether a build leaves executables. In `tasks` the search finds some.

Deadlock is not looked for in three runs: in `tasks` a crashed program stops, and so does one
that has used its processes; in `scans` the plugin is unloaded in the end; in
`trees_shared` a program that read a deleted tree has crashed. `actions`, `file_fair` and `scans`
have no symmetry because they check liveness; `file` permutes the names of backups, which
the code draws at random, `tabs` the tabs and the splits, `trees_shared` the threads.

## 5. Fairness

Weak fairness is assumed of what the event loop does by itself: tasks that were
posted run, zero-timers and single-shot timers fire once nothing restarts them,
signals of the file watcher are delivered, and a nested event loop returns. In
`CodeActions` the server answers what it is asked: without that, nothing could be said
of marks. Nothing is assumed of when, or whether, it publishes diagnostics. In `ScanQueue` the threads of a scan run, too, and the user pauses for long enough that
the debounce timer, which a request restarts only while no scan runs, fires.
Nothing else is assumed of the user, and nothing of other programs, or of servers in `LspSync`.

`sync` starts servers whose handshake ends at any time, also before the callback that announces
it is set: such a server is heard of when the next one is announced (section 7), and
`EditorsBecomeExclusive` is about servers that have been announced, or are waiting while an announcement
is posted. `file_fair` leaves permission changes out to stay within minutes; with them TLC
finds no error either, in three minutes and 1.2 million states. `ChangesAreShown` leaves aside an editor
that a load or a save has left with its watch off (section 7).

## 6. Proofs

The proofs are in `*_proofs.tla`, for all values of the constants that satisfy the
named assumptions of the modules. None is about liveness or ENABLED, and
none about `SymbolTrees`, whose property the code breaks.

* `LspSync_proofs`: type correctness, then `RecordIsNotAhead`, `EditsAreTracked` and
  `RequestsSeeTheBuffer` from one inductive invariant (`IInv`): the types, that watched editors are open, and
  the first two properties themselves. They need one another: a push that fails takes a
  file off the dirty list, and only because the record is not ahead of a server that is
  down is the record then empty, which is what has the file announced later. A request that
  is not preceded by a push relies on the record in the same way. Assumptions: `SyncAssumption`, and `NestingAssumption` (among
  roots around a file one is innermost).
  `Refinement` (`ImplementsSharedDocuments`) follows from the same invariant and one fact more, that a
  request on its way has the root of its file (`RequestsAreRooted`): a server that stops takes just the
  questions with it that were put to it. Every action is shown to open, close, write, tell, forget, restart,
  ask, answer or stutter (`StepRefines`); `SyncIsATell` says it for what the handlers share, the round over the
  open editors that `ReconcileOpenDocuments` makes. It is proved for nested projects, too.
  `DocumentsAnswer` shows that the refinement is strong enough: `RequestsSeeTheBuffer` follows from
  `ImplementsSharedDocuments` alone, which is why no run lists it.
* `EditorFile_proofs`: type correctness, `UnmodifiedIsTheFile`, `FormattingKeepsEdits`,
  `ChangesAreNoticed`, `EditsAreBackedUp`, each from an invariant of its own. That no change
  goes unnoticed needs the facts that hold in the middle of a load or save (`WatchInv`): the watch is off
  there, and after it it is on, or the file has changed between the reading or writing and the watch
  (`slipped`). `WatchSafety` has no hypothesis: it says which changes are missed, and that no other is.
  `BackupSafety` says step by step that only a build, a run or a script takes the backup of unsaved
  text away. `SurvivalSafety` is `EditsSurvive` for tabs that are shown before the next quit, without
  which it is false (section 7). Up to the restart it rests on `BackupInv`: while the auto-save timer is not running, the
  backup of an editor with unsaved text is that text, in the middle of a save as well, where the file itself
  is empty. After it, by `OwedInv`, the backup that the settings name is neither written by the new
  editor, which has another name, nor deleted, before the editor has read it. Crashes are followed at any
  step; failed writes, and builds and scripts for what was unsaved at a quit, are allowed.
* `CodeActions_proofs`: type correctness; `FixesFitTheText` from the invariant that the
  text an offer was asked about is the text the server held (`OfferInv`);
  `MarkIsAtTheCaret` from `MarkInv`, that a probe waiting for its answer is for the
  caret's line or is going to be repeated. `EchoSafety` (`EchoesAreCurrent`) rests on `EchoInv`: what
  is cached, not stale and was not late describes the text the server holds, but between a push
  and its mark, and no request looks at it there; and on `AskInv`: from the push to the request
  the server holds the text of the editor.
* `TaskRunner_proofs`: `Typing`, `ButtonSafety` and `FileSafety` come from one inductive
  invariant (`Typed`), because the indexes are only typed if the lists behind them are
  known: the current project is in the list, the shown project is open and the selected
  task in its range, open projects have a configuration, and it is the file's where
  it is watched. `PtySafety` (`RunsKeepTheirPty`) and `PtyRelease` (`PtysAreReleased`) add that
  the pty is of the last epoch and that no release of a running process's epoch is pending;
  `AnnounceSafety` that a claim which has not gone stale agrees with the
  task that runs. The actions are sorted once by what they change (`StepKinds`).
* `SplitTabs_proofs`: one inductive invariant (`IInv`) gives `Typing`, `CurrentSafety`,
  `MenuSafety` and `ReachSafety`: the splits of the row are distinct, tabs lie in splits of the
  row, a split that is to be deleted is not the current one and has at most the one tab that
  was dropped back on it, and the main window is merged with `activeWidget` only. From it
  follow, step by step, `EmptiedSafety` and `Refinement` (`ImplementsOpenTabs`): each action
  opens one tab, closes one, or arranges them. `RestoreSafety` adds to it that the counts
  of a layout are positive (`RInv`), and counts the tabs of a split as they are added (`AddTabFills`).
  `TabsGoOnlyWhenClosed` is refuted by `tabs_dropped`; `OnlyTheDropLoses` shows that this is the only way: a tab
  that goes without being closed lay in a split that was to be deleted, and it got there by being dropped, as the only
  tab, on the bar it came from.
  Assumption: `SplitAssumption`.
* `TextRanges_proofs`: what the operators of `WorkspaceEdits` compute, for every text and every finite
  set of ranges. `AppliedAtOnce`: for ranges that are apart, applying them one after another from the
  bottom up is replacing them all at once. `NoPlaceLeft`: replacing every occurrence of a name by
  another one that is made of identifier characters leaves no occurrence of the old. Both are inductions over data,
  which no operator here can be given to (the provers cannot instantiate an induction rule): each is done
  on a set of numbers instead, the steps up to which the partial results agree, which are all numbers,
  since the others would have a least one (`LeastNumber`). Folds are unfolded to the functions behind
  them, and a text is cut at the ranges: below a range a run of edits has changed nothing (`RunBelow`), behind it
  everything is as it will be (`RunBehind`).
* `WorkspaceEdits_proofs`: `Typing` and `BoxSafety`, from each other: every change of the text
  under the box takes the box down. `RenamesExact`, `RenamesComplete` and `FixesExact` prove the action properties,
  from the invariant that texts are sequences of `Char` and that every request and offer
  carries ranges that were apart in some text (`TextsInv`), with the two theorems on ranges:
  the check that each range is the symbol puts the ranges into the text that is there now, whatever has
  happened to it. Assumptions: `EditsAssumption` (the ranges of fixes are pairs of numbers) and
  `TextsAssumption`; `RenamesComplete` has as its hypothesis that the new name is an identifier,
  which the code leaves to the server to refuse.
* `ScanQueue_proofs`: `Typing`, `WakeSafety` and `OwedSafety` from the three properties together
  with one fact more, that no scan is cancelled while the plugin is on. A scan takes all
  directories that wait, and a scan that is not cancelled returns only when its list is
  empty; the length of a list is bounded by the number of directories (`ToScanCounts`).
  `CleanupSafety` is what holds of `CleanupWaitsForScans` (section 7): when `cleanup()` has returned, no query and
  no worker of the scan that `scanFuture` names uses the engine; it needs that a file is only held by a
  worker of a scan that runs.
  Assumption: `QueueAssumption`.

Model-checked only: `EditsReachTheServer`, `EditorsBecomeExclusive`, `ChangesAreShown`,
`MarksCatchUp` and `RequestsAreServed`, which are liveness, and the refutations.
Every invariant, action property and refinement that a passing run checks is a theorem.

## 7. Disagreements met while modelling

Besides the findings, these are places where the code does what its comments, names or
documents do not lead one to expect. They are inside the models, as the code has them,
unless section 8 says otherwise.

LSP:
* `handleProjectRemoved` destroys the servers of a root and leaves `SyncedContent` as it is
  (`L` 1271), so that a request made after the project is loaded again, and before the
  announcement, skips its `didOpen`; `lsp_synced_content.h:49` says that `forget()` is for "when a
  server is replaced, since a fresh server holds nothing". With a removable project TLC refutes
  `EveryRequestSeesTheBuffer` of `LspSync`.
* The constructor of a client starts the handshake, and the callback that emits
  `serverReady` is set after it (`L` 1096 to 1098): a server that answers in between is
  never announced, and editors do not become exclusive until another event. The model has it
  (`unheard`), and `EditorsBecomeExclusive` promises them nothing before the next announcement.
* Loading a project nested in another moves its files to a server that was never sent
  them; the record still says it was (`L`, `serverForFile`).
* An empty buffer never differs from the record, so a server keeps the text that was
  there before; an editor that was empty when first looked at is not watched (`L` 771).
* Editors of a removed project go on completing from a server that is gone.
* Documents opened by a request or a closed-file rewrite, and not by an editor, get no
  `didClose` from the tab that would have reported it (`L` 785).

Editor:
* A tab that is restored but never shown before the next quit stores a fresh uid, since
  `setState` returns before it takes over the saved one (`E` 967, 983): its unsaved text is lost,
  though the repository's `README.md:46` says "modified files are restored on next app start". With
  hidden tabs and three editors TLC refutes `EditsSurvive` of `EditorFile`; for tabs that are shown it is proved
  (`SurvivalSafety`).
* A load that cannot open its file stops half way, with the editor not loaded (`E` 2523).
* A reload of a deleted file leaves the editor without loaded content, and a save then
  does nothing, silently (`E` 668, 2226).
* A change of the file between its reading (`E` 2560) and the watch (`E` 2598), or between its closing
  after a save (`E` 2374) and the watch (`E` 2379, 2382), is neither shown nor reported: the watcher
  tells of later changes only, and nothing is looked at again. The timer of `fileChangedTimer` is there
  because of a write of which "we get no new notification" (`E` 570 to 574); it makes such a change less
  likely and does not rule it out. `ChangesAreNoticed` and `ChangesAreShown` except it (`slipped`).
* Errors of writing and closing are not noticed (`E` 2375); a save or reload that
  fails to open the file leaves the watch off (`E` 2310, 2523).
* A save before a build deletes the backup before the file is written (`E` 624), and running a
  script deletes it though the tab stays (`E` 679): text typed since is backed up by the next change only.
  `EditsAreBackedUp` names both.
* The backup written by a save survives a crash, and is then restored as modified
  text over a file that was saved (`E` 2381).

Code actions:
* The probe takes the one watcher over, and with it the answer to a menu that the user has
  asked for within the delay of the last key (`E` 1882); `qmdieditor.h:289` says that the menu is shown
  "once the server answers". TLC refutes `UserRequestsStand` of `CodeActions`.
* Diagnostics of an older text that are published late make the cache current again (`L` 1127);
  `LspPlugin.hpp:243` says that such entries "must not be echoed into a codeAction request". TLC refutes
  `EveryEchoIsCurrent` of `CodeActions`; `EchoesAreCurrent` is what holds of it.
* A publish that falls between the push of a text and the marking of its diagnostics is
  marked stale too (`L` 907 to 918), and nothing is echoed until the next one; a server that publishes once
  for a text sends none.
* A late answer of signature help is checked only for the caret being inside some call (`E` 400).
* An action with both an edit and a command is dropped from the menu, though
  `LspClientImpl.cpp:665` calls it runnable.
* A refused fix completes without an error, though `L` 1643 wants the refusal to reach
  the caller.
* `m_ready` stays set when a server dies: requests to it never complete.

Project tasks:
* A project loaded through its project file fills the task button without becoming current
  (`P` 1825); the shortcut then starts a task of the current project at the other one's index,
  while `docs/release-2026-01-v0.1.0.md:21` says that it "executes the active task of the current project".
  TLC refutes `TheActiveTaskRuns` of `TaskRunner`.
* `runningTask` points to nothing after a reload (the FIXME at `P` 567).
* A build of a project that is not current changes the target of the Run button; of a
  project that was closed, it leaves a target that dies with it (`P` 591).
* `errorOccurred` and `editBuildConfig` need a current project (`P` 644, 703).
* Tasks run from the menu are not preceded by a save, though the setting says that files
  are saved before any task runs (`P` 273), and run in the directories of the current
  project, whichever project they belong to.
* The redirections that `setupPty` makes are reset a few lines later (`P` 1243), so that
  the pty carries nothing.
* A project opened because one of its files was opened is not watched; one whose file is
  replaced by a rename is not watched any more.
* `editBuildConfig` overwrites a file that could not be read, and may write one that the
  loader refuses.
* The index of the task is not looked at again after the save (`P` 1442).

Rename and text edits:
* A rename over several files is refused file by file (`L` 678): where one file has changed, the
  symbol has two names, although `lsp_rename_geometry.h:112` speaks of "refusing the whole reply".
* The edits of a fix to files other than the one it was asked for are not checked, and a fix for
  an empty file is applied to whatever the file holds by then (`L` 1309).
* Edits at the same position are applied in an unspecified order (`L` 662).
* Rewriting a closed file normalises its line endings (`L` 585).

Split tabs:
* Closing the leftmost split forgets the current one, even if another is current (`S` 390): the
  next tab is put into a split of its own.
* `S` 376 says that a single tab widget is always kept; the handler of an emptied split closes the
  last one too (`S` 366).
* A layout whose files do not all open is not forgotten, and makes later tabs split.
* A layout with an empty split is rejected at the next start.
* `closeCurrentTab`, `closeCurrentSplit`, `moveNextTab`, `movePrevTab` and `addTabToSplit` are called
  from nowhere in `src/`, and are not modelled.

TreeSitter:
* `cleanup()` waits for the scan that `scanFuture` names; the comment at `T` 413 says that the watcher
  "would miss an orphaned one", but `scanFuture` is overwritten by a second scan just as well, so
  that the engine can be destroyed under the first one. TLC refutes `CleanupWaitsForScans` of
  `ScanQueue`; `CleanupSafety` is what holds of it.
* After `on_client_unmerged` the watcher stays disconnected: a plugin that is merged again
  starts no scan at the end of another.
* A scan of nested projects parses a file once for each of them, possibly at the same time.
* Of two threads that parse different texts of a file, the one that ends last has its symbols in the
  index (`TreeSitterEngine.cpp` 312); one that walks the other's tree cuts names out of the wrong text.

Not modelled, and hard to test: rows of an earlier directory added to the files list after it
was cleared (`widgets/FilesList.cpp` 309); a stopped search that a new one lets go on, since one flag
serves both (`plugins/ProjectManager/ProjectSearch.cpp` 457); a branch that is checked out while the
list of branches is refilled (`plugins/git/GitPlugin.cpp` 297); a raw client kept over a `git diff`
(`GitPlugin.cpp` 261).

## 8. What is not modelled, and what is abstracted

Components without a module are listed in `PROJECT.json` with the reason. The rest of
this section is what the modules leave out of their own components.

* `LspSync`: a handshake that ends in the middle of the handler that starts the server, and is
  announced, counts as one that ends after it: the announcement repeats what the handler did. File
  identity is that of Linux paths. One language per root. The order in which
  servers are started for different files is free. Projects nested in one another are within
  the proofs; the runs have one project and two siblings. A write to a server that has just
  died is taken as accepted, as `QProcess` does.
* `EditorFile`: saves and loads nested in one another, and the closing of a tab inside
  the event loop of its own save, are left out: whether the loop ends, and what is
  read after it, depends on how a future treats a destroyed context (`E` 2292). What the file
  holds after a handler has worked on it is any text, so that a save mixed with the write of another program
  is not told from one that replaced it. Line endings, encodings, Save as, and
  the setting that forces files to be read-only are left out. A banner counts as the
  user having been told.
* `CodeActions`: a server looks once at each text it is sent, or only at the last of several. Fixes of several
  files are in `WorkspaceEdits`; server-side commands are left out. The server is ready throughout.
* `TaskRunner`: a directory is in the list at most once. A task is known by its place in
  the list. Executables are only present or absent. Failures of adding a watch and of
  writing the configuration are left out. Reading through a pointer to nothing gives
  any Boolean. Reading a project's executables anew, kits, variables and output are left out.
* `WorkspaceEdits`: a document is one line, so that a position is an offset. Closing an editor leaves
  its text as it is. The server is sent the text of the file it is asked about first, may hold any
  other text of the others (what it holds is `LspSync`), and returns the symbol's occurrences as whole
  identifiers, in files it chooses; the ranges of a fix are apart and start at different places.
  What a rewritten closed file means for the server is in `LspSync`.
* `SplitTabs`: the order of the tabs inside a split is left out; where the code takes a neighbour the
  model takes any other tab. Deferred deletions run before the next event of the user, one tab is
  closed in a turn of the event loop, and focus does not enter a split that is to be deleted. A client that is
  destroyed leaves its server, as the framework's destructor does. Sizes are left out, except that
  a split without width makes the layout be rejected.
* `ScanQueue`: the order of the queue is left out, since one scan takes it all. Each scan has workers of
  its own (the pool they share only delays them), which take the files in any order. A file that is
  too large or cannot be read is passed over as one that was parsed. Unloading is the end of the
  plugin. `SymbolTrees` keeps of the index only whether a context was walked.
* Not in reach of TLC: the text layout of the editor widget, syntax trees, the terminal
  emulator, network code, and the vendored parsers.
