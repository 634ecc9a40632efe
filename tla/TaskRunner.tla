---------------------------- MODULE TaskRunner ----------------------------
(***************************************************************************)
(* The open projects, their codepointer.json, and the one process in which *)
(* the project manager runs tasks, executables and scripts.                *)
(*                                                                         *)
(* The GUI thread runs one handler at a time, with two exceptions that the *)
(* steps below spell out: a handler that stops the running process gets    *)
(* that process's signals before it goes on, and saving the open files     *)
(* before a task may stop at a modal dialog, under which file signals, the *)
(* process's signals and timers still arrive.                              *)
(*                                                                         *)
(* A directory is in the list of projects at most once.  Tasks of one      *)
(* project differ in name, so a task is known by its place in the list.    *)
(***************************************************************************)
EXTENDS Naturals, SequencesExt

CONSTANTS
    Projects,   \* source directories
    NoProject,  \* no project
    Gone,       \* an executable of a project that is closed
    Files,      \* Files[p]: what codepointer.json of p may come to be
    Missing,    \* there is no codepointer.json
    Broken,     \* there is one that buildFromJsonFile refuses
    Closed,     \* the configuration of a project that is not open
    Scanned,    \* Scanned[p]: what is guessed of p without codepointer.json
    Finds,      \* whether a build leaves executables to be found
    NoTask,     \* a process that is not a task's, or no claim
    Idle,       \* runProcess is not running
    MaxTasks,   \* bound: tasks of a project
    MaxRuns     \* bound: processes started

Kinds == {"build", "other", "empty"}    \* empty: no command on this platform
Content == [tasks : Seq(Kinds), active : Nat]
Config == [tasks : Seq(Kinds), active : Nat, targets : BOOLEAN, auto : BOOLEAN, file : BOOLEAN]
Task == [project : Projects, kind : Kinds, by : {"button", "menu"}]
Claim == [project : Projects, kind : Kinds, auto : BOOLEAN, gone : BOOLEAN, closed : BOOLEAN]
Process == [run : Nat, tty : BOOLEAN, task : Task \cup {NoTask}]
Outcomes == {"ok", "failed", "crashed"}
Verdict == [built : Projects \cup {NoProject}, announced : Projects \cup {NoProject}, gone : BOOLEAN]

ASSUME TasksAssumption ==
    /\ IsFiniteSet(Projects)
    /\ NoProject \notin Projects /\ Gone \notin Projects \cup {NoProject}
    /\ Files \in [Projects -> SUBSET ({c \in Content : c.tasks # <<>>} \cup {Missing, Broken})]
    /\ Missing \notin Content \cup {Broken} /\ Broken \notin Content
    /\ Scanned \in [Projects -> {c \in Config : c.auto /\ ~c.file}]
    /\ Finds \subseteq BOOLEAN /\ Finds # {}
    /\ NoTask \notin Task \cup Claim
    /\ Idle \notin Process
    /\ Closed \notin Config
    /\ MaxTasks \in Nat /\ MaxRuns \in Nat

VARIABLES
    open,       \* projectModel: the projects in the order of the menu
    index,      \* currentIndex() of projectButton, from 1, 0 for none
    config,     \* config[p]: the ProjectBuildConfig of p
    shown,      \* the project whose tasks taskButton and its menus offer
    selected,   \* selectedTaskIndex, from 1
    target,     \* the project of selectedTarget
    disk,       \* disk[p]: codepointer.json of p
    watched,    \* projects whose file configWatcher watches
    changed,    \* projects whose fileChanged signal is due
    saving,     \* runTask_clicked is saving the open files
    process,    \* runProcess
    claim,      \* its runningTask and runningProject
    pty,        \* the run whose pty is in taskPtyMasterFd, 0 for none
    epoch,      \* taskPtyEpoch
    releases,   \* epochs of the deferred releases that are due
    verdict,    \* the build the last process to end achieved, and the one announced
    crashed     \* the program followed a null or a dangling pointer

menuVars == <<open, index, shown, selected>>
fileVars == <<disk, watched, changed>>
runVars  == <<process, claim, pty, epoch, releases, verdict>>
vars == <<menuVars, config, target, fileVars, saving, runVars, crashed>>

\* The user can reach the window: no dialog is over it.
Responsive == ~crashed /\ saving = NoProject

Current == IF index = 0 THEN NoProject ELSE open[index]

\* The place of activeTaskName among the tasks, or else the first.
ActiveTask(c) == IF c.active \in DOMAIN c.tasks THEN c.active ELSE 1

-----------------------------------------------------------------------------
(* Reading a project. *)

FromFile(c) == [tasks |-> c.tasks, active |-> c.active, targets |-> TRUE, auto |-> FALSE, file |-> TRUE]

Parses(d) == d \notin {Missing, Broken}

BuildFromDirectory(p) == IF Parses(disk[p]) THEN FromFile(disk[p]) ELSE Scanned[p]

\* What saveToFile leaves: a file without a task or an executable is refused later.
Saved(c) == IF c.tasks # <<>> /\ c.targets THEN [tasks |-> c.tasks, active |-> c.active] ELSE Broken

\* Faulty variant: the tasks are left out of the comparison.
SameButTheTasks(c, d) == c.file /\ c.targets /\ c.active = d.active

\* The configuration c equals the one read from the content d.
SameConfig(c, d) == c.file /\ c.targets /\ c.tasks = d.tasks /\ c.active = d.active

(* What the buttons and menus offer, once the projects are configured by cfg. *)

UpdateTasksUI(cfg, p) ==
    IF p = NoProject \/ cfg[p].tasks = <<>>
    THEN shown' = NoProject /\ UNCHANGED selected
    ELSE shown' = p /\ selected' = ActiveTask(cfg[p])

UpdateExecutablesUI(cfg, p) ==
    target' = IF p # NoProject /\ cfg[p].targets THEN p ELSE NoProject

NewProjectSelected(cfg, p) == UpdateTasksUI(cfg, p) /\ UpdateExecutablesUI(cfg, p)

-----------------------------------------------------------------------------
\* The session is restored: the projects that were open, and the one selected
\* if its directory is still among them.
Init ==
    /\ disk \in {d \in [Projects -> UNION Range(Files)] : \A p \in Projects : d[p] \in Files[p]}
    /\ open \in {s \in SeqOf(Projects, Cardinality(Projects)) : IsInjective(s)}
    /\ config = [p \in Projects |-> IF p \in ToSet(open) THEN BuildFromDirectory(p) ELSE Closed]
    /\ watched = {p \in ToSet(open) : Parses(disk[p])}
    /\ \/ /\ index = Len(open) /\ shown = NoProject /\ selected = 1 /\ target = NoProject
       \/ /\ index \in DOMAIN open
          /\ LET c == config[open[index]]
             IN  /\ shown = IF c.tasks = <<>> THEN NoProject ELSE open[index]
                 /\ selected = IF c.tasks = <<>> THEN 1 ELSE ActiveTask(c)
                 /\ target = IF c.targets THEN open[index] ELSE NoProject
    /\ changed = {}
    /\ saving = NoProject
    /\ process = Idle /\ claim = NoTask
    /\ pty = 0 /\ epoch = 0 /\ releases = {}
    /\ verdict = [built |-> NoProject, announced |-> NoProject, gone |-> FALSE]
    /\ crashed = FALSE

\* A directory is added with the button or from the file browser.
AddProject(p) ==
    /\ Responsive
    /\ p \notin ToSet(open)
    /\ open' = Append(open, p)
    /\ index' = Len(open) + 1
    /\ config' = [config EXCEPT ![p] = BuildFromDirectory(p)]
    /\ watched' = IF Parses(disk[p]) THEN watched \cup {p} ELSE watched
    /\ NewProjectSelected(config', p)
    /\ UNCHANGED <<disk, changed, saving, runVars, crashed>>

\* A project file was opened in an editor, and its project is loaded as well:
\* it is offered, but neither made the current one nor watched.
TryOpenProject(p) ==
    /\ Responsive
    /\ p \notin ToSet(open)
    /\ Parses(disk[p]) \/ Scanned[p].tasks # <<>>
    /\ open' = Append(open, p)
    /\ index' = IF index = 0 THEN 1 ELSE index
    /\ config' = [config EXCEPT ![p] = BuildFromDirectory(p)]
    /\ UpdateTasksUI(config', p)
    /\ UpdateExecutablesUI(config', p)
    /\ UNCHANGED <<fileVars, saving, runVars, crashed>>

SelectProject(i) ==
    /\ Responsive
    /\ i \in DOMAIN open
    /\ index' = i
    /\ NewProjectSelected(config, open[i])
    /\ UNCHANGED <<open, config, fileVars, saving, runVars, crashed>>

\* Faulty variant: the button keeps an index past the end of the list.
RemoveKeepingIndex ==
    /\ Responsive
    /\ index # 0
    /\ open' = RemoveAt(open, index)
    /\ watched' = watched \ {Current}
    /\ changed' = changed \ {Current}
    /\ config' = [config EXCEPT ![Current] = Closed]
    /\ shown' = NoProject /\ target' = NoProject
    /\ UNCHANGED <<index, selected, claim, disk, saving, process, pty, epoch, releases, verdict, crashed>>

\* The next project takes the place of the current one, or the last one does.
RemoveProject ==
    /\ Responsive
    /\ index # 0
    /\ open' = RemoveAt(open, index)
    /\ index' = IF index > Len(open') THEN Len(open') ELSE index
    /\ watched' = watched \ {Current}
    /\ changed' = changed \ {Current}
    /\ config' = [config EXCEPT ![Current] = Closed]
    /\ NewProjectSelected(config', IF index' = 0 THEN NoProject ELSE open'[index'])
    /\ claim' = IF claim # NoTask /\ claim.project = Current
                THEN [claim EXCEPT !.closed = TRUE] ELSE claim
    /\ UNCHANGED <<disk, saving, process, pty, epoch, releases, verdict, crashed>>

\* A task is chosen in the menu of taskButton, which a single task does not have.
SelectTask(i) ==
    /\ Responsive
    /\ shown # NoProject
    /\ Len(config[shown].tasks) > 1 /\ i \in DOMAIN config[shown].tasks
    /\ selected' = i
    /\ config' = [config EXCEPT ![shown].active = i]
    /\ UNCHANGED <<open, index, shown, target, fileVars, saving, runVars, crashed>>

\* editBuildConfig: a project without a file gets one.
EditBuildConfig ==
    /\ Responsive
    /\ IF index = 0
       THEN crashed' = TRUE /\ UNCHANGED <<config, fileVars>>
       ELSE /\ ~config[Current].file
            /\ disk' = [disk EXCEPT ![Current] = Saved(config[Current])]
            /\ config' = [config EXCEPT ![Current].file = TRUE]
            /\ watched' = watched \cup {Current}
            /\ UNCHANGED <<changed, crashed>>
    /\ UNCHANGED <<menuVars, target, saving, runVars>>

-----------------------------------------------------------------------------
(* codepointer.json changes, and the change is noticed. *)

\* Another program or an editor writes the file in place, or removes it and
\* puts another in its place, or only removes it: then its watch is gone.
WriteFile(p, d) ==
    /\ ~crashed /\ d # disk[p]
    /\ disk' = [disk EXCEPT ![p] = d]
    /\ changed' = IF p \in watched THEN changed \cup {p} ELSE changed
    /\ \/ d # Missing /\ disk[p] # Missing /\ UNCHANGED watched
       \/ disk[p] # Missing /\ watched' = watched \ {p}
       \/ disk[p] = Missing /\ UNCHANGED watched
    /\ UNCHANGED <<menuVars, config, target, saving, runVars, crashed>>

\* Faulty variant: the buttons and menus are left as they were.
ReloadQuietly(p, c) ==
    /\ config' = [config EXCEPT ![p] = c]
    /\ claim' = IF claim # NoTask /\ claim.project = p /\ ~claim.closed
                THEN [claim EXCEPT !.gone = (process.task.by = "button") \/ @, !.auto = c.auto]
                ELSE claim
    /\ UNCHANGED <<shown, selected, target>>

\* The configuration of p is assigned: its tasks are new objects, and a claim
\* on one of the old ones points to nothing.
Reload(p, c) ==
    /\ config' = [config EXCEPT ![p] = c]
    /\ claim' = IF claim # NoTask /\ claim.project = p /\ ~claim.closed
                THEN [claim EXCEPT !.gone = (process.task.by = "button") \/ @, !.auto = c.auto]
                ELSE claim
    /\ NewProjectSelected(config', Current)

ProjectFileModified(p) ==
    /\ ~crashed /\ p \in changed
    /\ changed' = changed \ {p}
    /\ LET d == disk[p]
           same == Parses(d) /\ SameConfig(config[p], d)
       IN  \/ Parses(d) /\ (~same \/ config[p].auto) /\ Reload(p, FromFile(d))
           \/ d = Missing /\ Reload(p, Scanned[p])
           \/ (same \/ d = Broken) /\ UNCHANGED <<config, claim, shown, selected, target>>
    /\ UNCHANGED <<open, index, disk, watched, saving, process, pty, epoch, releases, verdict, crashed>>

-----------------------------------------------------------------------------
(* The process. *)

\* The finished() handler, with the exit the process came to and the claim c
\* found on it.  Reading isBuild through a pointer to nothing can give anything.
Finished(outcome, c) ==
    \E isBuild \in IF c = NoTask THEN {FALSE}
                   ELSE IF c.gone THEN BOOLEAN ELSE {c.kind = "build"} :
        LET announce == outcome = "ok" /\ isBuild
        IN  /\ verdict' = [built |-> IF outcome = "ok" /\ process.task # NoTask /\ process.task.kind = "build"
                                     THEN process.task.project ELSE NoProject,
                           announced |-> IF announce THEN c.project ELSE NoProject,
                           gone |-> c # NoTask /\ c.gone]
            /\ \/ /\ announce /\ c.auto    \* updateBinaries
                  /\ \E found \in Finds :
                        /\ config' = IF c.closed THEN config
                                     ELSE [config EXCEPT ![c.project].targets = found]
                        /\ target' = CASE ~found -> NoProject
                                       [] found /\ c.closed -> Gone
                                       [] OTHER -> c.project
               \/ ~(announce /\ c.auto) /\ UNCHANGED <<config, target>>

\* errorOccurred() comes before finished(), and wants a current project.
ErrorIsFatal(outcome) == outcome = "crashed" /\ Current = NoProject

\* The process exits, or the user cancels it.
ProcessEnds ==
    /\ ~crashed /\ process # Idle
    /\ \E outcome \in Outcomes :
          IF ErrorIsFatal(outcome)
          THEN crashed' = TRUE /\ UNCHANGED <<config, target, runVars>>
          ELSE /\ Finished(outcome, claim)
               /\ process' = Idle /\ claim' = NoTask
               /\ releases' = releases \cup {epoch}
               /\ UNCHANGED <<pty, epoch, crashed>>
    /\ UNCHANGED <<menuVars, fileVars, saving>>

\* Faulty variant: the pty of a later run is closed as well.
ReleaseWhatever(e) ==
    /\ ~crashed /\ e \in releases
    /\ releases' = releases \ {e}
    /\ pty' = 0
    /\ UNCHANGED <<menuVars, config, target, fileVars, saving, process, claim, epoch, verdict, crashed>>

\* The zero-timer that the finished() handler leaves behind.
DeferredRelease(e) ==
    /\ ~crashed /\ e \in releases
    /\ releases' = releases \ {e}
    /\ pty' = IF e = epoch THEN 0 ELSE pty
    /\ UNCHANGED <<menuVars, config, target, fileVars, saving, process, claim, epoch, verdict, crashed>>

\* Faulty variant: a pty is kept for a process that never started.
StartKeepingPty(task, newClaim) ==
    /\ epoch' = epoch + 1
    /\ \E tty \in BOOLEAN :
          /\ pty' = IF tty THEN epoch' ELSE 0
          /\ \/ /\ process' = [run |-> epoch', tty |-> tty, task |-> task]
                /\ claim' = newClaim
                /\ UNCHANGED crashed
             \/ /\ process' = Idle /\ claim' = NoTask
                /\ crashed' = (Current = NoProject)

\* runCommand() once nothing runs: a pty if output is captured and one can be
\* had, then the process; a failure is reported to errorOccurred().
Start(task, newClaim) ==
    /\ epoch' = epoch + 1
    /\ \E tty \in BOOLEAN :
          \/ /\ process' = [run |-> epoch', tty |-> tty, task |-> task]
             /\ pty' = IF tty THEN epoch' ELSE 0
             /\ claim' = newClaim
             /\ UNCHANGED crashed
          \/ /\ process' = Idle
             /\ pty' = 0
             /\ claim' = NoTask
             /\ crashed' = (Current = NoProject)

\* Faulty variant: the claim of the new task is set up front.
RunCommandClaimed(task, newClaim) ==
    /\ epoch < MaxRuns
    /\ \/ process = Idle /\ Start(task, newClaim) /\ UNCHANGED <<config, target, releases, verdict>>
       \/ /\ process # Idle
          /\ \E outcome \in Outcomes :
                /\ ~ErrorIsFatal(outcome)
                /\ Finished(outcome, newClaim)
                /\ releases' = releases \cup {epoch}
                /\ Start(task, newClaim)

\* runCommand(): what runs is killed first, which may fail, and finishes within
\* the call, by the signal or by itself.
RunCommand(task, newClaim) ==
    /\ epoch < MaxRuns
    /\ \/ process = Idle /\ Start(task, newClaim) /\ UNCHANGED <<config, target, releases, verdict>>
       \/ process # Idle /\ UNCHANGED <<config, target, runVars, crashed>>
       \/ /\ process # Idle
          /\ \E outcome \in Outcomes :
                IF ErrorIsFatal(outcome)
                THEN crashed' = TRUE /\ UNCHANGED <<config, target, runVars>>
                ELSE /\ Finished(outcome, claim)
                     /\ releases' = releases \cup {epoch}
                     /\ Start(task, newClaim)

-----------------------------------------------------------------------------
(* What the user runs. *)

\* do_runTask() of the task i of home, in the current project.
DoRunTask(home, i, by) ==
    LET kind == config[home].tasks[i]
        task == [project |-> Current, kind |-> kind, by |-> by]
    IN  IF kind = "empty"
        THEN UNCHANGED <<config, target, runVars, crashed>>
        ELSE RunCommand(task, [project |-> Current, kind |-> kind, auto |-> config[Current].auto,
                               gone |-> FALSE, closed |-> FALSE])

\* The button or its shortcut, while enabled; then the open files are saved.
RunTaskClicked ==
    /\ Responsive
    /\ shown # NoProject
    /\ index # 0 /\ selected \in DOMAIN config[Current].tasks
    /\ saving' = Current
    /\ UNCHANGED <<menuVars, config, target, fileVars, runVars, crashed>>

\* The files are saved, or the user gave up; the task is looked up only now.
SavesDone ==
    /\ ~crashed /\ saving # NoProject
    /\ saving' = NoProject
    /\ \/ UNCHANGED <<config, target, runVars, crashed>>
       \/ IF selected \in DOMAIN config[saving].tasks
          THEN DoRunTask(saving, selected, "button")
          ELSE crashed' = TRUE /\ UNCHANGED <<config, target, runVars>>
    /\ UNCHANGED <<menuVars, fileVars>>

\* A task of the Project menu: a copy of the task, and nothing is saved.
RunTaskFromMenu(i) ==
    /\ Responsive
    /\ shown # NoProject
    /\ Len(config[shown].tasks) > 1 /\ i \in DOMAIN config[shown].tasks
    /\ DoRunTask(shown, i, "menu")
    /\ UNCHANGED <<menuVars, fileVars, saving>>

\* do_runExecutable() of the selected executable.
RunTarget ==
    /\ Responsive
    /\ target # NoProject
    /\ IF target = Gone \/ index = 0
       THEN crashed' = TRUE /\ UNCHANGED <<config, target, runVars>>
       ELSE RunCommand(NoTask, NoTask)
    /\ UNCHANGED <<menuVars, fileVars, saving>>

\* The script in the current editor.
RunScript ==
    /\ Responsive
    /\ RunCommand(NoTask, NoTask)
    /\ UNCHANGED <<menuVars, fileVars, saving>>

Next ==
    \/ \E p \in Projects : AddProject(p) \/ TryOpenProject(p) \/ ProjectFileModified(p)
    \/ \E p \in Projects : \E d \in Files[p] : WriteFile(p, d)
    \/ \E i \in 1..Len(open) : SelectProject(i)
    \/ RemoveProject \/ EditBuildConfig
    \/ \E i \in 1..MaxTasks : SelectTask(i) \/ RunTaskFromMenu(i)
    \/ RunTaskClicked \/ SavesDone \/ RunTarget \/ RunScript
    \/ ProcessEnds
    \/ \E e \in releases : DeferredRelease(e)

Spec == Init /\ [][Next]_vars

-----------------------------------------------------------------------------
TypeOK ==
    /\ open \in Seq(Projects) /\ index \in 0..Len(open)
    /\ config \in [Projects -> Config \cup {Closed}]
    /\ shown \in Projects \cup {NoProject} /\ selected \in Nat
    /\ target \in Projects \cup {NoProject, Gone}
    /\ disk \in [Projects -> Content \cup {Missing, Broken}]
    /\ watched \subseteq Projects /\ changed \subseteq Projects
    /\ saving \in Projects \cup {NoProject}
    /\ process \in Process \cup {Idle}
    /\ claim \in Claim \cup {NoTask}
    /\ pty \in Nat /\ epoch \in Nat /\ releases \subseteq Nat
    /\ verdict \in Verdict
    /\ crashed \in BOOLEAN

\* The plugins hear of a finished build when, and only when, the process that
\* verdict was a build task that succeeded, and they hear of the project in
\* whose directories it ran: never of the task that took its place
\* (finished handler, runCommand, do_runTask).  Nothing is said of a task
\* whose object a reload of codepointer.json has replaced meanwhile.
BuildsAreAnnounced ==
    ~verdict.gone => verdict.announced = verdict.built

\* A process whose output is captured through a pty keeps it until it ends:
\* no release left over from an earlier process closes it (taskPtyEpoch).
RunsKeepTheirPty ==
    process # Idle /\ process.tty => pty = process.run

\* The tasks of a project whose codepointer.json is watched are those of the
\* file, once the file's change has been handled (projectFile_modified).
TasksFollowTheFile ==
    \A p \in watched \ changed : Parses(disk[p]) => config[p].tasks = disk[p].tasks

\* The task that the button and the menus would start is one of the project
\* they were filled from, whatever was reloaded since, and that project is
\* open (updateTasksUI and its menu handlers index tasksInfo unchecked).
ButtonIsBacked ==
    shown # NoProject =>
        /\ shown \in ToSet(open)
        /\ selected \in DOMAIN config[shown].tasks

\* A pty that is open while nothing runs is about to be closed: every way in
\* which a process ends, or fails to start, leaves a release behind or closes
\* it at once (releaseTaskPty, the zero-timer of finished, the failed start).
PtysAreReleased ==
    process = Idle /\ pty # 0 => epoch \in releases

\* "executes the active task of the current project": what the button and its
\* shortcut start is that task (docs/release-2026-01-v0.1.0.md:21).
TheActiveTaskRuns ==
    [][ process' # process /\ process' # Idle /\ process'.task # NoTask /\ process'.task.by = "button"
          => saving = Current /\ selected = ActiveTask(config[Current]) ]_vars
=============================================================================
