------------------------------ MODULE ScanQueue ------------------------------
(***************************************************************************)
(* TreeSitterPlugin's queue of directories to scan for symbols.            *)
(*                                                                         *)
(* The GUI thread takes requests, runs the debounce timer and hears of the *)
(* end of a scan, later than the scan ends.  A scan runs on threads of its *)
(* own; the timer may start one while another runs, which is then no       *)
(* longer watched.  What the workers and the queries do with the parsed    *)
(* files is the module SymbolTrees.                                        *)
(***************************************************************************)
EXTENDS Naturals, FiniteSets

CONSTANTS
    Dir,        \* directories of projects
    File,       \* source files
    FilesOf,    \* FilesOf[d]: the source files below d
    Scan,       \* bound: scans that run at once, the unwatched ones included
    Worker,     \* the workers of one scan
    Query,      \* bound: queries answered at once
    NoScan,     \* no scan has been started
    MaxWakes    \* bound: calls of startNextScan() that wait in the event loop

ASSUME QueueAssumption ==
    /\ FilesOf \in [Dir -> SUBSET File]
    /\ IsFiniteSet(Dir)
    /\ NoScan \notin Scan

VARIABLES
    gui,        \* "on"; "closing" in cleanup(); "off" after it
    pending,    \* pendingScanDirs: its order is lost when a scan takes all
    timer,      \* scanDebounceTimer is active
    wakes,      \* single shots of no delay that call startNextScan()
    latest,     \* scanFuture, which is also what scanWatcher watches
    notice,     \* its finished signal is on the way to the GUI thread
    running,    \* scans whose function has not returned
    left,       \* left[s][f]: how often f is still to be taken from the list
    busy,       \* workers that have taken a file
    cancelled,  \* scanIsCancelled
    asking,     \* queries that have not been answered
    owed        \* auxiliary: files not looked at since they were asked for

eventVars == <<timer, wakes>>
queueVars == <<pending, latest, notice, running, left, cancelled>>
vars == <<gui, eventVars, queueVars, busy, asking, owed>>

NothingLeft == [f \in File |-> 0]

Init ==
    /\ gui = "on" /\ pending = {} /\ timer = FALSE /\ wakes = 0
    /\ latest = NoScan /\ notice = FALSE /\ running = {}
    /\ left = [s \in Scan |-> NothingLeft]
    /\ busy = {} /\ cancelled = FALSE
    /\ asking = {} /\ owed = {}

-----------------------------------------------------------------------------
(* The GUI thread.                                                         *)

\* Faulty variant: only the first scan of all is started by the timer.
ScanProjectDirOnce(d) ==
    /\ gui = "on"
    /\ pending' = pending \cup {d}
    /\ timer' = (timer \/ latest = NoScan)
    /\ owed' = owed \cup FilesOf[d]
    /\ UNCHANGED <<gui, wakes, latest, notice, running, left, cancelled, busy, asking>>

\* scanProjectDir(): while the scan runs, its end will look at the queue.
ScanProjectDir(d) ==
    /\ gui = "on"
    /\ pending' = pending \cup {d}
    /\ timer' = (timer \/ latest \notin running)
    /\ owed' = owed \cup FilesOf[d]
    /\ UNCHANGED <<gui, wakes, latest, notice, running, left, cancelled, busy, asking>>

\* The list of a scan of D: a file in two nested directories is on it twice.
ToScan(D) == [f \in File |-> Cardinality({d \in D : f \in FilesOf[d]})]

\* Faulty variant: one directory is scanned, the queue is drained.
ScanOneDir ==
    \E s \in Scan \ running, d \in pending :
        /\ running' = running \cup {s}
        /\ left' = [left EXCEPT ![s] = ToScan({d})]
        /\ latest' = s /\ notice' = FALSE
        /\ pending' = {} /\ cancelled' = FALSE

\* doScanProjectDir(): one scan of all that waits.  The watcher turns to it and
\* forgets what the scan before it may still have to say.
DoScanProjectDir ==
    \E s \in Scan \ running :
        /\ running' = running \cup {s}
        /\ left' = [left EXCEPT ![s] = ToScan(pending)]
        /\ latest' = s /\ notice' = FALSE
        /\ pending' = {} /\ cancelled' = FALSE

StartNextScan ==
    IF pending = {} THEN UNCHANGED queueVars ELSE DoScanProjectDir

DebounceTimerFires ==
    /\ gui = "on" /\ timer
    /\ timer' = FALSE
    /\ StartNextScan
    /\ UNCHANGED <<gui, wakes, busy, asking, owed>>

\* Faulty variant: the end of a scan leads to nothing.
ScanFinishedUnnoticed ==
    /\ gui = "on" /\ notice /\ wakes < MaxWakes
    /\ notice' = FALSE
    /\ UNCHANGED <<gui, eventVars, pending, latest, running, left, cancelled,
                   busy, asking, owed>>

\* The finished signal of scanWatcher: the next scan is left to the event loop.
ScanFinished ==
    /\ gui = "on" /\ notice /\ wakes < MaxWakes
    /\ notice' = FALSE
    /\ wakes' = wakes + 1
    /\ UNCHANGED <<gui, timer, pending, latest, running, left, cancelled,
                   busy, asking, owed>>

EventLoopIsBack ==
    /\ gui = "on" /\ wakes > 0
    /\ wakes' = wakes - 1
    /\ StartNextScan
    /\ UNCHANGED <<gui, timer, busy, asking, owed>>

\* A query of an editor goes to the global thread pool.
Ask(q) ==
    /\ gui = "on" /\ q \notin asking
    /\ asking' = asking \cup {q}
    /\ UNCHANGED <<gui, eventVars, queueVars, busy, owed>>

\* cleanup(): the queue is emptied and the watcher disconnected; the scan that
\* scanFuture names is told to stop, if it runs.
Cleanup ==
    /\ gui = "on" /\ gui' = "closing"
    /\ pending' = {} /\ notice' = FALSE
    /\ cancelled' = (cancelled \/ latest \in running)
    /\ UNCHANGED <<eventVars, latest, running, left, busy, asking, owed>>

\* cleanup() returns: that scan has ended, and the queries are answered.
CleanedUp ==
    /\ gui = "closing" /\ gui' = "off"
    /\ latest \notin running /\ asking = {}
    /\ UNCHANGED <<eventVars, queueVars, busy, asking, owed>>

-----------------------------------------------------------------------------
(* The other threads.                                                      *)

\* Faulty variant: the list is read beyond its end.
TakeFileBeyond(s, w, f) ==
    /\ s \in running /\ <<s, w>> \notin busy /\ ~cancelled
    /\ left' = [left EXCEPT ![s][f] = IF @ > 0 THEN @ - 1 ELSE Cardinality(Dir) + 1]
    /\ owed' = owed \ {f}
    /\ busy' = busy \cup {<<s, w>>}
    /\ UNCHANGED <<gui, eventVars, pending, latest, notice, running, cancelled, asking>>

\* A worker takes the next file of the list, and reads it if it can.
TakeFile(s, w, f) ==
    /\ s \in running /\ <<s, w>> \notin busy /\ ~cancelled
    /\ left[s][f] > 0
    /\ left' = [left EXCEPT ![s][f] = @ - 1]
    /\ owed' = owed \ {f}
    /\ busy' = busy \cup {<<s, w>>}
    /\ UNCHANGED <<gui, eventVars, pending, latest, notice, running, cancelled, asking>>

\* The file has been parsed and its symbols are in the index, or it is passed over.
FileDone(s, w) ==
    /\ <<s, w>> \in busy
    /\ busy' = busy \ {<<s, w>>}
    /\ UNCHANGED <<gui, eventVars, queueVars, asking, owed>>

\* The workers have returned, with all files taken or the scan cancelled.
ScanReturns(s) ==
    /\ s \in running
    /\ cancelled \/ left[s] = NothingLeft
    /\ \A w \in Worker : <<s, w>> \notin busy
    /\ running' = running \ {s}
    /\ left' = [left EXCEPT ![s] = NothingLeft]
    /\ notice' = (notice \/ (latest = s /\ gui = "on"))
    /\ UNCHANGED <<gui, eventVars, pending, latest, cancelled, busy, asking, owed>>

Answer(q) ==
    /\ q \in asking
    /\ asking' = asking \ {q}
    /\ UNCHANGED <<gui, eventVars, queueVars, busy, owed>>

-----------------------------------------------------------------------------
ScanStep(s) ==
    \/ \E w \in Worker, f \in File : TakeFile(s, w, f)
    \/ \E w \in Worker : FileDone(s, w)
    \/ ScanReturns(s)

Next ==
    \/ \E d \in Dir : ScanProjectDir(d)
    \/ DebounceTimerFires
    \/ ScanFinished
    \/ EventLoopIsBack
    \/ Cleanup
    \/ CleanedUp
    \/ \E s \in Scan : ScanStep(s)
    \/ \E q \in Query : Ask(q) \/ Answer(q)

Spec == Init /\ [][Next]_vars

\* The event loop and the threads run; the user pauses long enough for the timer.
FairSpec ==
    /\ Spec
    /\ WF_vars(DebounceTimerFires)
    /\ WF_vars(ScanFinished)
    /\ WF_vars(EventLoopIsBack)
    /\ \A s \in Scan : WF_vars(ScanStep(s))

-----------------------------------------------------------------------------
TypeOK ==
    /\ gui \in {"on", "closing", "off"}
    /\ pending \subseteq Dir /\ timer \in BOOLEAN /\ wakes \in Nat
    /\ latest \in Scan \cup {NoScan} /\ notice \in BOOLEAN
    /\ running \subseteq Scan
    /\ left \in [Scan -> [File -> 0 .. Cardinality(Dir)]]
    /\ busy \subseteq Scan \X Worker
    /\ cancelled \in BOOLEAN
    /\ asking \subseteq Query /\ owed \subseteq File

\* Nobody has to ask twice: while directories wait, the timer runs, or a wake-up
\* or a finished signal is due, or the scan that scanWatcher watches is running.
PendingIsWoken ==
    (gui = "on" /\ pending # {})
        => timer \/ wakes > 0 \/ notice \/ latest \in running

\* A file that was asked for and not looked at since is not forgotten: its
\* directory waits, or some scan has the file still on its list.
OwedIsScheduled ==
    gui = "on" =>
        \A f \in owed : \/ \E d \in pending : f \in FilesOf[d]
                        \/ \E s \in running : left[s][f] > 0

\* Every file of a directory is looked at after the directory was asked for, even
\* if a scan had passed it already, however requests, timers and scans overlap.
RequestsAreServed ==
    \A f \in File : f \in owed ~> (f \notin owed \/ gui # "on")

-----------------------------------------------------------------------------
(* What a comment of the code says of cleanup().                           *)

\* TreeSitterPlugin.cpp: scanFuture is used because the watcher "would miss an
\* orphaned one": the engine is not destroyed while a scan uses it.
CleanupWaitsForScans == gui = "off" => running = {}
=============================================================================
