------------------------- MODULE TaskRunner_proofs -------------------------
(***************************************************************************)
(* Proofs about TaskRunner, for every list of projects, every content of   *)
(* their files and every number of runs.                                   *)
(***************************************************************************)
EXTENDS TaskRunner, SequenceTheorems, FiniteSetTheorems, TLAPS

\* An open project has a configuration, and is listed once.
ListInv ==
    /\ IsInjective(open)
    /\ \A p \in ToSet(open) : config[p] # Closed

\* What the user can start belongs to an open project, while one is current.
MenuInv ==
    /\ ButtonIsBacked
    /\ shown # NoProject => index # 0
    /\ saving # NoProject => saving \in ToSet(open) /\ index # 0

\* A claim names a project that is configured, unless it was closed meanwhile.
ClaimedIsOpen(c) == c # NoTask /\ ~c.closed => config[c.project] # Closed

Typed == TypeOK /\ ListInv /\ MenuInv /\ TasksFollowTheFile /\ ClaimedIsOpen(claim)

\* A process that runs is the one of the last epoch, and has the pty it
\* started with; a pty without a process has its release due.
PtyInv ==
    /\ releases \subseteq 1..epoch
    /\ pty # 0 => pty = epoch
    /\ process # Idle => process.run = epoch /\ epoch # 0 /\ epoch \notin releases
    /\ RunsKeepTheirPty
    /\ PtysAreReleased

\* The claim and the process that it is set on tell of the same task.
ClaimInv ==
    /\ process = Idle => claim = NoTask
    /\ process # Idle => (claim = NoTask <=> process.task = NoTask)
    /\ claim # NoTask => /\ claim.project = process.task.project
                         /\ ~claim.gone => claim.kind = process.task.kind
    /\ BuildsAreAnnounced

-----------------------------------------------------------------------------
(* Sequences. *)

\* The places of a sequence and the set of its members.
LEMMA Members ==
    ASSUME NEW S, NEW s \in Seq(S)
    PROVE  /\ DOMAIN s = 1..Len(s)
           /\ ToSet(s) \subseteq S
           /\ \A i \in 1..Len(s) : s[i] \in ToSet(s) /\ s[i] \in S
           /\ s # <<>> => 1 \in DOMAIN s
PROOF
<1>1. DOMAIN s = 1..Len(s) /\ Len(s) \in Nat /\ \A i \in 1..Len(s) : s[i] \in S
  OBVIOUS
<1>2. s # <<>> => Len(s) # 0
  BY EmptySeq
<1> QED
  BY <1>1, <1>2 DEF ToSet

\* Appending a new member to a list without repetition.
LEMMA Appending ==
    ASSUME NEW S, NEW s \in Seq(S), NEW e \in S, IsInjective(s), e \notin ToSet(s)
    PROVE  /\ Append(s, e) \in Seq(S) /\ IsInjective(Append(s, e))
           /\ Len(Append(s, e)) = Len(s) + 1
           /\ Append(s, e)[Len(s) + 1] = e
           /\ ToSet(Append(s, e)) = ToSet(s) \cup {e}
PROOF
<1> DEFINE t == Append(s, e)
<1>1. t \in Seq(S) /\ Len(t) = Len(s) + 1 /\ t[Len(s) + 1] = e /\ \A i \in 1..Len(s) : t[i] = s[i]
  OBVIOUS
<1>2. DOMAIN t = 1..(Len(s) + 1) /\ DOMAIN s = 1..Len(s) /\ Len(s) \in Nat
  BY <1>1
<1>3. ToSet(t) = ToSet(s) \cup {e}
  BY <1>1, <1>2 DEF ToSet
<1>4. IsInjective(t)
  BY <1>1, <1>2 DEF IsInjective, ToSet
<1> QED
  BY <1>1, <1>3, <1>4

\* Removing a place of a list without repetition.
LEMMA Removing ==
    ASSUME NEW S, NEW s \in Seq(S), NEW i \in 1..Len(s), IsInjective(s)
    PROVE  /\ RemoveAt(s, i) \in Seq(S) /\ IsInjective(RemoveAt(s, i))
           /\ Len(RemoveAt(s, i)) = Len(s) - 1
           /\ ToSet(RemoveAt(s, i)) \subseteq ToSet(s) \ {s[i]}
PROOF
<1> DEFINE t == RemoveAt(s, i)
           front == SubSeq(s, 1, i - 1)
           rest == SubSeq(s, i + 1, Len(s))
<1>0. i \in Int /\ Len(s) \in Int /\ 1 <= i /\ i <= Len(s)
  BY LenProperties
<1>1. DOMAIN s = 1..Len(s) /\ Len(s) \in Nat /\ \A j \in 1..Len(s) : s[j] \in S
  OBVIOUS
<1>2. front \in Seq(S) /\ Len(front) = i - 1 /\ \A j \in 1..(i - 1) : front[j] = s[j]
  <2>1. \A j \in 1..(i - 1) : s[j] \in S
    BY <1>1
  <2> QED
    BY <2>1, <1>1, SubSeqProperties
<1>3. rest \in Seq(S) /\ Len(rest) = Len(s) - i /\ \A j \in 1..(Len(s) - i) : rest[j] = s[i + j]
  <2>1. \A j \in (i + 1)..Len(s) : s[j] \in S
    BY <1>1
  <2>2. /\ rest \in Seq(S)
        /\ Len(rest) = IF i + 1 <= Len(s) THEN Len(s) - (i + 1) + 1 ELSE 0
        /\ \A j \in 1..(Len(s) - (i + 1) + 1) : rest[j] = s[(i + 1) + j - 1]
    BY <2>1, <1>1, SubSeqProperties
  <2>3. i \in Int /\ Len(s) - (i + 1) + 1 = Len(s) - i /\ \A j \in Int : (i + 1) + j - 1 = i + j
    BY <1>1
  <2>4. Len(rest) = Len(s) - i
    <3>1. i \in Int /\ Len(s) \in Int /\ (i + 1 <= Len(s) \/ Len(s) - i = 0)
      BY <1>0
    <3> QED
      BY <3>1, <2>2
  <2>5. ASSUME NEW j \in 1..(Len(s) - i) PROVE rest[j] = s[i + j]
    BY <2>2, <2>3
  <2> QED
    BY <2>2, <2>4, <2>5
<1>4. t = front \o rest
  BY DEF RemoveAt
<1> HIDE DEF t, front, rest
<1>5. /\ t \in Seq(S) /\ Len(t) = Len(front) + Len(rest)
      /\ \A j \in 1..(Len(front) + Len(rest)) :
            t[j] = IF j <= Len(front) THEN front[j] ELSE rest[j - Len(front)]
  BY <1>2, <1>3, <1>4, ConcatProperties
<1>6. DOMAIN t = 1..(Len(s) - 1) /\ Len(t) = Len(s) - 1
  BY <1>1, <1>2, <1>3, <1>5
<1>7. \A j \in DOMAIN t : (j < i /\ t[j] = s[j]) \/ (j >= i /\ t[j] = s[j + 1])
  <2> TAKE j \in DOMAIN t
  <2>1. CASE j < i
    <3>1. j \in 1..(Len(front) + Len(rest)) /\ j <= Len(front) /\ j \in 1..(i - 1)
      BY <2>1, <1>0, <1>2, <1>5, <1>6
    <3>2. t[j] = front[j] /\ front[j] = s[j]
      BY <3>1, <1>2, <1>5
    <3> QED
      BY <3>2, <2>1
  <2>2. CASE j >= i
    <3>1. j \in 1..(Len(front) + Len(rest)) /\ ~(j <= Len(front)) /\ Len(front) = i - 1
      BY <2>2, <1>1, <1>2, <1>5, <1>6
    <3>2. t[j] = rest[j - (i - 1)]
      BY <3>1, <1>5
    <3>3. j - (i - 1) \in 1..(Len(s) - i) /\ i + (j - (i - 1)) = j + 1
      BY <2>2, <1>1, <1>6
    <3>4. rest[j - (i - 1)] = s[i + (j - (i - 1))]
      BY <3>3, <1>3
    <3> QED
      BY <3>2, <3>3, <3>4, <2>2
  <2>3. j < i \/ j >= i
    BY <1>1, <1>6
  <2> QED
    BY <2>1, <2>2, <2>3
<1>8. \A j \in DOMAIN t : \E k \in DOMAIN s :
        t[j] = s[k] /\ k # i /\ ((k = j /\ j < i) \/ (k = j + 1 /\ j >= i))
  BY <1>1, <1>6, <1>7
<1>9. IsInjective(t)
  BY <1>1, <1>6, <1>8 DEF IsInjective
<1>10. ToSet(t) \subseteq ToSet(s) \ {s[i]}
  BY <1>1, <1>6, <1>8 DEF IsInjective, ToSet
<1> QED
  BY <1>5, <1>6, <1>9, <1>10 DEF t

-----------------------------------------------------------------------------
(* The operators that several actions share. *)

\* The current project, if there is one, is in the list.
LEMMA CurrentIsOpen ==
    ASSUME TypeOK, index # 0
    PROVE  Current \in Projects /\ Current \in ToSet(open) /\ index \in 1..Len(open)
PROOF BY Members DEF TypeOK, Current

\* What is read from a directory or from its file is a configuration, with the file's tasks.
LEMMA ReadTyped ==
    ASSUME TypeOK, NEW p \in Projects
    PROVE  /\ BuildFromDirectory(p) \in Config
           /\ Parses(disk[p]) => /\ FromFile(disk[p]) \in Config
                                /\ FromFile(disk[p]).tasks = disk[p].tasks
                                /\ BuildFromDirectory(p).tasks = disk[p].tasks
           /\ Scanned[p] \in Config
PROOF
<1>1. Scanned[p] \in Config
  BY TasksAssumption
<1>2. Parses(disk[p]) => disk[p] \in Content
  BY DEF TypeOK, Parses
<1> QED
  BY <1>1, <1>2 DEF BuildFromDirectory, FromFile, Content, Config

\* Whatever is selected, the buttons show tasks and an executable of it.
LEMMA MenusTyped ==
    ASSUME NEW cfg, NEW p, p # NoProject => p \in Projects /\ cfg[p] \in Config,
           selected \in Nat, NewProjectSelected(cfg, p)
    PROVE  /\ shown' \in Projects \cup {NoProject} /\ selected' \in Nat
           /\ target' \in Projects \cup {NoProject, Gone}
           /\ shown' # NoProject => shown' = p /\ selected' \in DOMAIN cfg[p].tasks
PROOF
<1>1. p # NoProject => cfg[p].tasks \in Seq(Kinds) /\ cfg[p].active \in Nat
  BY DEF Config
<1>2. p # NoProject /\ cfg[p].tasks # <<>> => ActiveTask(cfg[p]) \in DOMAIN cfg[p].tasks
  BY <1>1, Members DEF ActiveTask
<1>3. p # NoProject /\ cfg[p].tasks # <<>> => ActiveTask(cfg[p]) \in Nat
  BY <1>1, <1>2 DEF ActiveTask
<1>4. target' \in Projects \cup {NoProject, Gone}
  BY DEF NewProjectSelected, UpdateExecutablesUI
<1> QED
  BY <1>2, <1>3, <1>4 DEF NewProjectSelected, UpdateTasksUI

\* The handler of finished() changes which executables a project has, and
\* which one is selected, and nothing else of the configurations.
LEMMA FinishedTyped ==
    ASSUME TypeOK, ClaimedIsOpen(claim), process # Idle, NEW outcome, Finished(outcome, claim)
    PROVE  /\ verdict' \in Verdict
           /\ config' \in [Projects -> Config \cup {Closed}]
           /\ target' \in Projects \cup {NoProject, Gone}
           /\ \A p \in Projects : /\ config'[p] = Closed => config[p] = Closed
                                 /\ config'[p].tasks = config[p].tasks
PROOF
<1>1. claim # NoTask => /\ claim.project \in Projects /\ claim.kind \in Kinds
                        /\ claim.gone \in BOOLEAN /\ claim.closed \in BOOLEAN
  BY DEF Claim, TypeOK
<1>2. process.task # NoTask => process.task.project \in Projects
  BY DEF TypeOK, Process, Task
<1>3. PICK isBuild \in BOOLEAN :
        /\ isBuild => claim # NoTask
        /\ LET announce == outcome = "ok" /\ isBuild
           IN  /\ verdict' = [built |-> IF outcome = "ok" /\ process.task # NoTask /\ process.task.kind = "build"
                                        THEN process.task.project ELSE NoProject,
                              announced |-> IF announce THEN claim.project ELSE NoProject,
                              gone |-> claim # NoTask /\ claim.gone]
               /\ \/ /\ announce /\ claim.auto
                     /\ \E found \in Finds :
                           /\ config' = IF claim.closed THEN config
                                        ELSE [config EXCEPT ![claim.project].targets = found]
                           /\ target' = CASE ~found -> NoProject
                                          [] found /\ claim.closed -> Gone
                                          [] OTHER -> claim.project
                  \/ ~(announce /\ claim.auto) /\ UNCHANGED <<config, target>>
  BY <1>1 DEF Finished
<1>4. verdict' \in Verdict
  BY <1>1, <1>2, <1>3 DEF Verdict
<1>5. CASE UNCHANGED <<config, target>>
  BY <1>4, <1>5 DEF TypeOK
<1>6. CASE claim # NoTask /\ claim.closed /\ config' = config
           /\ target' \in {NoProject, Gone, claim.project}
  BY <1>1, <1>4, <1>6 DEF TypeOK
<1>7. ASSUME NEW found \in Finds, claim # NoTask, ~claim.closed,
             config' = [config EXCEPT ![claim.project].targets = found],
             target' \in {NoProject, Gone, claim.project}
      PROVE  /\ config' \in [Projects -> Config \cup {Closed}]
             /\ target' \in Projects \cup {NoProject, Gone}
             /\ \A p \in Projects : /\ config'[p] = Closed => config[p] = Closed
                                   /\ config'[p].tasks = config[p].tasks
  <2> DEFINE q == claim.project
  <2>1. q \in Projects /\ config[q] \in Config /\ found \in BOOLEAN
    BY <1>1, <1>7, TasksAssumption DEF ClaimedIsOpen, TypeOK
  <2>2. [config[q] EXCEPT !.targets = found] \in Config
        /\ [config[q] EXCEPT !.targets = found].tasks = config[q].tasks
    BY <2>1 DEF Config
  <2>3. config' = [config EXCEPT ![q] = [config[q] EXCEPT !.targets = found]]
    BY <1>7
  <2> QED
    BY <1>7, <2>1, <2>2, <2>3, TasksAssumption DEF TypeOK
<1> QED
  BY <1>1, <1>3, <1>4, <1>5, <1>6, <1>7

\* What runCommand() does to the process, and to the claim it sets.
LEMMA StartTyped ==
    ASSUME TypeOK, NEW task \in Task \cup {NoTask}, NEW newClaim \in Claim \cup {NoTask},
           ClaimedIsOpen(newClaim), Start(task, newClaim)
    PROVE  /\ process' \in Process \cup {Idle}
           /\ claim' \in Claim \cup {NoTask} /\ claim' \in {newClaim, NoTask}
           /\ pty' \in Nat /\ epoch' \in Nat /\ crashed' \in BOOLEAN
           /\ ClaimedIsOpen(claim')
PROOF
<1>1. epoch' \in Nat /\ epoch' = epoch + 1
  BY DEF Start, TypeOK
<1>2. PICK tty \in BOOLEAN :
        \/ /\ process' = [run |-> epoch', tty |-> tty, task |-> task]
           /\ pty' = (IF tty THEN epoch' ELSE 0) /\ claim' = newClaim /\ UNCHANGED crashed
        \/ /\ process' = Idle /\ pty' = 0 /\ claim' = NoTask
           /\ crashed' = (Current = NoProject)
  BY DEF Start
<1>3. process' \in Process \cup {Idle} /\ pty' \in Nat
  BY <1>1, <1>2 DEF TypeOK, Process
<1>4. crashed' \in BOOLEAN
  BY <1>2 DEF TypeOK
<1>5. claim' \in {newClaim, NoTask} /\ ClaimedIsOpen(claim')
  BY <1>2 DEF ClaimedIsOpen
<1> QED
  BY <1>1, <1>3, <1>4, <1>5

\* What a run may touch of what Typed speaks of.
RunKeepsTypes ==
    /\ process' \in Process \cup {Idle} /\ claim' \in Claim \cup {NoTask}
    /\ pty' \in Nat /\ epoch' \in Nat /\ releases' \subseteq Nat /\ crashed' \in BOOLEAN
    /\ verdict' \in Verdict
    /\ config' \in [Projects -> Config \cup {Closed}]
    /\ target' \in Projects \cup {NoProject, Gone}
    /\ \A p \in Projects : /\ config'[p] = Closed => config[p] = Closed
                          /\ config'[p].tasks = config[p].tasks
    /\ ClaimedIsOpen(claim)'

\* Running a command, which may end another one first, keeps the types.
LEMMA RunCommandTyped ==
    ASSUME Typed, NEW task \in Task \cup {NoTask}, NEW newClaim \in Claim \cup {NoTask},
           ClaimedIsOpen(newClaim), RunCommand(task, newClaim)
    PROVE  RunKeepsTypes
PROOF
<1> USE DEF Typed
<1>1. CASE process = Idle /\ Start(task, newClaim) /\ UNCHANGED <<config, target, releases, verdict>>
  BY <1>1, StartTyped DEF RunKeepsTypes, TypeOK, ClaimedIsOpen
<1>2. CASE UNCHANGED <<config, target, runVars>> /\ crashed' \in BOOLEAN
  BY <1>2 DEF RunKeepsTypes, TypeOK, runVars, ClaimedIsOpen
<1>3. ASSUME NEW outcome, process # Idle, Finished(outcome, claim),
             releases' = releases \cup {epoch}, Start(task, newClaim)
      PROVE  RunKeepsTypes
  <2>1. /\ verdict' \in Verdict
        /\ config' \in [Projects -> Config \cup {Closed}]
        /\ target' \in Projects \cup {NoProject, Gone}
        /\ \A p \in Projects : /\ config'[p] = Closed => config[p] = Closed
                              /\ config'[p].tasks = config[p].tasks
    BY <1>3, FinishedTyped
  <2>2. /\ process' \in Process \cup {Idle}
        /\ claim' \in Claim \cup {NoTask}
        /\ pty' \in Nat /\ epoch' \in Nat /\ crashed' \in BOOLEAN
        /\ ClaimedIsOpen(claim')
    BY <1>3, StartTyped
  <2>3. releases' \subseteq Nat
    BY <1>3 DEF TypeOK
  <2>4. ClaimedIsOpen(claim)'
    BY <2>1, <2>2 DEF ClaimedIsOpen, Claim
  <2> QED
    BY <2>1, <2>2, <2>3, <2>4 DEF RunKeepsTypes
<1>4. UNCHANGED crashed => crashed' \in BOOLEAN
  BY DEF TypeOK
<1> QED
  BY <1>1, <1>2, <1>3, <1>4 DEF RunCommand

\* Running a task of an open project keeps the types.
LEMMA DoRunTaskTyped ==
    ASSUME Typed, index # 0, NEW home \in Projects, config[home] \in Config,
           NEW i \in DOMAIN config[home].tasks, NEW by \in {"button", "menu"},
           DoRunTask(home, i, by)
    PROVE  RunKeepsTypes
PROOF
<1> DEFINE kind == config[home].tasks[i]
           task == [project |-> Current, kind |-> kind, by |-> by]
           newClaim == [project |-> Current, kind |-> kind, auto |-> config[Current].auto,
                        gone |-> FALSE, closed |-> FALSE]
<1>1. Current \in Projects /\ config[Current] \in Config
  BY CurrentIsOpen DEF Typed, ListInv, TypeOK
<1>2. kind \in Kinds
  <2>1. config[home].tasks \in Seq(Kinds)
    BY DEF Config
  <2> QED
    BY <2>1, Members
<1>3. config[Current].auto \in BOOLEAN
  BY <1>1 DEF Config
<1>4. task \in Task /\ newClaim \in Claim
  BY <1>1, <1>2, <1>3 DEF Task, Claim
<1>5. ClaimedIsOpen(newClaim)
  BY <1>1, TasksAssumption DEF ClaimedIsOpen
<1>6. CASE UNCHANGED <<config, target, runVars, crashed>>
  BY <1>6 DEF RunKeepsTypes, Typed, TypeOK, runVars, ClaimedIsOpen
<1>7. CASE RunCommand(task, newClaim)
  BY <1>4, <1>5, <1>7, RunCommandTyped
<1> QED
  BY <1>6, <1>7 DEF DoRunTask

\* A step that leaves the lists and menus alone and runs something.
LEMMA RunStepTyped ==
    ASSUME Typed, RunKeepsTypes, UNCHANGED <<menuVars, fileVars>>,
           saving' \in {saving, NoProject}
    PROVE  Typed'
PROOF
<1> USE DEF Typed
<1>1. TypeOK'
  BY DEF RunKeepsTypes, TypeOK, menuVars, fileVars
<1>2. ListInv'
  BY Members DEF RunKeepsTypes, TypeOK, ListInv, menuVars
<1>3. MenuInv'
  <2>1. shown # NoProject => config'[shown].tasks = config[shown].tasks
    BY DEF RunKeepsTypes, TypeOK
  <2> QED
    BY <2>1 DEF MenuInv, ButtonIsBacked, menuVars
<1>4. TasksFollowTheFile'
  BY DEF RunKeepsTypes, TypeOK, TasksFollowTheFile, fileVars
<1> QED
  BY <1>1, <1>2, <1>3, <1>4 DEF RunKeepsTypes

\* The types hold at the start.
LEMMA InitTyped == Init => Typed
PROOF
<1> SUFFICES ASSUME Init PROVE Typed
  OBVIOUS
<1> USE DEF Init
<1>1. disk \in [Projects -> Content \cup {Missing, Broken}]
  <2>1. \A p \in Projects : disk[p] \in Files[p] /\ disk = [q \in Projects |-> disk[q]]
    OBVIOUS
  <2>2. \A p \in Projects : Files[p] \subseteq Content \cup {Missing, Broken}
    BY TasksAssumption
  <2> QED
    BY <2>1, <2>2
<1>2. open \in Seq(Projects) /\ IsInjective(open)
  <2>1. Cardinality(Projects) \in Nat
    BY TasksAssumption, FS_CardinalityType
  <2>2. PICK m \in 0..Cardinality(Projects) : open \in [1..m -> Projects]
    BY DEF SeqOf
  <2> QED
    BY <2>1, <2>2
<1>3. ToSet(open) \subseteq Projects /\ DOMAIN open = 1..Len(open) /\ Len(open) \in Nat
      /\ \A i \in 1..Len(open) : open[i] \in ToSet(open)
  BY <1>2, Members
<1>4. ASSUME NEW p \in Projects
      PROVE  /\ BuildFromDirectory(p) \in Config
             /\ Parses(disk[p]) => BuildFromDirectory(p).tasks = disk[p].tasks
  BY <1>1, TasksAssumption DEF BuildFromDirectory, FromFile, Parses, Content, Config
<1>5. config \in [Projects -> Config \cup {Closed}]
      /\ \A p \in ToSet(open) : config[p] = BuildFromDirectory(p) /\ config[p] \in Config
  BY <1>3, <1>4
<1>6. /\ shown \in Projects \cup {NoProject} /\ selected \in Nat
      /\ target \in Projects \cup {NoProject, Gone} /\ index \in 0..Len(open)
      /\ shown # NoProject => /\ index # 0 /\ shown \in ToSet(open)
                              /\ selected \in DOMAIN config[shown].tasks
  <2>1. CASE index = Len(open) /\ shown = NoProject /\ selected = 1 /\ target = NoProject
    BY <2>1, <1>3
  <2>2. CASE ~(index = Len(open) /\ shown = NoProject /\ selected = 1 /\ target = NoProject)
    <3> DEFINE c == config[open[index]]
    <3>1. /\ index \in DOMAIN open
          /\ shown = IF c.tasks = <<>> THEN NoProject ELSE open[index]
          /\ selected = IF c.tasks = <<>> THEN 1 ELSE ActiveTask(c)
          /\ target = IF c.targets THEN open[index] ELSE NoProject
      BY <2>2
    <3>2. open[index] \in ToSet(open) /\ open[index] \in Projects /\ c \in Config
      BY <3>1, <1>3, <1>5
    <3>3. c.tasks \in Seq(Kinds) /\ c.active \in Nat
      BY <3>2 DEF Config
    <3>4. c.tasks # <<>> => ActiveTask(c) \in DOMAIN c.tasks /\ ActiveTask(c) \in Nat
      BY <3>3, Members DEF ActiveTask
    <3> HIDE DEF Init
    <3> QED
      BY <3>1, <3>2, <3>4, <1>3
  <2> QED
    BY <2>1, <2>2
<1>7. TypeOK
  <2>1. process = Idle /\ claim = NoTask /\ pty = 0 /\ epoch = 0 /\ releases = {} /\ crashed = FALSE
        /\ changed = {} /\ saving = NoProject /\ watched \subseteq Projects
    BY <1>3
  <2>2. verdict \in Verdict
    BY DEF Verdict
  <2> HIDE DEF Init
  <2> QED
    BY <1>1, <1>2, <1>5, <1>6, <2>1, <2>2 DEF TypeOK
<1>8. ListInv /\ MenuInv /\ TasksFollowTheFile /\ ClaimedIsOpen(claim)
  <2>1. \A p \in watched : Parses(disk[p]) => config[p].tasks = disk[p].tasks
    BY <1>3, <1>4, <1>5
  <2>2. TasksFollowTheFile
    BY <2>1 DEF TasksFollowTheFile
  <2>3. ListInv
    <3> HIDE DEF Init
    <3>0. Closed \notin Config
      BY TasksAssumption
    <3>1. \A p \in ToSet(open) : config[p] # Closed
      BY <1>5, <3>0
    <3> QED
      BY <3>1, <1>2 DEF ListInv
  <2>4. MenuInv
    BY <1>6 DEF MenuInv, ButtonIsBacked
  <2> QED
    BY <2>2, <2>3, <2>4 DEF ClaimedIsOpen
<1> QED
  BY <1>7, <1>8 DEF Typed

\* Reading a file again, for whatever reason.
LEMMA ReloadTyped ==
    ASSUME Typed, NEW p \in changed, ProjectFileModified(p)
    PROVE  Typed'
PROOF
<1> USE DEF Typed
<1>1. p \in Projects /\ changed' = changed \ {p}
  BY DEF TypeOK, ProjectFileModified
<1>2. UNCHANGED <<open, index, disk, watched, saving, process, pty, epoch, releases, verdict, crashed>>
  BY DEF ProjectFileModified
<1>3. ASSUME NEW c \in Config, Reload(p, c),
             Parses(disk[p]) => c.tasks = disk[p].tasks
      PROVE  Typed'
  <2>1. config' = [config EXCEPT ![p] = c] /\ NewProjectSelected(config', Current)
    BY <1>3 DEF Reload
  <2>2. config' \in [Projects -> Config \cup {Closed}]
        /\ config'[p] = c /\ \A q \in Projects \ {p} : config'[q] = config[q]
    BY <1>1, <2>1 DEF TypeOK
  <2>3. ListInv'
    BY <1>2, <2>2, TasksAssumption, Members DEF ListInv, TypeOK
  <2>4. Current # NoProject => /\ Current \in Projects /\ config'[Current] \in Config
                               /\ index # 0 /\ Current \in ToSet(open)
    <3>1. Current # NoProject => index # 0
      BY DEF Current
    <3> QED
      BY <3>1, <1>2, <2>2, <2>3, CurrentIsOpen DEF ListInv
  <2>5. /\ shown' \in Projects \cup {NoProject} /\ selected' \in Nat
        /\ target' \in Projects \cup {NoProject, Gone}
        /\ shown' # NoProject => shown' = Current /\ selected' \in DOMAIN config'[Current].tasks
    BY <2>1, <2>4, MenusTyped DEF TypeOK
  <2>6. MenuInv'
    BY <1>2, <2>4, <2>5 DEF MenuInv, ButtonIsBacked
  <2>7. claim' \in Claim \cup {NoTask}
    <3>1. CASE claim' = claim
      BY <3>1 DEF TypeOK
    <3>2. CASE claim # NoTask /\ claim' = [claim EXCEPT !.gone = (process.task.by = "button") \/ @, !.auto = c.auto]
      <4>1. claim \in Claim /\ c.auto \in BOOLEAN
        BY <3>2 DEF TypeOK, Config
      <4>2. ((process.task.by = "button") \/ claim.gone) \in BOOLEAN
        OBVIOUS
      <4> QED
        BY <3>2, <4>1, <4>2 DEF Claim
    <3> QED
      BY <1>3, <3>1, <3>2 DEF Reload
  <2>8. ClaimedIsOpen(claim)'
    <3>1. claim # NoTask => claim'.project = claim.project /\ claim'.closed = claim.closed
      BY <1>3 DEF Reload, TypeOK, Claim
    <3>2. claim = NoTask => claim' = NoTask
      BY <1>3 DEF Reload
    <3>3. \A q \in Projects : config'[q] = Closed => config[q] = Closed
      BY <1>1, <2>2, TasksAssumption
    <3>4. claim # NoTask => claim.project \in Projects
      BY DEF TypeOK, Claim
    <3> QED
      BY <3>1, <3>2, <3>3, <3>4 DEF ClaimedIsOpen
  <2>9. TasksFollowTheFile'
    BY <1>1, <1>2, <1>3, <2>2 DEF TasksFollowTheFile, TypeOK
  <2>10. TypeOK'
    BY <1>1, <1>2, <2>2, <2>5, <2>7 DEF TypeOK
  <2> QED
    BY <2>3, <2>6, <2>8, <2>9, <2>10
<1>4. CASE /\ Parses(disk[p]) => SameConfig(config[p], disk[p])
           /\ UNCHANGED <<config, claim, shown, selected, target>>
  <2>1. TypeOK'
    BY <1>1, <1>2, <1>4 DEF TypeOK
  <2>2. TasksFollowTheFile'
    BY <1>1, <1>2, <1>4 DEF TasksFollowTheFile, SameConfig
  <2> QED
    BY <1>2, <1>4, <2>1, <2>2 DEF ListInv, MenuInv, ButtonIsBacked, ClaimedIsOpen
<1>5. CASE Parses(disk[p]) /\ Reload(p, FromFile(disk[p]))
  BY <1>1, <1>3, <1>5, ReadTyped
<1>6. CASE disk[p] = Missing /\ Reload(p, Scanned[p])
  BY <1>1, <1>3, <1>6, ReadTyped DEF Parses
<1> QED
  BY <1>4, <1>5, <1>6 DEF ProjectFileModified, Parses

\* A project joins the list, current or not, watched if its file can be read.
LEMMA OpeningTyped ==
    ASSUME Typed, NEW p \in Projects, AddProject(p) \/ TryOpenProject(p)
    PROVE  Typed'
PROOF
<1> USE DEF Typed
<1>1. /\ p \notin ToSet(open) /\ saving = NoProject
      /\ open' = Append(open, p)
      /\ config' = [config EXCEPT ![p] = BuildFromDirectory(p)]
      /\ NewProjectSelected(config', p)
      /\ index' \in {1, index, Len(open) + 1} /\ index' # 0 /\ (index' = 1 \/ index' = index \/ index' = Len(open) + 1)
      /\ watched' \in {watched, watched \cup {p}}
      /\ UNCHANGED <<disk, changed, saving, process, claim, pty, epoch, releases, verdict, crashed>>
  <2>1. Len(open) \in Nat
    BY DEF TypeOK
  <2> QED
    BY <2>1 DEF AddProject, TryOpenProject, Responsive, fileVars, runVars, NewProjectSelected
<1>2. /\ open' \in Seq(Projects) /\ IsInjective(open') /\ Len(open') = Len(open) + 1
      /\ ToSet(open') = ToSet(open) \cup {p} /\ Len(open) \in Nat
  BY <1>1, Appending DEF TypeOK, ListInv
<1>3. index' \in 0..Len(open')
  BY <1>1, <1>2 DEF TypeOK
<1>4. BuildFromDirectory(p) \in Config /\ (Parses(disk[p]) => BuildFromDirectory(p).tasks = disk[p].tasks)
  BY ReadTyped
<1>5. config' \in [Projects -> Config \cup {Closed}]
      /\ config'[p] = BuildFromDirectory(p) /\ \A q \in Projects \ {p} : config'[q] = config[q]
  BY <1>1, <1>4 DEF TypeOK
<1>6. /\ shown' \in Projects \cup {NoProject} /\ selected' \in Nat
      /\ target' \in Projects \cup {NoProject, Gone}
      /\ shown' # NoProject => shown' = p /\ selected' \in DOMAIN config'[p].tasks
  BY <1>1, <1>4, <1>5, MenusTyped DEF TypeOK
<1>7. TypeOK'
  BY <1>1, <1>2, <1>3, <1>5, <1>6 DEF TypeOK
<1>8. ListInv'
  <2>1. Closed \notin Config /\ ToSet(open) \subseteq Projects
    BY TasksAssumption, Members DEF TypeOK
  <2> QED
    BY <1>2, <1>4, <1>5, <2>1 DEF ListInv
<1>9. MenuInv'
  BY <1>1, <1>2, <1>6 DEF MenuInv, ButtonIsBacked
<1>10. TasksFollowTheFile'
  BY <1>1, <1>4, <1>5 DEF TasksFollowTheFile, TypeOK
<1>11. ClaimedIsOpen(claim)'
  <2>1. claim # NoTask => claim.project \in Projects
    BY DEF TypeOK, Claim
  <2>2. Closed \notin Config
    BY TasksAssumption
  <2> QED
    BY <1>1, <1>4, <1>5, <2>1, <2>2 DEF ClaimedIsOpen
<1> QED
  BY <1>7, <1>8, <1>9, <1>10, <1>11

\* A project leaves the list, and a claim on it is known to be of a closed one.
LEMMA RemovalTyped ==
    ASSUME Typed, RemoveProject
    PROVE  Typed'
PROOF
<1> USE DEF Typed
<1> DEFINE next == IF index' = 0 THEN NoProject ELSE open'[index']
<1>1. /\ index # 0 /\ saving = NoProject
      /\ open' = RemoveAt(open, index)
      /\ index' = IF index > Len(open') THEN Len(open') ELSE index
      /\ watched' = watched \ {Current} /\ changed' = changed \ {Current}
      /\ config' = [config EXCEPT ![Current] = Closed]
      /\ NewProjectSelected(config', next)
      /\ UNCHANGED <<disk, saving, process, pty, epoch, releases, verdict, crashed>>
  BY DEF RemoveProject, Responsive
<1>2. index \in 1..Len(open) /\ Current \in Projects /\ Current = open[index]
  BY <1>1, CurrentIsOpen DEF Current
<1>3. /\ open' \in Seq(Projects) /\ IsInjective(open') /\ Len(open') = Len(open) - 1
      /\ ToSet(open') \subseteq ToSet(open) \ {Current}
  BY <1>1, <1>2, Removing DEF TypeOK, ListInv
<1>4. index' \in 0..Len(open')
  <2>1. Len(open') \in Nat /\ index \in Nat /\ index >= 1
    BY <1>2, <1>3
  <2> QED
    BY <1>1, <2>1
<1>5. config' \in [Projects -> Config \cup {Closed}]
      /\ \A q \in Projects \ {Current} : config'[q] = config[q]
  BY <1>1, <1>2 DEF TypeOK
<1>6. ListInv'
  BY <1>3, <1>5, Members DEF ListInv, TypeOK
<1>7. next # NoProject => next \in Projects /\ next \in ToSet(open') /\ index' # 0 /\ config'[next] \in Config
  <2>1. index' # 0 => next \in ToSet(open') /\ next \in Projects
    BY <1>3, <1>4, Members
  <2> QED
    BY <1>5, <1>6, <2>1 DEF ListInv
<1>8. /\ shown' \in Projects \cup {NoProject} /\ selected' \in Nat
      /\ target' \in Projects \cup {NoProject, Gone}
      /\ shown' # NoProject => shown' = next /\ selected' \in DOMAIN config'[next].tasks
  <2> HIDE DEF next
  <2> QED
    BY <1>1, <1>7, MenusTyped DEF TypeOK
<1>9. MenuInv'
  <2> HIDE DEF next
  <2> QED
    BY <1>1, <1>7, <1>8 DEF MenuInv, ButtonIsBacked
<1>10. /\ claim' \in Claim \cup {NoTask}
       /\ ClaimedIsOpen(claim)'
  <2>1. CASE claim # NoTask /\ claim.project = Current
    <3>1. claim' = [claim EXCEPT !.closed = TRUE] /\ claim \in Claim
      BY <2>1 DEF RemoveProject, TypeOK
    <3> QED
      BY <3>1 DEF Claim, ClaimedIsOpen
  <2>2. CASE ~(claim # NoTask /\ claim.project = Current)
    <3>1. claim' = claim
      BY <2>2 DEF RemoveProject
    <3>2. claim # NoTask => claim.project \in Projects \ {Current}
      BY <2>2 DEF TypeOK, Claim
    <3> QED
      BY <3>1, <3>2, <1>5 DEF TypeOK, ClaimedIsOpen
  <2> QED
    BY <2>1, <2>2
<1>11. TypeOK'
  <2>1. UNCHANGED <<disk, saving, process, pty, epoch, releases, verdict, crashed>>
    BY <1>1
  <2>2. watched' \subseteq Projects /\ changed' \subseteq Projects
    BY <1>1 DEF TypeOK
  <2> HIDE DEF next
  <2> QED
    BY <1>3, <1>4, <1>5, <1>8, <1>10, <2>1, <2>2 DEF TypeOK
<1>12. TasksFollowTheFile'
  BY <1>1, <1>5 DEF TasksFollowTheFile, TypeOK
<1> QED
  BY <1>6, <1>9, <1>10, <1>11, <1>12

\* Selecting a project keeps the types.
LEMMA SelectionTyped ==
    ASSUME Typed, NEW i \in DOMAIN open, SelectProject(i)
    PROVE  Typed'
PROOF
<1> USE DEF Typed
<1>1. /\ saving = NoProject /\ index' = i /\ NewProjectSelected(config, open[i])
      /\ UNCHANGED <<open, config, disk, watched, changed, saving, process, claim,
                     pty, epoch, releases, verdict, crashed>>
  BY DEF SelectProject, Responsive, fileVars, runVars
<1>2. i \in 1..Len(open) /\ i # 0 /\ i \in 0..Len(open)
  BY LenProperties DEF TypeOK
<1>3. open[i] \in Projects /\ open[i] \in ToSet(open) /\ config[open[i]] \in Config
  BY <1>2, Members DEF TypeOK, ListInv
<1>4. /\ shown' \in Projects \cup {NoProject} /\ selected' \in Nat
      /\ target' \in Projects \cup {NoProject, Gone}
      /\ shown' # NoProject => shown' = open[i] /\ selected' \in DOMAIN config[open[i]].tasks
  BY <1>1, <1>3, MenusTyped DEF TypeOK
<1>5. TypeOK'
  BY <1>1, <1>2, <1>4 DEF TypeOK
<1>6. ListInv' /\ MenuInv' /\ TasksFollowTheFile' /\ ClaimedIsOpen(claim)'
  BY <1>1, <1>2, <1>3, <1>4
     DEF ListInv, MenuInv, ButtonIsBacked, TasksFollowTheFile, ClaimedIsOpen
<1> QED
  BY <1>5, <1>6

\* Steps that assign a configuration of the same tasks and leave the lists be.
LEMMA RetouchTyped ==
    ASSUME Typed, NEW p \in ToSet(open), NEW c \in Config, c.tasks = config[p].tasks,
           config' = [config EXCEPT ![p] = c],
           UNCHANGED <<open, index, shown, target, saving, runVars>>
    PROVE  /\ config' \in [Projects -> Config \cup {Closed}]
           /\ \A q \in Projects : config'[q].tasks = config[q].tasks
           /\ ListInv' /\ ClaimedIsOpen(claim)'
PROOF
<1> USE DEF Typed
<1>1. p \in Projects /\ ToSet(open) \subseteq Projects /\ Closed \notin Config
  BY Members, TasksAssumption DEF TypeOK
<1>2. /\ config' \in [Projects -> Config \cup {Closed}]
      /\ config'[p] = c /\ \A q \in Projects \ {p} : config'[q] = config[q]
  BY <1>1 DEF TypeOK
<1>3. claim # NoTask => claim.project \in Projects
  BY DEF TypeOK, Claim
<1> QED
  BY <1>1, <1>2, <1>3 DEF ListInv, ClaimedIsOpen, runVars

\* Selecting a task keeps the types.
LEMMA SelectTaskTyped ==
    ASSUME Typed, NEW i \in Nat, SelectTask(i)
    PROVE  Typed'
PROOF
<1> USE DEF Typed
<1> DEFINE c == [config[shown] EXCEPT !.active = i]
<1>1. /\ shown # NoProject /\ i \in DOMAIN config[shown].tasks /\ selected' = i
      /\ config' = [config EXCEPT ![shown] = c]
      /\ UNCHANGED <<open, index, shown, target, disk, watched, changed, saving, runVars, crashed>>
  BY DEF SelectTask, fileVars
<1>2. shown \in ToSet(open) /\ shown \in Projects /\ config[shown] \in Config
  BY <1>1 DEF MenuInv, ButtonIsBacked, ListInv, TypeOK
<1>3. c \in Config /\ c.tasks = config[shown].tasks
  BY <1>2 DEF Config
<1>4. /\ config' \in [Projects -> Config \cup {Closed}]
      /\ \A q \in Projects : config'[q].tasks = config[q].tasks
      /\ ListInv' /\ ClaimedIsOpen(claim)'
  <2> HIDE DEF c
  <2> QED
    BY <1>1, <1>2, <1>3, RetouchTyped
<1>5. TypeOK'
  BY <1>1, <1>4 DEF TypeOK, runVars
<1>6. MenuInv' /\ TasksFollowTheFile'
  BY <1>1, <1>2, <1>4 DEF MenuInv, ButtonIsBacked, TasksFollowTheFile, TypeOK
<1> QED
  BY <1>4, <1>5, <1>6

\* Editing the configuration keeps the types.
LEMMA EditTyped ==
    ASSUME Typed, EditBuildConfig
    PROVE  Typed'
PROOF
<1> USE DEF Typed
<1>1. UNCHANGED <<open, index, shown, selected, target, saving, runVars>>
  BY DEF EditBuildConfig, menuVars
<1>2. CASE index = 0
  <2>1. crashed' = TRUE /\ UNCHANGED <<config, disk, watched, changed>>
    BY <1>2 DEF EditBuildConfig, fileVars
  <2>2. UNCHANGED <<process, claim, pty, epoch, releases, verdict>>
    BY <1>1 DEF runVars
  <2>3. TypeOK'
    BY <1>1, <2>1, <2>2 DEF TypeOK
  <2>4. ListInv' /\ MenuInv' /\ TasksFollowTheFile' /\ ClaimedIsOpen(claim)'
    BY <1>1, <2>1, <2>2 DEF ListInv, MenuInv, ButtonIsBacked, TasksFollowTheFile, ClaimedIsOpen
  <2> QED
    BY <2>3, <2>4
<1>3. CASE index # 0
  <2> DEFINE c == [config[Current] EXCEPT !.file = TRUE]
  <2>1. /\ disk' = [disk EXCEPT ![Current] = Saved(config[Current])]
        /\ config' = [config EXCEPT ![Current] = c]
        /\ watched' = watched \cup {Current} /\ UNCHANGED <<changed, crashed>>
    BY <1>3 DEF EditBuildConfig
  <2>2. Current \in Projects /\ Current \in ToSet(open) /\ config[Current] \in Config
    BY <1>3, CurrentIsOpen DEF ListInv, TypeOK
  <2>3. c \in Config /\ c.tasks = config[Current].tasks
    BY <2>2 DEF Config
  <2>4. \/ Saved(config[Current]) = Broken
        \/ /\ Saved(config[Current]) \in Content
           /\ Saved(config[Current]).tasks = config[Current].tasks
    BY <2>2 DEF Saved, Config, Content
  <2> HIDE DEF c
  <2>5. /\ config' \in [Projects -> Config \cup {Closed}]
        /\ \A q \in Projects : config'[q].tasks = config[q].tasks
        /\ ListInv' /\ ClaimedIsOpen(claim)'
    BY <1>1, <2>1, <2>2, <2>3, RetouchTyped
  <2>6. /\ disk' \in [Projects -> Content \cup {Missing, Broken}]
        /\ disk'[Current] = Saved(config[Current])
        /\ \A q \in Projects \ {Current} : disk'[q] = disk[q]
    BY <2>1, <2>2, <2>4 DEF TypeOK
  <2>7. TypeOK'
    BY <1>1, <2>1, <2>2, <2>5, <2>6 DEF TypeOK, runVars
  <2>8. MenuInv'
    BY <1>1, <2>5 DEF MenuInv, ButtonIsBacked, TypeOK
  <2>9. TasksFollowTheFile'
    BY <2>1, <2>2, <2>4, <2>5, <2>6 DEF TasksFollowTheFile, TypeOK, Parses
  <2> QED
    BY <2>5, <2>7, <2>8, <2>9
<1> QED
  BY <1>2, <1>3

\* A program that writes a configuration file keeps the types.
LEMMA WriteTyped ==
    ASSUME Typed, NEW p \in Projects, NEW d \in Files[p], WriteFile(p, d)
    PROVE  Typed'
PROOF
<1> USE DEF Typed
<1>1. /\ disk' = [disk EXCEPT ![p] = d]
      /\ changed' = IF p \in watched THEN changed \cup {p} ELSE changed
      /\ watched' \in {watched, watched \ {p}}
      /\ UNCHANGED <<open, index, shown, selected, config, target, saving, runVars, crashed>>
  BY DEF WriteFile, menuVars
<1>2. d \in Content \cup {Missing, Broken}
  BY TasksAssumption
<1>3. /\ disk' \in [Projects -> Content \cup {Missing, Broken}]
      /\ \A q \in Projects \ {p} : disk'[q] = disk[q]
  BY <1>1, <1>2 DEF TypeOK
<1>4. TypeOK'
  BY <1>1, <1>3 DEF TypeOK, runVars
<1>5. TasksFollowTheFile'
  BY <1>1, <1>3 DEF TasksFollowTheFile, TypeOK
<1> QED
  BY <1>1, <1>4, <1>5 DEF ListInv, MenuInv, ButtonIsBacked, ClaimedIsOpen, runVars

\* The end of a process keeps the types.
LEMMA EndTyped ==
    ASSUME Typed, ProcessEnds
    PROVE  Typed'
PROOF
<1> USE DEF Typed
<1>1. UNCHANGED <<menuVars, fileVars, saving>> /\ process # Idle
  BY DEF ProcessEnds
<1>2. CASE crashed' = TRUE /\ UNCHANGED <<config, target, runVars>>
  BY <1>1, <1>2, RunStepTyped DEF RunKeepsTypes, TypeOK, runVars, ClaimedIsOpen
<1>3. ASSUME NEW outcome, Finished(outcome, claim), process' = Idle, claim' = NoTask,
             releases' = releases \cup {epoch}, UNCHANGED <<pty, epoch, crashed>>
      PROVE  Typed'
  <2>1. /\ verdict' \in Verdict
        /\ config' \in [Projects -> Config \cup {Closed}]
        /\ target' \in Projects \cup {NoProject, Gone}
        /\ \A p \in Projects : /\ config'[p] = Closed => config[p] = Closed
                              /\ config'[p].tasks = config[p].tasks
    BY <1>1, <1>3, FinishedTyped
  <2>2. RunKeepsTypes
    BY <1>3, <2>1 DEF RunKeepsTypes, TypeOK, ClaimedIsOpen
  <2> QED
    BY <1>1, <2>2, RunStepTyped
<1> QED
  BY <1>2, <1>3 DEF ProcessEnds

\* The steps in which the user, or the end of the saving, starts something.
LEMMA RunningTyped ==
    ASSUME Typed, SavesDone \/ (\E i \in 1..MaxTasks : RunTaskFromMenu(i)) \/ RunTarget \/ RunScript
    PROVE  Typed'
PROOF
<1> USE DEF Typed
<1>1. /\ UNCHANGED <<menuVars, fileVars>> /\ saving' \in {saving, NoProject}
  BY DEF SavesDone, RunTaskFromMenu, RunTarget, RunScript
<1>2. CASE UNCHANGED <<config, target, runVars>> /\ crashed' \in BOOLEAN
  BY <1>1, <1>2, RunStepTyped DEF RunKeepsTypes, TypeOK, runVars, ClaimedIsOpen
<1>3. CASE RunCommand(NoTask, NoTask)
  <2>1. ClaimedIsOpen(NoTask)
    BY DEF ClaimedIsOpen
  <2>2. RunKeepsTypes
    BY <1>3, <2>1, RunCommandTyped
  <2> QED
    BY <1>1, <2>2, RunStepTyped
<1>4. ASSUME NEW home \in ToSet(open), index # 0, NEW i \in DOMAIN config[home].tasks,
             NEW by \in {"button", "menu"}, DoRunTask(home, i, by)
      PROVE  Typed'
  <2>1. home \in Projects /\ config[home] \in Config
    BY Members DEF TypeOK, ListInv
  <2>2. RunKeepsTypes
    BY <1>4, <2>1, DoRunTaskTyped
  <2> QED
    BY <1>1, <2>2, RunStepTyped
<1>5. CASE SavesDone
  <2>1. saving \in ToSet(open) /\ index # 0
    BY <1>5 DEF SavesDone, MenuInv
  <2>2. \/ UNCHANGED <<config, target, runVars, crashed>>
        \/ selected \in DOMAIN config[saving].tasks /\ DoRunTask(saving, selected, "button")
        \/ crashed' = TRUE /\ UNCHANGED <<config, target, runVars>>
    BY <1>5 DEF SavesDone
  <2>3. UNCHANGED crashed => crashed' \in BOOLEAN
    BY DEF TypeOK
  <2> QED
    BY <1>2, <1>4, <2>1, <2>2, <2>3
<1>6. CASE \E i \in 1..MaxTasks : RunTaskFromMenu(i)
  <2>1. PICK i \in DOMAIN config[shown].tasks : shown # NoProject /\ DoRunTask(shown, i, "menu")
    BY <1>6 DEF RunTaskFromMenu
  <2>2. shown \in ToSet(open) /\ index # 0
    BY <2>1 DEF MenuInv, ButtonIsBacked
  <2> QED
    BY <1>4, <2>1, <2>2
<1>7. CASE RunTarget \/ RunScript
  BY <1>2, <1>3, <1>7 DEF RunTarget, RunScript
<1> QED
  BY <1>5, <1>6, <1>7

\* The types, with what they need of the lists, are inductive.
LEMMA StepTyped == Typed /\ [Next]_vars => Typed'
PROOF
<1> SUFFICES ASSUME Typed, [Next]_vars PROVE Typed'
  OBVIOUS
<1>1. ASSUME NEW p \in Projects, AddProject(p) \/ TryOpenProject(p) PROVE Typed'
  BY <1>1, OpeningTyped
<1>2. ASSUME NEW p \in Projects, ProjectFileModified(p) PROVE Typed'
  <2>1. p \in changed
    BY <1>2 DEF ProjectFileModified
  <2> QED
    BY <1>2, <2>1, ReloadTyped
<1>3. ASSUME NEW p \in Projects, NEW d \in Files[p], WriteFile(p, d) PROVE Typed'
  BY <1>3, WriteTyped
<1>4. ASSUME NEW i \in 1..Len(open), SelectProject(i) PROVE Typed'
  <2>1. i \in DOMAIN open
    BY <1>4 DEF SelectProject
  <2> QED
    BY <1>4, <2>1, SelectionTyped
<1>5. CASE RemoveProject
  BY <1>5, RemovalTyped
<1>6. CASE EditBuildConfig
  BY <1>6, EditTyped
<1>7. ASSUME NEW i \in 1..MaxTasks, SelectTask(i) PROVE Typed'
  BY <1>7, SelectTaskTyped
<1>8. CASE RunTaskClicked
  <2>1. index # 0 /\ saving' = Current
        /\ UNCHANGED <<open, index, shown, selected, config, target, disk, watched, changed, process,
                       claim, pty, epoch, releases, verdict, crashed>>
    BY <1>8 DEF RunTaskClicked, menuVars, fileVars, runVars
  <2>2. Current \in Projects /\ Current \in ToSet(open)
    BY <2>1, CurrentIsOpen DEF Typed
  <2>3. TypeOK'
    BY <2>1, <2>2 DEF Typed, TypeOK
  <2> QED
    BY <2>1, <2>2, <2>3
       DEF Typed, ListInv, MenuInv, ButtonIsBacked, TasksFollowTheFile, ClaimedIsOpen
<1>9. CASE SavesDone \/ (\E i \in 1..MaxTasks : RunTaskFromMenu(i)) \/ RunTarget \/ RunScript
  BY <1>9, RunningTyped
<1>10. CASE ProcessEnds
  BY <1>10, EndTyped
<1>11. ASSUME NEW e \in releases, DeferredRelease(e) PROVE Typed'
  <2>1. RunKeepsTypes /\ UNCHANGED <<menuVars, fileVars>> /\ saving' = saving
    BY <1>11 DEF DeferredRelease, RunKeepsTypes, Typed, TypeOK, ClaimedIsOpen
  <2> QED
    BY <2>1, RunStepTyped
<1>12. CASE UNCHANGED vars
  BY <1>12 DEF vars, menuVars, fileVars, runVars, Typed, TypeOK, ListInv, MenuInv, ButtonIsBacked,
               TasksFollowTheFile, ClaimedIsOpen
<1> QED
  BY <1>1, <1>2, <1>3, <1>4, <1>5, <1>6, <1>7, <1>8, <1>9, <1>10, <1>11, <1>12 DEF Next

\* They hold throughout.
LEMMA AlwaysTyped == Spec => []Typed
PROOF
<1> QED
  BY InitTyped, StepTyped, PTL DEF Spec

\* TypeOK holds of every reachable state: of whatever projects, files and tasks.
THEOREM Typing == Spec => []TypeOK
PROOF
<1>1. Typed => TypeOK
  BY DEF Typed
<1> QED
  BY <1>1, AlwaysTyped, PTL

\* ButtonIsBacked: no reload, removal or selection leaves the task button with
\* an index that is not a task of an open project.
THEOREM ButtonSafety == Spec => []ButtonIsBacked
PROOF
<1>1. Typed => ButtonIsBacked
  BY DEF Typed, MenuInv
<1> QED
  BY <1>1, AlwaysTyped, PTL

\* TasksFollowTheFile: a watched codepointer.json whose changes were handled
\* is what the project's tasks were last read from or written to.
THEOREM FileSafety == Spec => []TasksFollowTheFile
PROOF
<1>1. Typed => TasksFollowTheFile
  BY DEF Typed
<1> QED
  BY <1>1, AlwaysTyped, PTL

-----------------------------------------------------------------------------
(* The process, its claim and its pty. *)

\* A reload or a removal tells a claim that its task or project is gone.
Retold ==
    /\ UNCHANGED <<process, pty, epoch, releases, verdict>>
    /\ claim # NoTask /\ claim' # NoTask
    /\ claim'.project = claim.project /\ claim'.kind = claim.kind
    /\ claim.gone => claim'.gone

\* The claim that do_runTask() sets describes the task it starts.
Runs(task, c) ==
    /\ RunCommand(task, c)
    /\ task \in Task \cup {NoTask} /\ c \in Claim \cup {NoTask}
    /\ c = NoTask <=> task = NoTask
    /\ c # NoTask => c.project = task.project /\ c.kind = task.kind

\* Whatever a step does, it does one of these things to the process.
LEMMA StepKinds ==
    ASSUME Typed, [Next]_vars
    PROVE  \/ UNCHANGED runVars
           \/ ProcessEnds
           \/ \E e \in releases : DeferredRelease(e)
           \/ \E task, c : Runs(task, c)
           \/ Retold
PROOF
<1> USE DEF Typed
<1>1. ASSUME claim # NoTask, claim' \in {[claim EXCEPT !.closed = TRUE]},
             UNCHANGED <<process, pty, epoch, releases, verdict>>
      PROVE  Retold
  <2>1. claim \in Claim /\ claim' \in Claim
    BY <1>1 DEF TypeOK, Claim
  <2>2. claim' # NoTask
    BY <2>1, TasksAssumption
  <2> QED
    BY <1>1, <2>1, <2>2 DEF Retold, Claim
<1>2. ASSUME NEW p, NEW c \in Config, Reload(p, c),
             UNCHANGED <<process, pty, epoch, releases, verdict>>
      PROVE  UNCHANGED runVars \/ Retold
  <2>1. CASE claim' = claim
    BY <1>2, <2>1 DEF runVars
  <2>2. CASE claim # NoTask /\ claim' = [claim EXCEPT !.gone = (process.task.by = "button") \/ @, !.auto = c.auto]
    <3>1. claim \in Claim /\ c.auto \in BOOLEAN
      BY <2>2 DEF TypeOK, Config
    <3>2. ((process.task.by = "button") \/ claim.gone) \in BOOLEAN
      OBVIOUS
    <3>3. claim' \in Claim
      BY <2>2, <3>1, <3>2 DEF Claim
    <3>4. claim' # NoTask
      BY <3>3, TasksAssumption
    <3> QED
      BY <1>2, <2>2, <3>1, <3>4 DEF Retold, Claim
  <2> QED
    BY <1>2, <2>1, <2>2 DEF Reload
<1>3. ASSUME NEW p \in Projects, ProjectFileModified(p)
      PROVE  UNCHANGED runVars \/ Retold
  <2>1. UNCHANGED <<process, pty, epoch, releases, verdict>>
    BY <1>3 DEF ProjectFileModified
  <2>2. \/ Parses(disk[p]) /\ Reload(p, FromFile(disk[p]))
        \/ Reload(p, Scanned[p])
        \/ UNCHANGED claim
    BY <1>3 DEF ProjectFileModified
  <2>3. Scanned[p] \in Config /\ (Parses(disk[p]) => FromFile(disk[p]) \in Config)
    BY ReadTyped
  <2> QED
    BY <1>2, <2>1, <2>2, <2>3 DEF runVars
<1>4. CASE RemoveProject
  BY <1>1, <1>4 DEF RemoveProject, runVars
<1>5. ASSUME NEW home \in ToSet(open), index # 0, NEW i \in DOMAIN config[home].tasks,
             NEW by \in {"button", "menu"}, DoRunTask(home, i, by)
      PROVE  UNCHANGED runVars \/ \E task, c : Runs(task, c)
  <2> DEFINE kind == config[home].tasks[i]
             task == [project |-> Current, kind |-> kind, by |-> by]
             c == [project |-> Current, kind |-> kind, auto |-> config[Current].auto,
                   gone |-> FALSE, closed |-> FALSE]
  <2>1. /\ home \in Projects /\ config[home] \in Config
        /\ Current \in Projects /\ config[Current] \in Config
    BY <1>5, CurrentIsOpen, Members DEF TypeOK, ListInv
  <2>2. config[home].tasks \in Seq(Kinds) /\ config[Current].auto \in BOOLEAN
    BY <2>1 DEF Config
  <2>3. kind \in Kinds
    BY <2>2, Members
  <2>4. task \in Task /\ c \in Claim
    BY <1>5, <2>1, <2>2, <2>3 DEF Task, Claim
  <2>5. task # NoTask /\ c # NoTask
    BY <2>4, TasksAssumption
  <2>6. UNCHANGED runVars \/ RunCommand(task, c)
    BY <1>5 DEF DoRunTask
  <2>7. ASSUME RunCommand(task, c) PROVE Runs(task, c)
    BY <2>4, <2>5, <2>7 DEF Runs
  <2> QED
    BY <2>6, <2>7
<1>6. CASE SavesDone
  <2>1. saving \in ToSet(open) /\ index # 0
    BY <1>6 DEF SavesDone, MenuInv
  <2> QED
    BY <1>5, <1>6, <2>1 DEF SavesDone
<1>7. ASSUME NEW i, RunTaskFromMenu(i)
      PROVE  UNCHANGED runVars \/ \E task, c : Runs(task, c)
  <2>1. shown \in ToSet(open) /\ index # 0 /\ i \in DOMAIN config[shown].tasks
    BY <1>7 DEF RunTaskFromMenu, MenuInv, ButtonIsBacked
  <2> QED
    BY <1>5, <1>7, <2>1 DEF RunTaskFromMenu
<1>8. CASE RunTarget \/ RunScript
  <2>1. UNCHANGED runVars \/ RunCommand(NoTask, NoTask)
    BY <1>8 DEF RunTarget, RunScript
  <2>2. RunCommand(NoTask, NoTask) => Runs(NoTask, NoTask)
    BY DEF Runs
  <2> QED
    BY <2>1, <2>2
<1>9. ASSUME NEW p \in Projects, AddProject(p) \/ TryOpenProject(p) PROVE UNCHANGED runVars
  BY <1>9 DEF AddProject, TryOpenProject
<1>10. ASSUME NEW p, NEW d, WriteFile(p, d) PROVE UNCHANGED runVars
  BY <1>10 DEF WriteFile
<1>11. ASSUME NEW i, SelectProject(i) \/ SelectTask(i) PROVE UNCHANGED runVars
  BY <1>11 DEF SelectProject, SelectTask
<1>12. EditBuildConfig \/ RunTaskClicked \/ UNCHANGED vars => UNCHANGED runVars
  BY DEF EditBuildConfig, RunTaskClicked, vars
<1> QED
  BY <1>3, <1>4, <1>6, <1>7, <1>8, <1>9, <1>10, <1>11, <1>12 DEF Next

\* Starting a process opens the pty in an epoch that no release is for.
LEMMA StartKeepsPtyInv ==
    ASSUME TypeOK, PtyInv, NEW task \in Task \cup {NoTask}, NEW newClaim, Start(task, newClaim),
           releases' = releases \/ (process # Idle /\ releases' = releases \cup {epoch})
    PROVE  PtyInv'
PROOF
<1>1. epoch \in Nat /\ epoch' = epoch + 1 /\ releases \subseteq 1..epoch
  BY DEF TypeOK, PtyInv, Start
<1>2. releases' \subseteq 1..epoch
  <2>1. process # Idle => epoch \in 1..epoch
    BY <1>1 DEF PtyInv
  <2>2. releases' \subseteq releases \cup {epoch} /\ (process = Idle => releases' = releases)
    OBVIOUS
  <2> QED
    BY <1>1, <2>1, <2>2
<1>3. releases' \subseteq 1..epoch' /\ epoch' \notin releases' /\ epoch' # 0
  BY <1>1, <1>2
<1>4. PICK tty \in BOOLEAN :
        \/ /\ process' = [run |-> epoch', tty |-> tty, task |-> task]
           /\ pty' = (IF tty THEN epoch' ELSE 0)
        \/ process' = Idle /\ pty' = 0
  BY DEF Start
<1>5. CASE process' = [run |-> epoch', tty |-> tty, task |-> task] /\ pty' = (IF tty THEN epoch' ELSE 0)
  <2>1. process' \in Process
    BY <1>1, <1>5 DEF Process
  <2>2. process' # Idle
    BY <2>1, TasksAssumption
  <2> QED
    BY <1>3, <1>5, <2>2 DEF PtyInv, RunsKeepTheirPty, PtysAreReleased
<1>6. CASE process' = Idle /\ pty' = 0
  BY <1>3, <1>6 DEF PtyInv, RunsKeepTheirPty, PtysAreReleased
<1> QED
  BY <1>4, <1>5, <1>6

\* The invariant of ptys and releases is inductive.
LEMMA StepKeepsPtyInv ==
    ASSUME Typed, PtyInv, [Next]_vars
    PROVE  PtyInv'
PROOF
<1>1. CASE UNCHANGED <<process, pty, epoch, releases>>
  BY <1>1 DEF PtyInv, RunsKeepTheirPty, PtysAreReleased
<1>2. CASE ProcessEnds
  <2>1. CASE UNCHANGED <<config, target, runVars>>
    BY <1>1, <2>1 DEF runVars
  <2>2. CASE process' = Idle /\ releases' = releases \cup {epoch} /\ UNCHANGED <<pty, epoch>>
    <3>1. epoch \in 1..epoch
      BY <1>2 DEF ProcessEnds, PtyInv, Typed, TypeOK
    <3> QED
      BY <2>2, <3>1 DEF PtyInv, RunsKeepTheirPty, PtysAreReleased
  <2> QED
    BY <1>2, <2>1, <2>2 DEF ProcessEnds
<1>3. ASSUME NEW e \in releases, DeferredRelease(e) PROVE PtyInv'
  BY <1>3 DEF DeferredRelease, PtyInv, RunsKeepTheirPty, PtysAreReleased
<1>4. ASSUME NEW task, NEW c, Runs(task, c) PROVE PtyInv'
  <2>1. \/ /\ Start(task, c)
           /\ releases' = releases \/ (process # Idle /\ releases' = releases \cup {epoch})
        \/ UNCHANGED <<process, pty, epoch, releases>>
    BY <1>4 DEF Runs, RunCommand, runVars
  <2>2. task \in Task \cup {NoTask}
    BY <1>4 DEF Runs
  <2>3. CASE UNCHANGED <<process, pty, epoch, releases>>
    BY <1>1, <2>3
  <2>4. CASE /\ Start(task, c)
             /\ releases' = releases \/ (process # Idle /\ releases' = releases \cup {epoch})
    BY <2>2, <2>4, StartKeepsPtyInv DEF Typed
  <2> QED
    BY <2>1, <2>3, <2>4
<1>5. UNCHANGED runVars \/ Retold => UNCHANGED <<process, pty, epoch, releases>>
  BY DEF runVars, Retold
<1> QED
  BY <1>1, <1>2, <1>3, <1>4, <1>5, StepKinds

\* It holds throughout.
LEMMA AlwaysPtyInv == Spec => []PtyInv
PROOF
<1>1. Init => PtyInv
  BY DEF Init, PtyInv, RunsKeepTheirPty, PtysAreReleased
<1>2. Typed /\ PtyInv /\ [Next]_vars => PtyInv'
  BY StepKeepsPtyInv
<1> QED
  BY <1>1, <1>2, AlwaysTyped, PTL DEF Spec

\* RunsKeepTheirPty: for any number of runs, no release left by an earlier one
\* reaches the pty of the process that runs.
THEOREM PtySafety == Spec => []RunsKeepTheirPty
PROOF
<1>1. PtyInv => RunsKeepTheirPty
  BY DEF PtyInv
<1> QED
  BY <1>1, AlwaysPtyInv, PTL

\* PtysAreReleased: a pty never stays open without its process or a release
\* that is still to come, not even when the process could not start.
THEOREM PtyRelease == Spec => []PtysAreReleased
PROOF
<1>1. PtyInv => PtysAreReleased
  BY DEF PtyInv
<1> QED
  BY <1>1, AlwaysPtyInv, PTL

\* What finished() tells is what the process was, if the claim is the process's.
LEMMA FinishedTells ==
    ASSUME TypeOK, ClaimInv, process # Idle, NEW outcome, Finished(outcome, claim)
    PROVE  BuildsAreAnnounced'
PROOF
<1>1. PICK isBuild \in IF claim = NoTask THEN {FALSE}
                     ELSE IF claim.gone THEN BOOLEAN ELSE {claim.kind = "build"} :
        verdict' = [built |-> IF outcome = "ok" /\ process.task # NoTask /\ process.task.kind = "build"
                              THEN process.task.project ELSE NoProject,
                    announced |-> IF outcome = "ok" /\ isBuild THEN claim.project ELSE NoProject,
                    gone |-> claim # NoTask /\ claim.gone]
  BY DEF Finished
<1>2. /\ verdict'.built = IF outcome = "ok" /\ process.task # NoTask /\ process.task.kind = "build"
                          THEN process.task.project ELSE NoProject
      /\ verdict'.announced = IF outcome = "ok" /\ isBuild THEN claim.project ELSE NoProject
      /\ verdict'.gone = (claim # NoTask /\ claim.gone)
  BY <1>1
<1>3. CASE claim = NoTask
  <2>1. process.task = NoTask /\ ~isBuild
    BY <1>1, <1>3 DEF ClaimInv
  <2>2. verdict'.announced = NoProject /\ verdict'.built = NoProject
    BY <1>2, <2>1
  <2> QED
    BY <2>2 DEF BuildsAreAnnounced
<1>4. CASE claim # NoTask /\ claim.gone
  BY <1>2, <1>4 DEF BuildsAreAnnounced
<1>5. CASE claim # NoTask /\ ~claim.gone
  <2>1. process.task # NoTask /\ claim.project = process.task.project /\ claim.kind = process.task.kind
    BY <1>5 DEF ClaimInv
  <2>2. isBuild = (claim.kind = "build")
    BY <1>1, <1>5
  <2>3. verdict'.announced = verdict'.built
    BY <1>2, <2>1, <2>2
  <2> QED
    BY <2>3 DEF BuildsAreAnnounced
<1> QED
  BY <1>3, <1>4, <1>5

\* The invariant of the claim and the verdict is inductive.
LEMMA StepKeepsClaimInv ==
    ASSUME Typed, ClaimInv, [Next]_vars
    PROVE  ClaimInv'
PROOF
<1>1. CASE UNCHANGED <<process, claim, verdict>>
  BY <1>1 DEF ClaimInv, BuildsAreAnnounced
<1>2. CASE ProcessEnds
  <2>1. CASE UNCHANGED <<config, target, runVars>>
    BY <1>1, <2>1 DEF runVars
  <2>2. ASSUME NEW outcome, Finished(outcome, claim), process' = Idle, claim' = NoTask
        PROVE  ClaimInv'
    <3>1. BuildsAreAnnounced'
      BY <1>2, <2>2, FinishedTells DEF ProcessEnds, Typed
    <3> QED
      BY <2>2, <3>1 DEF ClaimInv
  <2> QED
    BY <1>2, <2>1, <2>2 DEF ProcessEnds
<1>3. ASSUME NEW e \in releases, DeferredRelease(e) PROVE ClaimInv'
  BY <1>1, <1>3 DEF DeferredRelease
<1>4. ASSUME NEW task, NEW c, Runs(task, c) PROVE ClaimInv'
  <2>1. \/ Start(task, c) /\ UNCHANGED verdict
        \/ UNCHANGED runVars
        \/ Start(task, c) /\ process # Idle /\ \E outcome \in Outcomes : Finished(outcome, claim)
    BY <1>4 DEF Runs, RunCommand
  <2>2. ASSUME Start(task, c), BuildsAreAnnounced' PROVE ClaimInv'
    <3>1. PICK tty \in BOOLEAN :
            \/ process' = [run |-> epoch', tty |-> tty, task |-> task] /\ claim' = c
            \/ process' = Idle /\ claim' = NoTask
      BY <2>2 DEF Start
    <3>2. epoch' \in Nat
      BY <2>2 DEF Start, Typed, TypeOK
    <3>3. CASE process' = [run |-> epoch', tty |-> tty, task |-> task] /\ claim' = c
      <4>1. process' \in Process
        BY <1>4, <3>2, <3>3 DEF Process, Runs
      <4>2. process' # Idle
        BY <4>1, TasksAssumption
      <4> QED
        BY <1>4, <2>2, <3>3, <4>2 DEF Runs, ClaimInv
    <3> QED
      BY <2>2, <3>1, <3>3 DEF ClaimInv
  <2>3. UNCHANGED verdict => BuildsAreAnnounced'
    BY DEF ClaimInv, BuildsAreAnnounced
  <2> QED
    BY <1>1, <2>1, <2>2, <2>3, FinishedTells DEF Typed, runVars
<1>5. CASE Retold
  BY <1>5 DEF Retold, ClaimInv, BuildsAreAnnounced
<1> QED
  BY <1>1, <1>2, <1>3, <1>4, <1>5, StepKinds DEF runVars

\* BuildsAreAnnounced: whichever process takes the place of whichever other,
\* buildFinished tells of a build that succeeded, and of its project.
THEOREM AnnounceSafety == Spec => []BuildsAreAnnounced
PROOF
<1>1. Init => ClaimInv
  BY DEF Init, ClaimInv, BuildsAreAnnounced
<1>2. Typed /\ ClaimInv /\ [Next]_vars => ClaimInv'
  BY StepKeepsClaimInv
<1>3. ClaimInv => BuildsAreAnnounced
  BY DEF ClaimInv
<1> QED
  BY <1>1, <1>2, <1>3, AlwaysTyped, PTL DEF Spec
=============================================================================
