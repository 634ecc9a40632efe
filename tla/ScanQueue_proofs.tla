--------------------------- MODULE ScanQueue_proofs ---------------------------
(***************************************************************************)
(* Proofs about ScanQueue: the types, that waiting directories are woken,  *)
(* that a file that was asked for stays scheduled until it is read, and    *)
(* what is still at work when the plugin is unloaded.                      *)
(***************************************************************************)
EXTENDS ScanQueue, FiniteSetTheorems, TLAPS

\* A scan is only cancelled by cleanup(), and started scans take the flag back.
IInv == TypeOK /\ PendingIsWoken /\ OwedIsScheduled /\ (gui = "on" => ~cancelled)

\* The list of a scan counts a file once for each directory above it.
LEMMA ToScanCounts ==
    ASSUME NEW D \in SUBSET Dir
    PROVE  /\ ToScan(D) \in [File -> 0 .. Cardinality(Dir)]
           /\ \A d \in D : \A f \in FilesOf[d] \cap File : ToScan(D)[f] > 0
<1> DEFINE Above(f) == {d \in D : f \in FilesOf[d]}
<1>1. IsFiniteSet(Dir)
  BY QueueAssumption
<1>2. \A f \in File : IsFiniteSet(Above(f)) /\ Cardinality(Above(f)) \in 0 .. Cardinality(Dir)
  <2> SUFFICES ASSUME NEW f \in File
               PROVE  IsFiniteSet(Above(f)) /\ Cardinality(Above(f)) \in 0 .. Cardinality(Dir)
    OBVIOUS
  <2>1. Above(f) \subseteq Dir
    OBVIOUS
  <2>2. IsFiniteSet(Above(f)) /\ Cardinality(Above(f)) <= Cardinality(Dir)
    BY <1>1, <2>1, FS_Subset
  <2>3. Cardinality(Above(f)) \in Nat /\ Cardinality(Dir) \in Nat
    BY <1>1, <2>2, FS_CardinalityType
  <2> QED
    BY <2>2, <2>3
<1>3. ASSUME NEW d \in D, NEW f \in FilesOf[d] \cap File
      PROVE  ToScan(D)[f] > 0
  <2>1. Above(f) # {}
    OBVIOUS
  <2>2. Cardinality(Above(f)) # 0
    BY <1>2, <2>1, FS_EmptySet
  <2>3. ToScan(D)[f] = Cardinality(Above(f))
    BY DEF ToScan
  <2> QED
    BY <1>2, <2>2, <2>3
<1> QED
  BY <1>2, <1>3 DEF ToScan

\* A scan that starts keeps the types, and takes over the owed files of the queue.
LEMMA ScanStarts ==
    ASSUME IInv, gui = "on", StartNextScan, UNCHANGED <<gui, owed>>,
           timer' \in BOOLEAN, wakes' \in Nat, UNCHANGED <<busy, asking>>
    PROVE  /\ TypeOK' /\ OwedIsScheduled' /\ ~cancelled'
           /\ pending' = {}
<1> USE DEF IInv
<1>1. CASE pending = {}
  BY <1>1 DEF StartNextScan, queueVars, TypeOK, OwedIsScheduled
<1>2. CASE pending # {}
  <2>1. PICK s \in Scan \ running :
            /\ running' = running \cup {s}
            /\ left' = [left EXCEPT ![s] = ToScan(pending)]
            /\ latest' = s /\ notice' = FALSE
            /\ pending' = {} /\ cancelled' = FALSE
    BY <1>2 DEF StartNextScan, DoScanProjectDir
  <2>2. /\ ToScan(pending) \in [File -> 0 .. Cardinality(Dir)]
        /\ \A d \in pending : \A f \in FilesOf[d] \cap File : ToScan(pending)[f] > 0
    BY ToScanCounts DEF TypeOK
  <2>3. TypeOK'
    BY <2>1, <2>2 DEF TypeOK
  <2>4. left'[s] = ToScan(pending)
    BY <2>1 DEF TypeOK
  <2>5. ASSUME NEW f \in owed
        PROVE  \E r \in running' : left'[r][f] > 0
    <3>1. f \in File
      BY DEF TypeOK
    <3>2. CASE \E d \in pending : f \in FilesOf[d]
      BY <2>1, <2>2, <2>4, <3>1, <3>2
    <3>3. CASE \E r \in running : left[r][f] > 0
      <4>1. PICK r \in running : left[r][f] > 0
        BY <3>3
      <4>2. r # s /\ left'[r] = left[r]
        BY <2>1, <4>1 DEF TypeOK
      <4> QED
        BY <2>1, <4>1, <4>2
    <3> QED
      BY <3>2, <3>3 DEF OwedIsScheduled
  <2> QED
    BY <2>1, <2>3, <2>5 DEF OwedIsScheduled
<1> QED
  BY <1>1, <1>2

\* The invariant holds at the start.
LEMMA InitInv == Init => IInv
<1>1. IsFiniteSet(Dir) /\ Cardinality(Dir) \in Nat
  BY QueueAssumption, FS_CardinalityType
<1>2. 0 \in 0 .. Cardinality(Dir)
  BY <1>1
<1>3. NothingLeft \in [File -> 0 .. Cardinality(Dir)]
  BY <1>2 DEF NothingLeft
<1>4. Init => TypeOK
  <2>1. [s \in Scan |-> NothingLeft] \in [Scan -> [File -> 0 .. Cardinality(Dir)]]
    BY <1>3
  <2>2. ASSUME Init
        PROVE  left \in [Scan -> [File -> 0 .. Cardinality(Dir)]]
    BY <2>1, <2>2, Zenon DEF Init
  <2>3. ASSUME Init
        PROVE  /\ busy \subseteq Scan \X Worker /\ pending \subseteq Dir
               /\ running \subseteq Scan /\ asking \subseteq Query /\ owed \subseteq File
    BY <2>3, Zenon DEF Init
  <2>4. ASSUME Init
        PROVE  /\ gui \in {"on", "closing", "off"} /\ timer \in BOOLEAN /\ wakes \in Nat
               /\ latest \in Scan \cup {NoScan} /\ notice \in BOOLEAN /\ cancelled \in BOOLEAN
    BY <2>4 DEF Init
  <2> QED
    BY <2>2, <2>3, <2>4, Zenon DEF TypeOK
<1> QED
  BY <1>4 DEF Init, IInv, PendingIsWoken, OwedIsScheduled

\* The invariant is inductive.
LEMMA NextInv == IInv /\ [Next]_vars => IInv'
<1> SUFFICES ASSUME IInv, [Next]_vars
             PROVE  IInv'
  OBVIOUS
<1> USE DEF IInv
<1>0. Cardinality(Dir) \in Nat /\ FilesOf \in [Dir -> SUBSET File]
  BY QueueAssumption, FS_CardinalityType
<1>1. ASSUME NEW d \in Dir, ScanProjectDir(d)
      PROVE  IInv'
  <2>1. FilesOf[d] \subseteq File
    BY <1>0
  <2>2. TypeOK'
    BY <1>1, <2>1 DEF ScanProjectDir, TypeOK
  <2>3. PendingIsWoken'
    BY <1>1 DEF ScanProjectDir, PendingIsWoken, TypeOK
  <2>4. OwedIsScheduled'
    BY <1>1 DEF ScanProjectDir, OwedIsScheduled
  <2> QED
    BY <1>1, <2>2, <2>3, <2>4 DEF ScanProjectDir
<1>2. ASSUME DebounceTimerFires
      PROVE  IInv'
  <2>1. TypeOK' /\ OwedIsScheduled' /\ ~cancelled' /\ pending' = {}
    BY <1>2, ScanStarts DEF DebounceTimerFires, TypeOK
  <2> QED
    BY <2>1 DEF PendingIsWoken
<1>3. ASSUME EventLoopIsBack
      PROVE  IInv'
  <2>1. wakes' \in Nat /\ timer' \in BOOLEAN
    BY <1>3 DEF EventLoopIsBack, TypeOK
  <2>2. TypeOK' /\ OwedIsScheduled' /\ ~cancelled' /\ pending' = {}
    BY <1>3, <2>1, ScanStarts DEF EventLoopIsBack
  <2> QED
    BY <2>2 DEF PendingIsWoken
<1>4. ASSUME ScanFinished
      PROVE  IInv'
  <2>1. wakes \in Nat /\ wakes' = wakes + 1
    BY <1>4 DEF ScanFinished, TypeOK
  <2>2. wakes' \in Nat /\ wakes' > 0
    BY <2>1
  <2>3. TypeOK'
    BY <1>4, <2>2 DEF ScanFinished, TypeOK
  <2>4. OwedIsScheduled'
    BY <1>4 DEF ScanFinished, OwedIsScheduled
  <2> QED
    BY <1>4, <2>2, <2>3, <2>4 DEF ScanFinished, PendingIsWoken
<1>5. ASSUME Cleanup
      PROVE  IInv'
  BY <1>5 DEF Cleanup, eventVars, TypeOK, PendingIsWoken, OwedIsScheduled
<1>6. ASSUME CleanedUp
      PROVE  IInv'
  BY <1>6 DEF CleanedUp, eventVars, queueVars, TypeOK, PendingIsWoken, OwedIsScheduled
<1>7. ASSUME NEW s \in Scan, NEW w \in Worker, NEW f \in File, TakeFile(s, w, f)
      PROVE  IInv'
  <2>1. left'[s][f] = left[s][f] - 1 /\ left[s][f] \in 0 .. Cardinality(Dir)
    BY <1>7 DEF TakeFile, TypeOK
  <2>2. left' \in [Scan -> [File -> 0 .. Cardinality(Dir)]]
    BY <1>0, <1>7 DEF TakeFile, TypeOK
  <2>3. TypeOK'
    BY <1>7, <2>2 DEF TakeFile, eventVars, TypeOK
  <2>4. OwedIsScheduled'
    <3> SUFFICES ASSUME gui = "on", NEW g \in owed, g # f
                 PROVE  \/ \E d \in pending : g \in FilesOf[d]
                        \/ \E r \in running : left'[r][g] > 0
      BY <1>7 DEF TakeFile, OwedIsScheduled
    <3>1. g \in File
      BY DEF TypeOK
    <3>2. \A r \in running : left'[r][g] = left[r][g]
      BY <1>7, <3>1 DEF TakeFile, TypeOK
    <3> QED
      BY <3>2 DEF OwedIsScheduled
  <2> QED
    BY <1>7, <2>3, <2>4 DEF TakeFile, eventVars, PendingIsWoken
<1>8. ASSUME NEW s \in Scan, NEW w \in Worker, FileDone(s, w)
      PROVE  IInv'
  BY <1>8 DEF FileDone, eventVars, queueVars, TypeOK, PendingIsWoken, OwedIsScheduled
<1>9. ASSUME NEW s \in Scan, ScanReturns(s)
      PROVE  IInv'
  <2>1. TypeOK'
    BY <1>0, <1>9 DEF ScanReturns, eventVars, NothingLeft, TypeOK
  <2>2. PendingIsWoken'
    BY <1>9 DEF ScanReturns, eventVars, PendingIsWoken, TypeOK
  <2>3. ASSUME gui = "on"
        PROVE  \A g \in File : left[s][g] = 0
    BY <1>9, <2>3 DEF ScanReturns, NothingLeft
  <2>4. OwedIsScheduled'
    <3> SUFFICES ASSUME gui = "on", NEW g \in owed
                 PROVE  \/ \E d \in pending : g \in FilesOf[d]
                        \/ \E r \in running \ {s} : left'[r][g] > 0
      BY <1>9 DEF ScanReturns, OwedIsScheduled
    <3>1. g \in File
      BY DEF TypeOK
    <3>2. \A r \in running \ {s} : left'[r] = left[r]
      BY <1>9 DEF ScanReturns, TypeOK
    <3> QED
      BY <2>3, <3>1, <3>2 DEF OwedIsScheduled
  <2> QED
    BY <1>9, <2>1, <2>2, <2>4 DEF ScanReturns
<1>10. ASSUME NEW q \in Query, Ask(q) \/ Answer(q)
       PROVE  IInv'
  BY <1>10 DEF Ask, Answer, eventVars, queueVars, TypeOK, PendingIsWoken, OwedIsScheduled
<1>11. CASE UNCHANGED vars
  BY <1>11 DEF vars, eventVars, queueVars, TypeOK, PendingIsWoken, OwedIsScheduled
<1> QED
  BY <1>1, <1>2, <1>3, <1>4, <1>5, <1>6, <1>7, <1>8, <1>9, <1>10, <1>11 DEF Next, ScanStep

\* The invariant holds throughout.
LEMMA Invariance == Spec => []IInv
  BY InitInv, NextInv, PTL DEF Spec

\* Every variable keeps its type; a list never counts below zero.
THEOREM Typing == Spec => []TypeOK
  BY Invariance, PTL DEF IInv

\* Whatever the number of scans and directories, a queue that is not empty is
\* looked at again without another request.
THEOREM WakeSafety == Spec => []PendingIsWoken
  BY Invariance, PTL DEF IInv

\* A file that was asked for is in the queue or on the list of a running scan until
\* it has been looked at.
THEOREM OwedSafety == Spec => []OwedIsScheduled
  BY Invariance, PTL DEF IInv

-----------------------------------------------------------------------------
(* What cleanup() does wait for.                                           *)

\* Only the workers of a running scan hold a file, and once cleanup() has
\* returned the scan that scanFuture names is over and no query is open.
Detached ==
    /\ \A s \in Scan, w \in Worker : <<s, w>> \in busy => s \in running
    /\ gui = "off" => latest \notin running /\ asking = {}

\* A step keeps workers with their scans, and starts nothing after cleanup().
LEMMA NextDetached == TypeOK /\ Detached /\ [Next]_vars => Detached'
<1> SUFFICES ASSUME TypeOK, Detached, [Next]_vars
             PROVE  Detached'
  OBVIOUS
<1>1. ASSUME gui = "on", gui' = "on", running \subseteq running', busy' = busy
      PROVE  Detached'
  BY <1>1 DEF Detached
<1>2. ASSUME gui = "on", gui' = "on", StartNextScan, busy' = busy
      PROVE  Detached'
  <2>1. running \subseteq running'
    BY <1>2 DEF StartNextScan, DoScanProjectDir, queueVars
  <2> QED
    BY <1>1, <1>2, <2>1
<1>3. CASE DebounceTimerFires
  BY <1>2, <1>3 DEF DebounceTimerFires
<1>4. CASE EventLoopIsBack
  BY <1>2, <1>4 DEF EventLoopIsBack
<1>5. ASSUME NEW d \in Dir, ScanProjectDir(d) PROVE Detached'
  BY <1>1, <1>5 DEF ScanProjectDir
<1>6. CASE ScanFinished
  BY <1>1, <1>6 DEF ScanFinished
<1>7. CASE Cleanup
  BY <1>7 DEF Cleanup, Detached
<1>8. CASE CleanedUp
  BY <1>8 DEF CleanedUp, queueVars, Detached
<1>9. ASSUME NEW s \in Scan, NEW w \in Worker, NEW f \in File, TakeFile(s, w, f)
      PROVE  Detached'
  <2>1. s \in running /\ busy' = busy \cup {<<s, w>>}
    BY <1>9 DEF TakeFile
  <2>2. ASSUME NEW r \in Scan, NEW v \in Worker, <<r, v>> \in busy' PROVE r \in running
    <3>1. CASE <<r, v>> \in busy
      BY <3>1 DEF Detached
    <3>2. CASE <<r, v>> = <<s, w>>
      BY <2>1, <3>2
    <3> QED
      BY <2>1, <2>2, <3>1, <3>2
  <2> QED
    BY <1>9, <2>2 DEF TakeFile, Detached
<1>10. ASSUME NEW s \in Scan, NEW w \in Worker, FileDone(s, w)
       PROVE  Detached'
  BY <1>10 DEF FileDone, queueVars, Detached
<1>11. ASSUME NEW s \in Scan, ScanReturns(s)
       PROVE  Detached'
  <2>1. /\ running' = running \ {s} /\ busy' = busy
        /\ \A w \in Worker : <<s, w>> \notin busy
    BY <1>11 DEF ScanReturns
  <2>2. ASSUME NEW r \in Scan, NEW v \in Worker, <<r, v>> \in busy' PROVE r \in running'
    BY <2>1, <2>2 DEF Detached
  <2> QED
    BY <1>11, <2>1, <2>2 DEF ScanReturns, Detached
<1>12. ASSUME NEW q \in Query, Ask(q) \/ Answer(q)
       PROVE  Detached'
  BY <1>12 DEF Ask, Answer, queueVars, Detached
<1>13. CASE UNCHANGED vars
  BY <1>13 DEF vars, queueVars, Detached
<1> QED
  BY <1>3, <1>4, <1>5, <1>6, <1>7, <1>8, <1>9, <1>10, <1>11, <1>12, <1>13 DEF Next, ScanStep

\* What holds of CleanupWaitsForScans: once cleanup() has returned, no worker of the
\* scan that scanFuture names holds a file, and no query is being answered.
\* Only a scan that the timer had overtaken can still use the engine.
THEOREM CleanupSafety ==
    Spec => [](gui = "off" => asking = {} /\ \A w \in Worker : <<latest, w>> \notin busy)
<1> DEFINE Quiet == gui = "off" => asking = {} /\ \A w \in Worker : <<latest, w>> \notin busy
<1>1. Init => Detached
  BY DEF Init, Detached
<1>2. TypeOK /\ Detached => Quiet
  <2> SUFFICES ASSUME TypeOK, Detached, gui = "off"
               PROVE  asking = {} /\ \A w \in Worker : <<latest, w>> \notin busy
    OBVIOUS
  <2>1. latest \notin running /\ asking = {}
    BY DEF Detached
  <2>2. ASSUME NEW w \in Worker, <<latest, w>> \in busy PROVE FALSE
    <3>1. latest \in Scan
      BY <2>2 DEF TypeOK
    <3> QED
      BY <2>1, <2>2, <3>1 DEF Detached
  <2> QED
    BY <2>1, <2>2
<1> HIDE DEF Quiet
<1>3. Spec => []Quiet
  BY <1>1, <1>2, NextDetached, Typing, PTL DEF Spec
<1> QED
  BY <1>3 DEF Quiet
=============================================================================
