--------------------------- MODULE LspSync_proofs ---------------------------
(***************************************************************************)
(* Proofs about LspSync, for every set of files, projects and texts.       *)
(*                                                                         *)
(* The inductive invariant is the conjunction of the type invariant, of    *)
(* RecordIsNotAhead, of EditsAreTracked and of WatchedAreOpen, the reason  *)
(* why a reopened tab starts unwatched.                                    *)
(***************************************************************************)
EXTENDS LspSync, TLAPS

-----------------------------------------------------------------------------
(* Which server owns a file.                                               *)

\* A non-empty set of roots above a file has an innermost one.
LEMMA InnermostIsOne ==
    ASSUME NEW f \in Files, NEW S \in SUBSET Encl[f], S # {}
    PROVE  Innermost(S) \in S
  BY NestingAssumption, Zenon DEF Innermost

\* serverForFile() only returns a ready client whose root contains the file.
LEMMA ServerIsAbove ==
    ASSUME NEW f \in Files, NEW st, ServerForFile(st, f) # NoRoot
    PROVE  /\ ServerForFile(st, f) \in Encl[f]
           /\ ServerForFile(st, f) \in Roots
           /\ IsReady(st, ServerForFile(st, f))
  <1> DEFINE having == {r \in Encl[f] : st[r] # "none"}
  <1>1. having # {} /\ IsReady(st, Innermost(having))
    BY DEF ServerForFile
  <1>2. Innermost(having) \in having
    BY <1>1, InnermostIsOne
  <1>3. ServerForFile(st, f) = Innermost(having)
    BY <1>1 DEF ServerForFile
  <1>4. Encl[f] \subseteq Roots
    BY SyncAssumption
  <1> QED
    BY <1>1, <1>2, <1>3, <1>4

\* A file with a single root above it is served exactly when that root's client
\* is ready.
LEMMA OnlyServer ==
    ASSUME NEW f \in Files, NEW r \in Roots, Encl[f] = {r}, NEW st, IsReady(st, r)
    PROVE  ServerForFile(st, f) = r
  <1> DEFINE having == {q \in Encl[f] : st[q] # "none"}
  <1>1. having = {r}
    BY DEF IsReady
  <1>2. Innermost(having) = r
    BY <1>1, InnermostIsOne
  <1> QED
    BY <1>1, <1>2 DEF ServerForFile

-----------------------------------------------------------------------------
(* Type correctness.                                                       *)

\* A push writes texts into the documents and the record, wherever it goes.
LEMMA PushTypes ==
    ASSUME NEW F, NEW st, NEW text, \A f \in F \cap Files : text[f] \in Texts,
           NEW docs \in [Roots -> [Files -> Texts \cup {NoDoc}]],
           NEW rec \in [Files -> Texts]
    PROVE  /\ Told(F, st, text, docs) \in [Roots -> [Files -> Texts \cup {NoDoc}]]
           /\ Recorded(F, text, rec) \in [Files -> Texts]
  BY DEF Told, Recorded

\* syncOpenDocuments() keeps the types of all it assigns.
LEMMA SyncTypes ==
    ASSUME TypeOK,
           NEW prj, NEW st \in [Roots -> Statuses],
           NEW docs \in [Roots -> [Files -> Texts \cup {NoDoc}]],
           NEW rec \in [Files -> Texts],
           SyncOpenDocuments(prj, st, docs, rec)
    PROVE  /\ status' \in [Roots -> Statuses]
           /\ sent' \in [Roots -> [Files -> Texts \cup {NoDoc}]]
           /\ synced' \in [Files -> Texts]
           /\ watched' \subseteq Files
           /\ dirty' \subseteq Files
  <1>1. PICK up \in [RootsToStart(prj, st) -> StartOutcomes] :
           LET now  == [r \in Roots |-> IF r \in RootsToStart(prj, st)
                                        THEN up[r] ELSE st[r]]
               told == {f \in open : /\ buffer[f] # Empty
                                     /\ ServerForFile(now, f) # NoRoot}
           IN  /\ status' = now
               /\ sent' = Told(told, now, buffer, docs)
               /\ synced' = Recorded(told, buffer, rec)
               /\ watched' = watched \cup told
               /\ dirty' = dirty \ told
    BY DEF SyncOpenDocuments
  <1> DEFINE now  == [r \in Roots |-> IF r \in RootsToStart(prj, st)
                                      THEN up[r] ELSE st[r]]
             told == {f \in open : /\ buffer[f] # Empty
                                   /\ ServerForFile(now, f) # NoRoot}
  <1>2. status' \in [Roots -> Statuses]
    <2>1. status' = now
      BY <1>1
    <2>2. \A r \in Roots : now[r] \in Statuses
      BY SyncAssumption DEF Statuses
    <2> QED
      BY <2>1, <2>2
  <1>3. told \subseteq Files /\ \A f \in told \cap Files : buffer[f] \in Texts
    BY DEF TypeOK
  <1>4. /\ sent' = Told(told, now, buffer, docs)
        /\ synced' = Recorded(told, buffer, rec)
        /\ watched' = watched \cup told
        /\ dirty' = dirty \ told
    BY <1>1
  <1> HIDE DEF now, told
  <1> QED
    BY <1>2, <1>3, <1>4, PushTypes DEF TypeOK

\* The initial types are those of an editor without tabs or servers.
LEMMA InitTypes == Init => TypeOK
  <1> SUFFICES ASSUME Init PROVE TypeOK
    OBVIOUS
  <1>1. /\ buffer \in [Files -> Texts] /\ synced \in [Files -> Texts]
        /\ status \in [Roots -> Statuses]
    BY SyncAssumption DEF Init, Statuses
  <1>2. sent \in [Roots -> [Files -> Texts \cup {NoDoc}]]
    BY DEF Init, NoDocuments
  <1>3. tasks \in [TaskKinds -> Nat] /\ timer \in BOOLEAN
    BY DEF Init
  <1> QED
    BY <1>1, <1>2, <1>3 DEF Init, TypeOK

\* A restart of the servers keeps the types.
LEMMA StopTypes ==
    ASSUME TypeOK, NEW prj, StopAllServers(prj)
    PROVE  /\ status' \in [Roots -> Statuses]
           /\ sent' \in [Roots -> [Files -> Texts \cup {NoDoc}]]
           /\ synced' \in [Files -> Texts]
           /\ watched' \subseteq Files
           /\ dirty' \subseteq Files
           /\ requests' \subseteq Request
  <1>1. [r \in Roots |-> "none"] \in [Roots -> Statuses]
    BY DEF Statuses
  <1>2. NoDocuments \in [Roots -> [Files -> Texts \cup {NoDoc}]]
    BY DEF NoDocuments
  <1>3. [f \in Files |-> Empty] \in [Files -> Texts]
    BY SyncAssumption
  <1>4. /\ SyncOpenDocuments(prj, [r \in Roots |-> "none"], NoDocuments,
                              [f \in Files |-> Empty])
        /\ requests' = {}
    BY DEF StopAllServers
  <1> QED
    BY <1>1, <1>2, <1>3, <1>4, SyncTypes

\* Every step keeps the types.
LEMMA NextTypes == TypeOK /\ [Next]_vars => TypeOK'
  <1> SUFFICES ASSUME TypeOK, [Next]_vars PROVE TypeOK'
    OBVIOUS
  <1> USE SyncAssumption
  <1>1. ASSUME NEW f \in Files, OpenTab(f) PROVE TypeOK'
    BY <1>1 DEF TypeOK, OpenTab, Post, pushVars, serverVars, TaskKinds
  <1>2. ASSUME NEW f \in Files, NEW t \in Texts, LoadContent(f, t) PROVE TypeOK'
    BY <1>2 DEF TypeOK, LoadContent, Post, pushVars, serverVars, TaskKinds
  <1>3. ASSUME NEW f \in Files, NEW t \in Texts, Edit(f, t) PROVE TypeOK'
    BY <1>3 DEF TypeOK, Edit, serverVars
  <1>4. ASSUME NEW f \in Files, CloseTab(f) PROVE TypeOK'
    BY <1>4 DEF TypeOK, CloseTab, Post, serverVars, TaskKinds
  <1>5. ASSUME NEW f \in Files, Ask(f) PROVE TypeOK'
    <2>1. sent' \in [Roots -> [Files -> Texts \cup {NoDoc}]] /\ synced' \in [Files -> Texts]
      <3>1. /\ Told({f}, status, buffer, sent) \in [Roots -> [Files -> Texts \cup {NoDoc}]]
            /\ Recorded({f}, buffer, synced) \in [Files -> Texts]
        BY PushTypes DEF TypeOK
      <3> QED
        BY <1>5, <3>1 DEF Ask, TypeOK
    <2>2. ServerForFile(status, f) \in Roots
      BY <1>5, ServerIsAbove DEF Ask
    <2>3. requests' \subseteq Request
      BY <1>5, <2>1, <2>2 DEF Ask, TypeOK, Request
    <2> QED
      BY <1>5, <2>1, <2>3 DEF Ask, TypeOK, editorVars, serverVars
  <1>6. ASSUME NEW F \in SUBSET Files, NEW A \in SUBSET F, NEW new \in [A -> Texts],
               ApplyTextEdits(F, new)
        PROVE  TypeOK'
    <2> DEFINE pushed == {f \in DOMAIN new \ open : ServerForFile(status, f) # NoRoot}
    <2>1. /\ sent' = Told(pushed, status, new, sent)
          /\ synced' = Recorded(pushed, new, synced)
          /\ buffer' = Recorded(DOMAIN new \cap open, new, buffer)
      BY <1>6 DEF ApplyTextEdits
    <2>2. \A f \in pushed \cap Files : new[f] \in Texts
      OBVIOUS
    <2>3. \A f \in (DOMAIN new \cap open) \cap Files : new[f] \in Texts
      OBVIOUS
    <2>4. /\ sent \in [Roots -> [Files -> Texts \cup {NoDoc}]]
          /\ synced \in [Files -> Texts] /\ buffer \in [Files -> Texts]
      BY DEF TypeOK
    <2>5. sent' \in [Roots -> [Files -> Texts \cup {NoDoc}]] /\ synced' \in [Files -> Texts]
      BY <2>1, <2>2, <2>4, PushTypes
    <2>6. buffer' \in [Files -> Texts]
      BY <2>1, <2>3, <2>4 DEF Recorded
    <2> QED
      BY <1>6, <2>5, <2>6 DEF ApplyTextEdits, TypeOK, serverVars
  <1>7. ASSUME FlushDirtyDocuments PROVE TypeOK'
    BY <1>7, PushTypes DEF FlushDirtyDocuments, TypeOK, editorVars, serverVars
  <1>8. ASSUME NEW k \in TaskKinds, AnnounceTask(k) PROVE TypeOK'
    <2>1. SyncOpenDocuments(projects, status, sent, synced)
      BY <1>8 DEF AnnounceTask
    <2>2. /\ status' \in [Roots -> Statuses]
          /\ sent' \in [Roots -> [Files -> Texts \cup {NoDoc}]]
          /\ synced' \in [Files -> Texts]
          /\ watched' \subseteq Files /\ dirty' \subseteq Files
      BY <2>1, SyncTypes DEF TypeOK
    <2> QED
      BY <1>8, <2>2 DEF AnnounceTask, UpdateEditorCompletionMode, Take, TypeOK, TaskKinds
  <1>9. ASSUME ReconcileOpenDocuments PROVE TypeOK'
    BY <1>9 DEF ReconcileOpenDocuments, Take, Recorded, TypeOK, TaskKinds, editorVars,
                serverVars
  <1>10. ASSUME NEW r \in Roots, ProjectLoaded(r) PROVE TypeOK'
    <2>1. SyncOpenDocuments(projects', status, sent, synced)
      BY <1>10 DEF ProjectLoaded
    <2>2. /\ status' \in [Roots -> Statuses]
          /\ sent' \in [Roots -> [Files -> Texts \cup {NoDoc}]]
          /\ synced' \in [Files -> Texts]
          /\ watched' \subseteq Files /\ dirty' \subseteq Files
      BY <2>1, SyncTypes DEF TypeOK
    <2> QED
      BY <1>10, <2>2 DEF ProjectLoaded, TypeOK, editorVars
  <1>11. ASSUME NEW r \in Roots, ProjectConfigChanged(r) PROVE TypeOK'
    <2>1. StopAllServers(projects')
      BY <1>11 DEF ProjectConfigChanged
    <2> QED
      BY <1>11, <2>1, StopTypes DEF ProjectConfigChanged, TypeOK, editorVars
  <1>12. ASSUME NEW r \in Roots, ProjectRemoved(r) PROVE TypeOK'
    BY <1>12 DEF ProjectRemoved, TypeOK, Statuses, editorVars
  <1>13. ASSUME ConfigurationModified PROVE TypeOK'
    <2>1. StopAllServers(projects)
      BY <1>13 DEF ConfigurationModified
    <2> QED
      BY <1>13, <2>1, StopTypes DEF ConfigurationModified, TypeOK, editorVars
  <1>14. ASSUME NEW q \in requests, ServerAnswers(q) PROVE TypeOK'
    BY <1>14 DEF ServerAnswers, TypeOK, editorVars, pushVars, serverVars
  <1>15. ASSUME NEW r \in Roots, ServerInitialized(r) PROVE TypeOK'
    BY <1>15 DEF ServerInitialized, Post, TypeOK, Statuses, TaskKinds, editorVars, pushVars
  <1>16. ASSUME NEW r \in Roots, ServerExits(r) PROVE TypeOK'
    BY <1>16 DEF ServerExits, TypeOK, Statuses, editorVars, pushVars
  <1>17. CASE UNCHANGED vars
    BY <1>17 DEF TypeOK, vars, editorVars, pushVars, serverVars
  <1> QED
    BY <1>1, <1>2, <1>3, <1>4, <1>5, <1>6, <1>7, <1>8, <1>9, <1>10, <1>11, <1>12,
       <1>13, <1>14, <1>15, <1>16, <1>17
    DEF Next, ServerReadyTask, ClientAddedTask, TaskKinds

\* The variables always have their types.
THEOREM Typing == Spec => []TypeOK
  BY InitTypes, NextTypes, PTL DEF Spec

-----------------------------------------------------------------------------
(* The inductive invariant.                                                *)

\* RecordIsNotAhead of the clients st, the documents docs and the record rec.
HeldBySome(st, docs, rec) ==
    \A f \in Files :
        (Encl[f] \cap Removable = {} /\ rec[f] # Empty)
            => \E r \in Encl[f] : IsReady(st, r) /\ docs[r][f] = rec[f]

\* An editor that is destroyed is no longer watched.
WatchedAreOpen == watched \subseteq open

IInv == TypeOK /\ WatchedAreOpen /\ RecordIsNotAhead /\ EditsAreTracked

\* A push to the servers of F, written to the record, keeps it from being ahead.
LEMMA PushKeepsRecord ==
    ASSUME NEW F \in SUBSET Files, NEW st, NEW text, NEW docs, NEW rec,
           HeldBySome(st, docs, rec),
           \A f \in F : ServerForFile(st, f) # NoRoot
    PROVE  HeldBySome(st, Told(F, st, text, docs), Recorded(F, text, rec))
  <1> SUFFICES ASSUME NEW f \in Files, Encl[f] \cap Removable = {},
                      Recorded(F, text, rec)[f] # Empty
               PROVE  \E r \in Encl[f] : /\ IsReady(st, r)
                                         /\ Told(F, st, text, docs)[r][f]
                                                = Recorded(F, text, rec)[f]
    BY DEF HeldBySome
  <1>1. Encl[f] \subseteq Roots
    BY SyncAssumption
  <1>2. CASE f \in F
    <2> DEFINE r == ServerForFile(st, f)
    <2>1. r \in Encl[f] /\ r \in Roots /\ IsReady(st, r)
      BY <1>2, ServerIsAbove
    <2>2. Told(F, st, text, docs)[r][f] = text[f]
      BY <1>2, <2>1 DEF Told
    <2>3. Recorded(F, text, rec)[f] = text[f]
      BY <1>2 DEF Recorded
    <2> QED
      BY <2>1, <2>2, <2>3
  <1>3. CASE f \notin F
    <2>1. Recorded(F, text, rec)[f] = rec[f]
      BY <1>3 DEF Recorded
    <2>2. PICK r \in Encl[f] : IsReady(st, r) /\ docs[r][f] = rec[f]
      BY <2>1 DEF HeldBySome
    <2>3. Told(F, st, text, docs)[r][f] = docs[r][f]
      BY <1>1, <1>3 DEF Told
    <2> QED
      BY <2>1, <2>2, <2>3
  <1> QED
    BY <1>2, <1>3

\* syncOpenDocuments() announces to clients that were there or that it started,
\* and leaves no editor behind whose server is ready.
LEMMA SyncKeeps ==
    ASSUME TypeOK, WatchedAreOpen,
           NEW prj, NEW st \in [Roots -> Statuses],
           NEW docs, NEW rec \in [Files -> Texts],
           HeldBySome(st, docs, rec),
           SyncOpenDocuments(prj, st, docs, rec),
           UNCHANGED <<open, buffer>>
    PROVE  WatchedAreOpen' /\ RecordIsNotAhead' /\ EditsAreTracked'
  <1>1. PICK up \in [RootsToStart(prj, st) -> StartOutcomes] :
           LET now  == [r \in Roots |-> IF r \in RootsToStart(prj, st)
                                        THEN up[r] ELSE st[r]]
               told == {f \in open : /\ buffer[f] # Empty
                                     /\ ServerForFile(now, f) # NoRoot}
           IN  /\ status' = now
               /\ sent' = Told(told, now, buffer, docs)
               /\ synced' = Recorded(told, buffer, rec)
               /\ watched' = watched \cup told
               /\ dirty' = dirty \ told
    BY DEF SyncOpenDocuments
  <1> DEFINE now  == [r \in Roots |-> IF r \in RootsToStart(prj, st)
                                      THEN up[r] ELSE st[r]]
             told == {f \in open : /\ buffer[f] # Empty
                                   /\ ServerForFile(now, f) # NoRoot}
  <1>2. /\ status' = now
        /\ sent' = Told(told, now, buffer, docs)
        /\ synced' = Recorded(told, buffer, rec)
        /\ watched' = watched \cup told
        /\ dirty' = dirty \ told
    BY <1>1
  <1>3. told \subseteq Files /\ told \subseteq open
    BY DEF TypeOK
  <1>4. \A f \in told : ServerForFile(now, f) # NoRoot
    OBVIOUS
  <1>5. \A f \in open \ told : buffer[f] = Empty \/ ServerForFile(now, f) = NoRoot
    OBVIOUS
  <1>6. \A r \in Roots : IsReady(st, r) => IsReady(now, r)
    BY DEF IsReady, RootsToStart
  <1> HIDE DEF now, told
  <1>7. HeldBySome(now, docs, rec)
    <2> SUFFICES ASSUME NEW f \in Files, Encl[f] \cap Removable = {}, rec[f] # Empty
                 PROVE  \E r \in Encl[f] : IsReady(now, r) /\ docs[r][f] = rec[f]
      BY DEF HeldBySome
    <2>1. PICK r \in Encl[f] : IsReady(st, r) /\ docs[r][f] = rec[f]
      BY DEF HeldBySome
    <2>2. r \in Roots
      BY SyncAssumption
    <2> QED
      BY <1>6, <2>1, <2>2
  <1>8. RecordIsNotAhead'
    <2>1. HeldBySome(status', sent', synced')
      BY <1>2, <1>3, <1>4, <1>7, PushKeepsRecord
    <2> QED
      BY <2>1 DEF HeldBySome, RecordIsNotAhead, IsReady
  <1>9. WatchedAreOpen'
    BY <1>2, <1>3 DEF WatchedAreOpen
  <1>10. EditsAreTracked'
    <2> SUFFICES ASSUME NEW f \in Stable \cap open, NEW r \in Encl[f]
                 PROVE  \/ synced'[f] = buffer[f] \/ buffer[f] = Empty
                        \/ synced'[f] = Empty /\ ~IsReady(now, r)
      BY <1>2 DEF EditsAreTracked, IsReady, Stable
    <2>1. f \in Files /\ r \in Roots /\ Encl[f] = {r} /\ Encl[f] \cap Removable = {}
      BY SyncAssumption DEF Stable
    <2>2. CASE f \in told
      BY <1>2, <2>1, <2>2 DEF Recorded
    <2>3. CASE f \notin told /\ buffer[f] # Empty
      <3>1. synced'[f] = rec[f]
        BY <1>2, <2>1, <2>3 DEF Recorded
      <3>2. ~IsReady(now, r)
        BY <1>5, <2>1, <2>3, OnlyServer, SyncAssumption
      <3>3. rec[f] = Empty
        BY <1>7, <2>1, <3>2 DEF HeldBySome
      <3> QED
        BY <3>1, <3>2, <3>3
    <2> QED
      BY <2>2, <2>3
  <1> QED
    BY <1>8, <1>9, <1>10

\* A restart of every server forgets the record before the first announcement.
LEMMA StopKeeps ==
    ASSUME IInv, NEW prj, StopAllServers(prj), UNCHANGED <<open, buffer>>
    PROVE  WatchedAreOpen' /\ RecordIsNotAhead' /\ EditsAreTracked'
  <1> DEFINE down == [r \in Roots |-> "none"]
             nothing == [f \in Files |-> Empty]
  <1>1. SyncOpenDocuments(prj, down, NoDocuments, nothing)
    BY DEF StopAllServers
  <1>2. down \in [Roots -> Statuses] /\ nothing \in [Files -> Texts]
    BY SyncAssumption DEF Statuses
  <1>3. HeldBySome(down, NoDocuments, nothing)
    BY DEF HeldBySome
  <1> HIDE DEF down, nothing
  <1> QED
    BY <1>1, <1>2, <1>3, SyncKeeps DEF IInv

\* An announcement to the servers that are there starts from the invariant.
LEMMA AnnounceKeeps ==
    ASSUME IInv, NEW prj, SyncOpenDocuments(prj, status, sent, synced),
           UNCHANGED <<open, buffer>>
    PROVE  WatchedAreOpen' /\ RecordIsNotAhead' /\ EditsAreTracked'
  <1>1. HeldBySome(status, sent, synced)
    BY DEF IInv, RecordIsNotAhead, HeldBySome
  <1>2. status \in [Roots -> Statuses] /\ synced \in [Files -> Texts]
    BY DEF IInv, TypeOK
  <1> QED
    BY <1>1, <1>2, SyncKeeps DEF IInv

\* The invariant holds at the start.
LEMMA InitInv == Init => IInv
  <1> SUFFICES ASSUME Init PROVE IInv
    OBVIOUS
  <1>1. WatchedAreOpen /\ RecordIsNotAhead /\ EditsAreTracked
    BY DEF Init, WatchedAreOpen, RecordIsNotAhead, EditsAreTracked
  <1> QED
    BY <1>1, InitTypes DEF IInv

\* Every step keeps the invariant.
LEMMA NextInv == IInv /\ [Next]_vars => IInv'
  <1> SUFFICES ASSUME IInv, [Next]_vars PROVE IInv'
    OBVIOUS
  <1>t. TypeOK' /\ TypeOK
    BY NextTypes DEF IInv
  <1>i. WatchedAreOpen /\ RecordIsNotAhead /\ EditsAreTracked
    BY DEF IInv
  <1> DEFINE Goal == WatchedAreOpen' /\ RecordIsNotAhead' /\ EditsAreTracked'
  <1>s. \A f \in Stable : f \in Files /\ Encl[f] \cap Removable = {}
                          /\ \A r \in Encl[f] : r \in Roots /\ Encl[f] = {r}
    BY SyncAssumption DEF Stable
  <1>1. ASSUME NEW f \in Files, OpenTab(f) PROVE Goal
    <2>1. RecordIsNotAhead' /\ WatchedAreOpen'
      BY <1>1, <1>i DEF OpenTab, RecordIsNotAhead, WatchedAreOpen, pushVars, serverVars,
                        IsReady
    <2>2. tasks'["added"] > 0
      BY <1>1, <1>t DEF OpenTab, Post, TypeOK, TaskKinds
    <2> QED
      BY <2>1, <2>2 DEF EditsAreTracked
  <1>2. ASSUME NEW f \in Files, NEW t \in Texts, LoadContent(f, t) PROVE Goal
    <2>1. RecordIsNotAhead' /\ WatchedAreOpen'
      BY <1>2, <1>i DEF LoadContent, RecordIsNotAhead, WatchedAreOpen, pushVars,
                        serverVars, IsReady
    <2>2. tasks'["added"] > 0
      BY <1>2, <1>t DEF LoadContent, Post, TypeOK, TaskKinds
    <2> QED
      BY <2>1, <2>2 DEF EditsAreTracked
  <1>3. ASSUME NEW f \in Files, NEW t \in Texts, Edit(f, t) PROVE Goal
    <2>1. RecordIsNotAhead' /\ WatchedAreOpen'
      BY <1>3, <1>i DEF Edit, RecordIsNotAhead, WatchedAreOpen, serverVars, IsReady
    <2>2. EditsAreTracked'
      BY <1>3, <1>i, <1>t, <1>s DEF Edit, EditsAreTracked, serverVars, IsReady, TypeOK
    <2> QED
      BY <2>1, <2>2
  <1>4. ASSUME NEW f \in Files, CloseTab(f) PROVE Goal
    <2>1. RecordIsNotAhead' /\ WatchedAreOpen'
      BY <1>4, <1>i DEF CloseTab, RecordIsNotAhead, WatchedAreOpen, serverVars, IsReady
    <2>2. tasks'["ready"] = tasks["ready"] /\ tasks'["added"] = tasks["added"]
      BY <1>4, <1>t DEF CloseTab, Post, TypeOK, TaskKinds
    <2>3. EditsAreTracked'
      BY <1>4, <2>2, <1>i, <1>t, <1>s
      DEF CloseTab, EditsAreTracked, serverVars, IsReady, TypeOK
    <2> QED
      BY <2>1, <2>3
  <1>5. ASSUME NEW f \in Files, Ask(f) PROVE Goal
    <2>1. WatchedAreOpen' /\ UNCHANGED <<open, buffer, watched, status, timer, tasks>>
      BY <1>5, <1>i DEF Ask, WatchedAreOpen, editorVars, serverVars
    <2>2. CASE synced[f] # buffer[f]
      <3>1. /\ sent' = Told({f}, status, buffer, sent)
            /\ synced' = Recorded({f}, buffer, synced)
            /\ dirty' = dirty \ {f}
            /\ ServerForFile(status, f) # NoRoot
        BY <1>5, <2>2 DEF Ask
      <3>2. HeldBySome(status, sent', synced')
        <4>1. HeldBySome(status, sent, synced)
          BY <1>i DEF HeldBySome, RecordIsNotAhead
        <4> QED
          BY <3>1, <4>1, PushKeepsRecord
      <3>3. RecordIsNotAhead'
        BY <2>1, <3>2 DEF HeldBySome, RecordIsNotAhead, IsReady
      <3>4. EditsAreTracked'
        BY <2>1, <3>1, <1>i, <1>s DEF EditsAreTracked, Recorded, IsReady
      <3> QED
        BY <2>1, <3>3, <3>4
    <2>3. CASE synced[f] = buffer[f]
      <3>1. UNCHANGED <<sent, synced, dirty>>
        BY <1>5, <2>3 DEF Ask
      <3> QED
        BY <2>1, <3>1, <1>i DEF RecordIsNotAhead, EditsAreTracked, IsReady
    <2> QED
      BY <2>2, <2>3
  <1>6. ASSUME NEW F \in SUBSET Files, NEW A \in SUBSET F, NEW new \in [A -> Texts],
               ApplyTextEdits(F, new)
        PROVE  Goal
    <2> DEFINE pushed == {f \in DOMAIN new \ open : ServerForFile(status, f) # NoRoot}
    <2>1. /\ sent' = Told(pushed, status, new, sent)
          /\ synced' = Recorded(pushed, new, synced)
          /\ buffer' = Recorded(DOMAIN new \cap open, new, buffer)
          /\ dirty' = dirty \cup F /\ timer' = TRUE
          /\ UNCHANGED <<open, watched, status, tasks>>
      BY <1>6 DEF ApplyTextEdits, serverVars
    <2>2. HeldBySome(status, sent', synced')
      <3>1. HeldBySome(status, sent, synced)
        BY <1>i DEF HeldBySome, RecordIsNotAhead
      <3>2. pushed \in SUBSET Files /\ \A f \in pushed : ServerForFile(status, f) # NoRoot
        OBVIOUS
      <3> HIDE DEF pushed
      <3> QED
        BY <2>1, <3>1, <3>2, PushKeepsRecord
    <2>3. RecordIsNotAhead'
      BY <2>1, <2>2 DEF HeldBySome, RecordIsNotAhead, IsReady
    <2>4. EditsAreTracked'
      BY <2>1, <1>i, <1>s DEF EditsAreTracked, Recorded, IsReady
    <2> QED
      BY <2>1, <2>3, <2>4, <1>i DEF WatchedAreOpen
  <1>7. ASSUME FlushDirtyDocuments PROVE Goal
    <2> DEFINE pushed == {f \in dirty \cap open : ServerForFile(status, f) # NoRoot}
    <2>1. /\ sent' = Told(pushed, status, buffer, sent)
          /\ synced' = Recorded(pushed, buffer, synced)
          /\ UNCHANGED <<open, buffer, watched, status, tasks>>
      BY <1>7 DEF FlushDirtyDocuments, editorVars, serverVars
    <2>2. HeldBySome(status, sent', synced')
      <3>1. HeldBySome(status, sent, synced)
        BY <1>i DEF HeldBySome, RecordIsNotAhead
      <3>2. pushed \in SUBSET Files /\ \A f \in pushed : ServerForFile(status, f) # NoRoot
        BY <1>t DEF TypeOK
      <3> HIDE DEF pushed
      <3> QED
        BY <2>1, <3>1, <3>2, PushKeepsRecord
    <2>3. RecordIsNotAhead'
      BY <2>1, <2>2 DEF HeldBySome, RecordIsNotAhead, IsReady
    <2>4. EditsAreTracked'
      <3> SUFFICES ASSUME NEW f \in Stable \cap open \cap watched, NEW r \in Encl[f]
                   PROVE  \/ synced'[f] = buffer[f] \/ buffer[f] = Empty
                          \/ tasks["added"] > 0
                          \/ /\ synced'[f] = Empty
                             /\ ~IsReady(status, r) \/ tasks["ready"] > 0
        BY <2>1 DEF EditsAreTracked, IsReady, Stable
      <3>1. CASE f \in pushed
        BY <2>1, <3>1, <1>s DEF Recorded
      <3>2. CASE f \notin pushed
        <4>1. synced'[f] = synced[f]
          BY <2>1, <3>2, <1>s DEF Recorded
        <4>2. CASE f \in dirty
          <5>1. ~IsReady(status, r)
            BY <3>2, <4>2, <1>s, OnlyServer, SyncAssumption
          <5>2. synced[f] = Empty
            BY <5>1, <1>s, <1>i DEF RecordIsNotAhead
          <5> QED
            BY <4>1, <5>1, <5>2
        <4>3. CASE f \notin dirty
          BY <4>1, <4>3, <1>i DEF EditsAreTracked
        <4> QED
          BY <4>2, <4>3
      <3> QED
        BY <3>1, <3>2
    <2> QED
      BY <2>1, <2>3, <2>4, <1>i DEF WatchedAreOpen
  <1>8. ASSUME NEW k \in TaskKinds, AnnounceTask(k) PROVE Goal
    BY <1>8, AnnounceKeeps DEF AnnounceTask
  <1>9. ASSUME ReconcileOpenDocuments PROVE Goal
    <2> DEFINE gone == {f \in Files \ open : \E r \in Roots : sent[r][f] # NoDoc}
    <2>1. /\ sent' = [r \in Roots |-> [f \in Files |->
                        IF f \in gone THEN NoDoc ELSE sent[r][f]]]
          /\ synced' = Recorded(gone, [f \in Files |-> Empty], synced)
          /\ UNCHANGED <<open, buffer, watched, dirty, status, timer>>
      BY <1>9 DEF ReconcileOpenDocuments, editorVars, serverVars
    <2>2. tasks'["ready"] = tasks["ready"] /\ tasks'["added"] = tasks["added"]
      BY <1>9, <1>t DEF ReconcileOpenDocuments, Take, TypeOK, TaskKinds
    <2>3. \A f \in open \cap Files : f \notin gone
      OBVIOUS
    <2>4. gone \in SUBSET Files
      OBVIOUS
    <2> HIDE DEF gone
    <2>5. RecordIsNotAhead'
      <3> SUFFICES ASSUME NEW f \in Files, Encl[f] \cap Removable = {},
                          synced'[f] # Empty
                   PROVE  \E r \in Encl[f] : IsReady(status, r) /\ sent'[r][f] = synced'[f]
        BY <2>1 DEF RecordIsNotAhead, IsReady
      <3>1. f \notin gone /\ synced'[f] = synced[f]
        BY <2>1 DEF Recorded
      <3>2. PICK r \in Encl[f] : IsReady(status, r) /\ sent[r][f] = synced[f]
        BY <3>1, <1>i DEF RecordIsNotAhead
      <3>3. r \in Roots
        BY SyncAssumption
      <3> QED
        BY <2>1, <3>1, <3>2, <3>3
    <2>6. EditsAreTracked'
      BY <2>1, <2>2, <2>3, <1>i, <1>s DEF EditsAreTracked, Recorded, IsReady
    <2> QED
      BY <2>1, <2>5, <2>6, <1>i DEF WatchedAreOpen
  <1>10. ASSUME NEW r \in Roots, ProjectLoaded(r) PROVE Goal
    BY <1>10, AnnounceKeeps DEF ProjectLoaded, editorVars
  <1>11. ASSUME NEW r \in Roots, ProjectConfigChanged(r) PROVE Goal
    BY <1>11, StopKeeps DEF ProjectConfigChanged, editorVars
  <1>12. ASSUME NEW r \in Roots, ProjectRemoved(r) PROVE Goal
    <2>1. /\ r \in Removable
          /\ status' = [status EXCEPT ![r] = "none"]
          /\ sent' = [sent EXCEPT ![r] = [f \in Files |-> NoDoc]]
          /\ UNCHANGED <<open, buffer, watched, dirty, synced, timer, tasks>>
      BY <1>12 DEF ProjectRemoved, editorVars
    <2>2. \A q \in Roots : q # r => status'[q] = status[q] /\ sent'[q] = sent[q]
      BY <2>1, <1>t DEF TypeOK
    <2>3. RecordIsNotAhead'
      <3> SUFFICES ASSUME NEW f \in Files, Encl[f] \cap Removable = {}, synced[f] # Empty
                   PROVE  \E q \in Encl[f] : IsReady(status', q) /\ sent'[q][f] = synced[f]
        BY <2>1 DEF RecordIsNotAhead, IsReady
      <3>1. PICK q \in Encl[f] : IsReady(status, q) /\ sent[q][f] = synced[f]
        BY <1>i DEF RecordIsNotAhead
      <3>2. q \in Roots /\ q # r
        BY <2>1, SyncAssumption
      <3> QED
        BY <2>2, <3>1, <3>2 DEF IsReady
    <2>4. EditsAreTracked'
      <3>1. \A f \in Stable : \A q \in Encl[f] : IsReady(status', q) <=> IsReady(status, q)
        BY <1>s, <2>1, <2>2 DEF IsReady
      <3> QED
        BY <2>1, <3>1, <1>i, <1>s DEF EditsAreTracked, IsReady
    <2> QED
      BY <2>1, <2>3, <2>4, <1>i DEF WatchedAreOpen
  <1>13. ASSUME ConfigurationModified PROVE Goal
    BY <1>13, StopKeeps DEF ConfigurationModified, editorVars
  <1>14. ASSUME NEW q \in requests, ServerAnswers(q) PROVE Goal
    BY <1>14, <1>i DEF ServerAnswers, WatchedAreOpen, RecordIsNotAhead, EditsAreTracked,
                       IsReady, editorVars, pushVars, serverVars
  <1>15. ASSUME NEW r \in Roots, ServerInitialized(r) PROVE Goal
    <2>1. /\ status' = [status EXCEPT ![r] = "ready"]
          /\ UNCHANGED <<open, buffer, watched, dirty, sent, synced, timer>>
      BY <1>15 DEF ServerInitialized, editorVars, pushVars
    <2>2. tasks'["ready"] > 0 /\ tasks'["added"] = tasks["added"]
      BY <1>15, <1>t DEF ServerInitialized, Post, TypeOK, TaskKinds
    <2>3. \A q \in Roots : IsReady(status, q) => IsReady(status', q)
      BY <2>1, <1>t DEF IsReady, TypeOK
    <2>4. RecordIsNotAhead'
      BY <2>1, <2>3, <1>i, SyncAssumption DEF RecordIsNotAhead, IsReady
    <2>5. EditsAreTracked'
      BY <2>1, <2>2, <2>3, <1>i, <1>s DEF EditsAreTracked, IsReady
    <2> QED
      BY <2>1, <2>4, <2>5, <1>i DEF WatchedAreOpen
  <1>16. ASSUME NEW r \in Roots, ServerExits(r) PROVE Goal
    <2>1. /\ status[r] \in {"starting", "unheard", "ready"}
          /\ status' = [status EXCEPT ![r] = IF @ = "starting" THEN "failed" ELSE "dead"]
          /\ UNCHANGED <<open, buffer, watched, dirty, sent, synced, timer, tasks>>
      BY <1>16 DEF ServerExits, editorVars, pushVars
    <2>2. \A q \in Roots : IsReady(status', q) <=> IsReady(status, q)
      BY <2>1, <1>t DEF IsReady, TypeOK
    <2>3. RecordIsNotAhead'
      BY <2>1, <2>2, <1>i, SyncAssumption DEF RecordIsNotAhead, IsReady
    <2>4. EditsAreTracked'
      BY <2>1, <2>2, <1>i, <1>s DEF EditsAreTracked, IsReady
    <2> QED
      BY <2>1, <2>3, <2>4, <1>i DEF WatchedAreOpen
  <1>17. ASSUME UNCHANGED vars PROVE Goal
    BY <1>17, <1>i DEF vars, editorVars, pushVars, serverVars, WatchedAreOpen,
                       RecordIsNotAhead, EditsAreTracked, IsReady
  <1> QED
    BY <1>1, <1>2, <1>3, <1>4, <1>5, <1>6, <1>7, <1>8, <1>9, <1>10, <1>11, <1>12,
       <1>13, <1>14, <1>15, <1>16, <1>17, <1>t
    DEF IInv, Next, ServerReadyTask, ClientAddedTask, TaskKinds

\* The invariant holds in every behaviour.
THEOREM Invariance == Spec => []IInv
  BY InitInv, NextInv, PTL DEF Spec

\* SyncedContent never claims more than a live server was told, whatever the
\* projects, as long as those around the file are not removed.
THEOREM RecordSafety == Spec => []RecordIsNotAhead
  <1>1. IInv => RecordIsNotAhead
    BY DEF IInv
  <1> QED
    BY <1>1, Invariance, PTL

\* No keystroke is forgotten by the debounce, the restarts and the announcements.
THEOREM EditSafety == Spec => []EditsAreTracked
  <1>1. IInv => EditsAreTracked
    BY DEF IInv
  <1> QED
    BY <1>1, Invariance, PTL

-----------------------------------------------------------------------------
(* Positional requests.                                                    *)

\* A request is sent after its file has been pushed, or when the record says
\* that the push would be redundant, and then the record is right.
LEMMA AskIsAboutTheBuffer ==
    ASSUME IInv, NEW f \in Stable, Ask(f), buffer[f] # Empty
    PROVE  sent'[ServerForFile(status, f)][f] = buffer[f]
  <1> DEFINE r == ServerForFile(status, f)
  <1>1. f \in Files
    BY DEF Stable
  <1>2. r \in Encl[f] /\ r \in Roots
    BY <1>1, ServerIsAbove DEF Ask
  <1>3. CASE synced[f] # buffer[f]
    BY <1>1, <1>2, <1>3 DEF Ask, Told
  <1>4. CASE synced[f] = buffer[f]
    <2>1. sent' = sent
      BY <1>4 DEF Ask
    <2>2. Encl[f] = {r} /\ Encl[f] \cap Removable = {}
      BY <1>2 DEF Stable
    <2>3. sent[r][f] = synced[f]
      BY <1>1, <1>4, <2>2 DEF IInv, RecordIsNotAhead
    <2> QED
      BY <1>4, <2>1, <2>3
  <1> QED
    BY <1>3, <1>4

\* Without a question, requests only go.
LEMMA OnlyAskAdds ==
    ASSUME [Next]_vars, \A f \in Files : ~Ask(f)
    PROVE  requests' \subseteq requests
  <1>1. CASE UNCHANGED vars
    BY <1>1 DEF vars
  <1>2. CASE Next
    BY <1>2 DEF Next, OpenTab, LoadContent, Edit, CloseTab, ApplyTextEdits,
                FlushDirtyDocuments, ServerReadyTask, ClientAddedTask, AnnounceTask,
                ReconcileOpenDocuments, ProjectLoaded, ProjectConfigChanged,
                ProjectRemoved, ConfigurationModified, StopAllServers,
                ServerAnswers, ServerInitialized, ServerExits
  <1> QED
    BY <1>1, <1>2

\* With the invariant, what requests rely on is inductive.
LEMMA NextRequests == IInv /\ RequestsSeeTheBuffer /\ [Next]_vars => RequestsSeeTheBuffer'
  <1> SUFFICES ASSUME IInv, RequestsSeeTheBuffer, [Next]_vars
               PROVE  RequestsSeeTheBuffer'
    OBVIOUS
  <1>1. ASSUME NEW f \in Files, Ask(f) PROVE RequestsSeeTheBuffer'
    <2> SUFFICES ASSUME NEW q \in requests', q.file \in Stable, q.content # Empty
                 PROVE  q.held = q.content
      BY DEF RequestsSeeTheBuffer, Stable
    <2>1. CASE q \in requests
      BY <2>1 DEF RequestsSeeTheBuffer
    <2>2. CASE q \notin requests
      <3>1. q = [file |-> f, root |-> ServerForFile(status, f), content |-> buffer[f],
                 held |-> sent'[ServerForFile(status, f)][f]]
        BY <1>1, <2>2 DEF Ask
      <3>2. q.file = f /\ q.content = buffer[f]
            /\ q.held = sent'[ServerForFile(status, f)][f]
        BY <3>1
      <3> QED
        BY <1>1, <3>2, AskIsAboutTheBuffer
    <2> QED
      BY <2>1, <2>2
  <1>2. ASSUME requests' \subseteq requests PROVE RequestsSeeTheBuffer'
    BY <1>2 DEF RequestsSeeTheBuffer, Stable
  <1>3. (\A f \in Files : ~Ask(f)) => requests' \subseteq requests
    BY OnlyAskAdds
  <1> QED
    BY <1>1, <1>2, <1>3

\* Every answer to a positional request is computed from the buffer it was asked
\* about, for a file whose one project is not removed.
THEOREM RequestSafety == Spec => []RequestsSeeTheBuffer
  <1>1. Init => RequestsSeeTheBuffer
    BY DEF Init, RequestsSeeTheBuffer
  <1> QED
    BY <1>1, NextRequests, Invariance, PTL DEF Spec

-----------------------------------------------------------------------------
(* The refinement of SharedDocuments.                                      *)

\* A stable file has one root, which is not removed.
LEMMA StableRoot ==
    ASSUME NEW f \in Stable
    PROVE  /\ f \in Files /\ RootOf(f) \in Roots /\ RootOf(f) \notin Removable
           /\ Encl[f] = {RootOf(f)}
  <1>1. f \in Files /\ \E r \in Roots : Encl[f] = {r}
    BY DEF Stable
  <1>2. RootOf(f) \in Roots /\ Encl[f] = {RootOf(f)}
    BY <1>1 DEF RootOf
  <1> QED
    BY <1>1, <1>2 DEF Stable

\* What the one server of a stable file is told by a push.
LEMMA ToldToRoot ==
    ASSUME NEW F, NEW st, NEW text, NEW docs, NEW f \in Stable
    PROVE  Told(F, st, text, docs)[RootOf(f)][f] =
               IF f \in F /\ ServerForFile(st, f) # NoRoot THEN text[f] ELSE docs[RootOf(f)][f]
  <1>1. f \in Files /\ RootOf(f) \in Roots /\ Encl[f] = {RootOf(f)}
    BY StableRoot
  <1>2. ServerForFile(st, f) # NoRoot => ServerForFile(st, f) = RootOf(f)
    BY <1>1, ServerIsAbove
  <1>3. RootOf(f) # NoRoot
    BY <1>1, SyncAssumption
  <1> QED
    BY <1>1, <1>2, <1>3 DEF Told

\* A stable file's copy is told what its editor shows, or stays what docs says.
SyncedFrom(docs) ==
    \E told \in SUBSET Edited :
        Copies' = [f \in Stable |-> IF f \in told THEN Shown[f] ELSE docs[RootOf(f)][f]]

\* syncOpenDocuments() tells editors' texts only.
LEMMA SyncTells ==
    ASSUME NEW prj, NEW st, NEW docs, NEW rec, SyncOpenDocuments(prj, st, docs, rec)
    PROVE  SyncedFrom(docs)
  <1>1. PICK up \in [RootsToStart(prj, st) -> StartOutcomes] :
           LET now  == [r \in Roots |-> IF r \in RootsToStart(prj, st)
                                        THEN up[r] ELSE st[r]]
               told == {f \in open : /\ buffer[f] # Empty
                                     /\ ServerForFile(now, f) # NoRoot}
           IN  sent' = Told(told, now, buffer, docs)
    BY DEF SyncOpenDocuments
  <1> DEFINE now  == [r \in Roots |-> IF r \in RootsToStart(prj, st)
                                      THEN up[r] ELSE st[r]]
             told == {f \in open : /\ buffer[f] # Empty
                                   /\ ServerForFile(now, f) # NoRoot}
  <1>2. sent' = Told(told, now, buffer, docs)
    BY <1>1
  <1>3. told \subseteq open /\ \A f \in told : ServerForFile(now, f) # NoRoot
    OBVIOUS
  <1> HIDE DEF told, now
  <1>4. ASSUME NEW f \in Stable
        PROVE  sent'[RootOf(f)][f] = IF f \in told \cap Stable THEN Shown[f] ELSE docs[RootOf(f)][f]
    BY <1>2, <1>3, ToldToRoot DEF Shown
  <1>5. Copies' = [f \in Stable |-> IF f \in told \cap Stable THEN Shown[f] ELSE docs[RootOf(f)][f]]
    BY <1>4 DEF Copies
  <1>6. told \cap Stable \in SUBSET Edited
    BY <1>3 DEF Edited
  <1> QED
    BY <1>5, <1>6 DEF SyncedFrom

\* With the editors as they were, such a push is a Tell.
LEMMA SyncIsATell ==
    ASSUME NEW prj, SyncOpenDocuments(prj, status, sent, synced), UNCHANGED <<open, buffer, requests>>
    PROVE  Documents!Next
  <1>1. PICK told \in SUBSET Edited :
            Copies' = [f \in Stable |-> IF f \in told THEN Shown[f] ELSE sent[RootOf(f)][f]]
    BY SyncTells DEF SyncedFrom
  <1>2. Copies' = [f \in Stable |-> IF f \in told THEN Shown[f] ELSE Copies[f]]
    BY <1>1 DEF Copies
  <1>3. UNCHANGED <<Edited, Shown, Questions>>
    BY DEF Edited, Shown, Questions
  <1>4. Documents!Tell(told)
    BY <1>2, <1>3 DEF Documents!Tell
  <1> QED
    BY <1>4 DEF Documents!Next

\* A stop of all servers is a Restart.
LEMMA StopIsARestart ==
    ASSUME NEW prj, StopAllServers(prj), UNCHANGED <<open, buffer>>
    PROVE  Documents!Next
  <1>1. requests' = {} /\ SyncedFrom(NoDocuments)
    BY SyncTells DEF StopAllServers
  <1>2. PICK told \in SUBSET Edited :
            Copies' = [f \in Stable |-> IF f \in told THEN Shown[f] ELSE NoDocuments[RootOf(f)][f]]
    BY <1>1 DEF SyncedFrom
  <1>3. \A f \in Stable : NoDocuments[RootOf(f)][f] = NoDoc
    BY StableRoot DEF NoDocuments
  <1>4. Copies' = [f \in Stable |-> IF f \in told THEN Shown[f] ELSE NoDoc]
    BY <1>2, <1>3
  <1>5. UNCHANGED <<Edited, Shown>> /\ Questions' = {}
    BY <1>1 DEF Edited, Shown, Questions
  <1>6. Documents!Restart(told)
    BY <1>4, <1>5 DEF Documents!Restart
  <1> QED
    BY <1>6 DEF Documents!Next

\* A question is put to a server around its file.
RequestsAreRooted == \A q \in requests : q.root \in Encl[q.file]

\* It stays one.
LEMMA NextRooted == RequestsAreRooted /\ [Next]_vars => RequestsAreRooted'
  <1> SUFFICES ASSUME RequestsAreRooted, [Next]_vars PROVE RequestsAreRooted'
    OBVIOUS
  <1>1. ASSUME NEW f \in Files, Ask(f) PROVE RequestsAreRooted'
    <2>1. ServerForFile(status, f) \in Encl[f]
      BY <1>1, ServerIsAbove DEF Ask
    <2> QED
      BY <1>1, <2>1 DEF Ask, RequestsAreRooted
  <1>2. CASE \A f \in Files : ~Ask(f)
    BY <1>2, OnlyAskAdds DEF RequestsAreRooted
  <1> QED
    BY <1>1, <1>2

\* A question about a stable file is a question of the abstract server.
LEMMA AskRefines ==
    ASSUME IInv, NEW f \in Files, Ask(f)
    PROVE  Documents!Next \/ UNCHANGED <<Edited, Shown, Copies, Questions>>
  <1> DEFINE r == ServerForFile(status, f)
             q == [file |-> f, root |-> r, content |-> buffer[f], held |-> sent'[r][f]]
  <1>1. /\ f \in open /\ r # NoRoot /\ requests' = requests \cup {q}
        /\ UNCHANGED <<open, buffer>>
        /\ sent' = IF synced[f] # buffer[f] THEN Told({f}, status, buffer, sent) ELSE sent
    BY DEF Ask, editorVars
  <1>2. UNCHANGED <<Edited, Shown>>
    BY <1>1 DEF Edited, Shown
  <1>3. \A g \in Stable : sent'[RootOf(g)][g] =
            IF g = f /\ synced[f] # buffer[f] THEN buffer[g] ELSE sent[RootOf(g)][g]
    <2>1. CASE synced[f] # buffer[f]
      BY <1>1, <2>1, ToldToRoot
    <2>2. CASE synced[f] = buffer[f]
      BY <1>1, <2>2
    <2> QED
      BY <2>1, <2>2
  <1>4. CASE f \notin Stable
    <2>1. Copies' = Copies
      BY <1>3, <1>4 DEF Copies
    <2>2. Questions' = Questions
      BY <1>1, <1>4 DEF Questions
    <2> QED
      BY <1>2, <2>1, <2>2
  <1>5. CASE f \in Stable
    <2> DEFINE held == sent'[r][f]
    <2>1. r = RootOf(f)
      BY <1>1, <1>5, StableRoot, ServerIsAbove
    <2>2. Copies' = [Copies EXCEPT ![f] = held]
      <3>1. \A g \in Stable : Copies'[g] = IF g = f THEN held ELSE Copies[g]
        BY <1>3, <2>1 DEF Copies
      <3>2. Copies' = [g \in Stable |-> Copies'[g]] /\ DOMAIN Copies = Stable
        BY DEF Copies
      <3> QED
        BY <3>1, <3>2
    <2>3. buffer[f] # Empty => held = buffer[f]
      BY <1>5, AskIsAboutTheBuffer
    <2>4. held \in {buffer[f], Copies[f]}
      BY <1>3, <1>5, <2>1 DEF Copies
    <2>5. Questions' = Questions \cup {[doc |-> f, about |-> buffer[f], held |-> held]}
      <3>1. q.file = f /\ q.content = buffer[f] /\ q.held = held
        OBVIOUS
      <3> HIDE DEF q, held
      <3> QED
        BY <1>1, <1>5, <3>1 DEF Questions
    <2>6. Shown[f] = buffer[f] /\ f \in Edited
      BY <1>1, <1>5 DEF Shown, Edited
    <2> HIDE DEF held
    <2>7. Documents!Ask(f)
      BY <1>2, <2>2, <2>3, <2>4, <2>5, <2>6 DEF Documents!Ask
    <2> QED
      BY <1>5, <2>7 DEF Documents!Next
  <1> QED
    BY <1>4, <1>5

\* Texts that change, in editors and in files without one, are a Write.
LEMMA WriteRefines ==
    ASSUME TypeOK, NEW A \in SUBSET Files, NEW new \in [A -> Texts], UNCHANGED <<open, requests>>,
           buffer' = Recorded(A \cap open, new, buffer),
           NEW told \in SUBSET (A \ open), sent' = Told(told, status, new, sent)
    PROVE  Documents!Next
  <1> DEFINE D == A \cap Stable
             n == [d \in D |-> new[d]]
             t == {f \in told \cap Stable : ServerForFile(status, f) # NoRoot}
  <1>1. D \in SUBSET Stable /\ n \in [D -> Texts] /\ DOMAIN n = D
    OBVIOUS
  <1>2. Stable \subseteq Files
    BY DEF Stable
  <1>3. Shown' = [d \in Stable |-> IF d \in D \cap Edited THEN n[d] ELSE Shown[d]]
    <2>1. \A d \in Stable : buffer'[d] = IF d \in D \cap Edited THEN n[d] ELSE Shown[d]
      BY <1>2 DEF Recorded, Shown, Edited
    <2> HIDE DEF D, n
    <2> QED
      BY <2>1 DEF Shown
  <1>4. Copies' = [d \in Stable |-> IF d \in t THEN n[d] ELSE Copies[d]]
    <2>1. \A d \in Stable : sent'[RootOf(d)][d] = IF d \in t THEN n[d] ELSE Copies[d]
      BY ToldToRoot DEF Copies
    <2> HIDE DEF D, n, t
    <2> QED
      BY <2>1 DEF Copies
  <1>5. t \in SUBSET (D \ Edited)
    BY DEF Edited
  <1>6. UNCHANGED <<Edited, Questions>>
    BY DEF Edited, Questions
  <1> HIDE DEF D, n, t
  <1>7. Documents!Write(n)
    BY <1>1, <1>3, <1>4, <1>5, <1>6 DEF Documents!Write
  <1> QED
    BY <1>1, <1>7 DEF Documents!Next

\* A text of one editor that changes is a Write, too.
LEMMA TypingRefines ==
    ASSUME TypeOK, NEW f \in Files, NEW t \in Texts, f \in open,
           buffer' = [buffer EXCEPT ![f] = t], UNCHANGED <<open, sent, requests>>
    PROVE  Documents!Next
  <1> DEFINE A == {f}
             new == [g \in A |-> t]
  <1>1. A \in SUBSET Files /\ new \in [A -> Texts] /\ new[f] = t /\ A \cap open = {f}
    OBVIOUS
  <1>2. buffer \in [Files -> Texts] /\ sent \in [Roots -> [Files -> Texts \cup {NoDoc}]]
    BY DEF TypeOK
  <1> HIDE DEF A, new
  <1>3. buffer' = Recorded(A \cap open, new, buffer)
    BY <1>1, <1>2 DEF Recorded
  <1>4. sent' = Told({}, status, new, sent) /\ {} \in SUBSET (A \ open)
    BY <1>2 DEF Told
  <1> QED
    BY <1>1, <1>3, <1>4, WriteRefines

\* Every step is one of SharedDocuments, or cannot be seen there.
LEMMA StepRefines == IInv /\ RequestsAreRooted /\ [Next]_vars => [Documents!Next]_(Documents!vars)
  <1> SUFFICES ASSUME IInv, RequestsAreRooted, [Next]_vars PROVE [Documents!Next]_(Documents!vars)
    OBVIOUS
  <1> DEFINE Goal == Documents!Next \/ UNCHANGED <<Edited, Shown, Copies, Questions>>
  <1>t. /\ TypeOK /\ Stable \subseteq Files
        /\ sent \in [Roots -> [Files -> Texts \cup {NoDoc}]] /\ buffer \in [Files -> Texts]
    BY DEF IInv, TypeOK, Stable
  <1>s. ASSUME UNCHANGED <<open, buffer, sent, requests>> PROVE Goal
    BY <1>s DEF Edited, Shown, Copies, Questions
  <1>1. ASSUME NEW f \in Files, OpenTab(f) PROVE Goal
    <2>1. f \notin open /\ open' = open \cup {f} /\ UNCHANGED <<buffer, sent, requests>>
      BY <1>1 DEF OpenTab, pushVars
    <2>2. UNCHANGED <<Shown, Copies, Questions>>
      BY <2>1 DEF Shown, Copies, Questions
    <2>3. CASE f \in Stable
      <3>1. Documents!Open(f)
        BY <2>1, <2>2, <2>3 DEF Documents!Open, Edited
      <3> QED
        BY <2>3, <3>1 DEF Documents!Next
    <2>4. CASE f \notin Stable
      BY <2>1, <2>2, <2>4 DEF Edited
    <2> QED
      BY <2>3, <2>4
  <1>2. ASSUME NEW f \in Files, NEW t \in Texts, LoadContent(f, t) \/ Edit(f, t) PROVE Goal
    <2>1. f \in open /\ buffer' = [buffer EXCEPT ![f] = t] /\ UNCHANGED <<open, sent, requests>>
      BY <1>2 DEF LoadContent, Edit, pushVars
    <2> QED
      BY <1>t, <2>1, TypingRefines
  <1>3. ASSUME NEW f \in Files, CloseTab(f) PROVE Goal
    <2>1. /\ f \in open /\ open' = open \ {f} /\ buffer' = [buffer EXCEPT ![f] = Empty]
          /\ UNCHANGED <<sent, requests>>
      BY <1>3 DEF CloseTab
    <2>2. UNCHANGED <<Copies, Questions>>
      BY <2>1 DEF Copies, Questions
    <2>3. CASE f \in Stable
      <3>1. Shown' = [Shown EXCEPT ![f] = Empty]
        BY <1>t, <2>1, <2>3 DEF Shown
      <3>2. Documents!Close(f)
        BY <2>1, <2>2, <2>3, <3>1 DEF Documents!Close, Edited
      <3> QED
        BY <2>3, <3>2 DEF Documents!Next
    <2>4. CASE f \notin Stable
      <3>1. Shown' = Shown
        BY <1>t, <2>1, <2>4 DEF Shown
      <3> QED
        BY <2>1, <2>2, <2>4, <3>1 DEF Edited
    <2> QED
      BY <2>3, <2>4
  <1>4. ASSUME NEW f \in Files, Ask(f) PROVE Goal
    BY <1>4, AskRefines
  <1>5. ASSUME NEW F \in SUBSET Files, NEW A \in SUBSET F, NEW new \in [A -> Texts], ApplyTextEdits(F, new)
        PROVE  Goal
    <2> DEFINE pushed == {f \in DOMAIN new \ open : ServerForFile(status, f) # NoRoot}
    <2>1. /\ sent' = Told(pushed, status, new, sent) /\ buffer' = Recorded(A \cap open, new, buffer)
          /\ UNCHANGED <<open, requests>>
      BY <1>5 DEF ApplyTextEdits
    <2>2. pushed \in SUBSET (A \ open) /\ A \in SUBSET Files
      OBVIOUS
    <2> HIDE DEF pushed
    <2> QED
      BY <1>t, <2>1, <2>2, WriteRefines
  <1>6. ASSUME FlushDirtyDocuments PROVE Goal
    <2> DEFINE pushed == {f \in dirty \cap open : ServerForFile(status, f) # NoRoot}
               told == pushed \cap Stable
    <2>1. sent' = Told(pushed, status, buffer, sent) /\ UNCHANGED <<open, buffer, requests>>
      BY <1>6 DEF FlushDirtyDocuments, editorVars
    <2>2. \A f \in Stable : sent'[RootOf(f)][f] = IF f \in told THEN buffer[f] ELSE sent[RootOf(f)][f]
      BY <2>1, ToldToRoot
    <2>3. told \in SUBSET Edited
      BY DEF Edited
    <2> HIDE DEF pushed, told
    <2>4. Copies' = [f \in Stable |-> IF f \in told THEN Shown[f] ELSE Copies[f]]
      BY <2>2 DEF Copies, Shown
    <2>5. UNCHANGED <<Edited, Shown, Questions>>
      BY <2>1 DEF Edited, Shown, Questions
    <2>6. Documents!Tell(told)
      BY <2>4, <2>5 DEF Documents!Tell
    <2> QED
      BY <2>3, <2>6 DEF Documents!Next
  <1>7. ASSUME NEW k \in TaskKinds, AnnounceTask(k) PROVE Goal
    BY <1>7, SyncIsATell DEF AnnounceTask
  <1>8. ASSUME ReconcileOpenDocuments PROVE Goal
    <2> DEFINE all == {f \in Files \ open : \E r \in Roots : sent[r][f] # NoDoc}
               gone == all \cap Stable
    <2>1. /\ sent' = [r \in Roots |-> [f \in Files |-> IF f \in all THEN NoDoc ELSE sent[r][f]]]
          /\ UNCHANGED <<open, buffer, requests>>
      BY <1>8 DEF ReconcileOpenDocuments, editorVars
    <2>2. gone \in SUBSET (Stable \ Edited) /\ gone = all \cap Stable
      BY DEF Edited
    <2> HIDE DEF all, gone
    <2>3. \A f \in Stable : sent'[RootOf(f)][f] = IF f \in gone THEN NoDoc ELSE sent[RootOf(f)][f]
      BY <1>t, <2>1, <2>2, StableRoot
    <2>4. Copies' = [f \in Stable |-> IF f \in gone THEN NoDoc ELSE Copies[f]]
      BY <2>3 DEF Copies
    <2>5. UNCHANGED <<Edited, Shown, Questions>>
      BY <2>1 DEF Edited, Shown, Questions
    <2>6. Documents!Forget(gone)
      BY <2>4, <2>5 DEF Documents!Forget
    <2> QED
      BY <2>2, <2>6 DEF Documents!Next
  <1>9. ASSUME NEW r \in Roots, ProjectLoaded(r) PROVE Goal
    BY <1>9, SyncIsATell DEF ProjectLoaded, editorVars
  <1>10. ASSUME NEW r \in Roots, ProjectConfigChanged(r) PROVE Goal
    BY <1>10, StopIsARestart DEF ProjectConfigChanged, editorVars
  <1>11. ASSUME ConfigurationModified PROVE Goal
    BY <1>11, StopIsARestart DEF ConfigurationModified, editorVars
  <1>12. ASSUME NEW r \in Roots, ProjectRemoved(r) PROVE Goal
    <2>1. /\ r \in Removable /\ sent' = [sent EXCEPT ![r] = [f \in Files |-> NoDoc]]
          /\ requests' = {q \in requests : q.root # r} /\ UNCHANGED <<open, buffer>>
      BY <1>12 DEF ProjectRemoved, editorVars
    <2>2. Copies' = Copies
      <3>1. \A f \in Stable : sent'[RootOf(f)] = sent[RootOf(f)]
        BY <1>t, <2>1, StableRoot
      <3> QED
        BY <3>1 DEF Copies
    <2>3. Questions' = Questions
      <3>1. \A q \in requests : q.file \in Stable => q \in requests'
        BY <2>1, StableRoot DEF RequestsAreRooted
      <3>2. {q \in requests' : q.file \in Stable} = {q \in requests : q.file \in Stable}
        BY <2>1, <3>1
      <3> QED
        BY <3>2 DEF Questions
    <2> QED
      BY <2>1, <2>2, <2>3 DEF Edited, Shown
  <1>13. ASSUME NEW q \in requests, ServerAnswers(q) PROVE Goal
    <2> DEFINE Seen(p) == [doc |-> p.file, about |-> p.content, held |-> p.held]
    <2>1. requests' = requests \ {q} /\ UNCHANGED <<open, buffer, sent>>
      BY <1>13 DEF ServerAnswers, editorVars, pushVars
    <2>2. UNCHANGED <<Edited, Shown, Copies>>
      BY <2>1 DEF Edited, Shown, Copies
    <2>3. Questions = {Seen(p) : p \in {p \in requests : p.file \in Stable}}
      BY DEF Questions
    <2>4. Questions' = {Seen(p) : p \in {p \in requests \ {q} : p.file \in Stable}}
      BY <2>1 DEF Questions
    <2> HIDE DEF Seen
    <2>5. Questions' = Questions \/ (Questions' = Questions \ {Seen(q)} /\ Seen(q) \in Questions)
      BY <2>3, <2>4
    <2>6. CASE Questions' = Questions \ {Seen(q)} /\ Seen(q) \in Questions
      <3>1. Documents!Answer(Seen(q))
        BY <2>2, <2>6 DEF Documents!Answer
      <3> QED
        BY <2>6, <3>1 DEF Documents!Next
    <2> QED
      BY <2>2, <2>5, <2>6
  <1>14. ASSUME NEW r \in Roots, ServerInitialized(r) \/ ServerExits(r) PROVE Goal
    BY <1>14, <1>s DEF ServerInitialized, ServerExits, editorVars, pushVars
  <1>15. ASSUME UNCHANGED vars PROVE Goal
    BY <1>15, <1>s DEF vars, editorVars, pushVars
  <1>16. Goal
    BY <1>1, <1>2, <1>3, <1>4, <1>5, <1>6, <1>7, <1>8, <1>9, <1>10, <1>11, <1>12, <1>13, <1>14, <1>15
    DEF Next, ServerReadyTask, ClientAddedTask, TaskKinds
  <1> QED
    BY <1>16 DEF Documents!vars

\* ImplementsSharedDocuments: for any files, projects and texts, the servers of
\* files that keep theirs behave as SharedDocuments says; with the record, the
\* pushes that it saves and the debounce out of sight.
THEOREM Refinement == Spec => ImplementsSharedDocuments
  <1>1. Init => Documents!Init /\ RequestsAreRooted
    <2> SUFFICES ASSUME Init PROVE Documents!Init /\ RequestsAreRooted
      OBVIOUS
    <2>1. Edited = {} /\ Questions = {} /\ RequestsAreRooted
      BY DEF Init, Edited, Questions, RequestsAreRooted
    <2>2. Shown = [d \in Stable |-> Empty]
      BY DEF Init, Shown, Stable
    <2>3. Copies = [d \in Stable |-> NoDoc]
      BY StableRoot DEF Init, Copies, NoDocuments
    <2> QED
      BY <2>1, <2>2, <2>3 DEF Documents!Init
  <1> QED
    BY <1>1, NextRooted, StepRefines, Invariance, PTL
    DEF Spec, ImplementsSharedDocuments, Documents!Spec

\* Whoever implements SharedDocuments answers from the buffer: the refinement
\* loses nothing of what requests are promised.
THEOREM DocumentsAnswer == ImplementsSharedDocuments => []RequestsSeeTheBuffer
  <1> DEFINE Answered == \A q \in Questions : q.about # Empty => q.held = q.about
  <1>1. Documents!Init => Answered
    BY DEF Documents!Init
  <1>2. Answered /\ [Documents!Next]_(Documents!vars) => Answered'
    <2> SUFFICES ASSUME Answered, [Documents!Next]_(Documents!vars),
                        NEW q \in Questions', q.about # Empty
                 PROVE  q.held = q.about
      OBVIOUS
    <2>1. CASE q \in Questions
      BY <2>1
    <2>2. CASE q \notin Questions
      <3>1. PICK d \in Stable : Documents!Ask(d)
        BY <2>2 DEF Documents!Next, Documents!Open, Documents!Close, Documents!Write, Documents!Tell,
           Documents!Forget, Documents!Restart, Documents!Answer, Documents!vars
      <3>2. PICK held \in {Shown[d], Copies[d]} :
                /\ Shown[d] # Empty => held = Shown[d]
                /\ Questions' = Questions \cup {[doc |-> d, about |-> Shown[d], held |-> held]}
        BY <3>1 DEF Documents!Ask
      <3>3. q = [doc |-> d, about |-> Shown[d], held |-> held]
        BY <2>2, <3>2
      <3> QED
        BY <3>2, <3>3
    <2> QED
      BY <2>1, <2>2
  <1>3. Answered => RequestsSeeTheBuffer
    <2> SUFFICES ASSUME Answered, NEW q \in requests, q.file \in Stable, q.content # Empty
                 PROVE  q.held = q.content
      BY DEF RequestsSeeTheBuffer
    <2> DEFINE a == [doc |-> q.file, about |-> q.content, held |-> q.held]
    <2>1. a \in Questions
      BY DEF Questions
    <2>2. a.about = q.content /\ a.held = q.held
      OBVIOUS
    <2> HIDE DEF a
    <2> QED
      BY <2>1, <2>2
  <1> HIDE DEF Answered
  <1> QED
    BY <1>1, <1>2, <1>3, PTL DEF ImplementsSharedDocuments, Documents!Spec
=============================================================================
