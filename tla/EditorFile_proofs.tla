-------------------------- MODULE EditorFile_proofs --------------------------
(***************************************************************************)
(* Proofs about EditorFile, for every set of texts and of backup names.    *)
(*                                                                         *)
(* Each property has an invariant of its own: what an unmodified editor    *)
(* shows needs nothing but the flags, the backups need the types, and what *)
(* the watcher misses needs to know that the watch is off while a load or  *)
(* a save is under way and on, with nothing missed, after it.              *)
(***************************************************************************)
EXTENDS EditorFile, TLAPS

-----------------------------------------------------------------------------
(* Type correctness, in three parts: the data, the flags and what the      *)
(* settings hold.  The solver is at ease with one part at a time.          *)

\* An editor has drawn a name for its backup, and a text being loaded counts as
\* not loaded.
Data == /\ DataOK
        /\ On => uid \in Uids
        /\ phase = "loading" => ~loaded

States == session \in TabState \cup {NoTab} /\ saved \in TabState

\* Texts, phases and names stay what they are.
LEMMA DataStep ==
    ASSUME Data, States, [Next]_vars
    PROVE  Data'
  <1> USE FileAssumption DEF States
  <1>1. CASE OpenTab
    BY <1>1 DEF OpenTab, LocalsGone, NewEditor, Data, DataOK, On, TabState, NewTab
  <1>2. CASE TabSelected
    BY <1>2 DEF TabSelected, diskVars, textVars, tabVars, busyVars, watchVars, Data,
         DataOK, On, TabState, NewTab
  <1>3. CASE TabDeselected
    BY <1>3 DEF TabDeselected, diskVars, textVars, tabVars, busyVars, watchVars,
         Data, DataOK, On, TabState, NewTab
  <1>4. CASE LoadingTimer
    BY <1>4 DEF LoadingTimer, BeginLoad, diskVars, textVars, Data, DataOK, On,
         TabState, NewTab
  <1>5. CASE NavigateTo
    BY <1>5 DEF NavigateTo, BeginLoad, diskVars, textVars, timerVars, Data, DataOK,
         On, TabState, NewTab
  <1>6. CASE AskReload
    BY <1>6 DEF AskReload, Reload, BeginLoad, diskVars, textVars, timerVars, Data,
         DataOK, On, TabState, NewTab
  <1>7. CASE FinishLoad
    BY <1>7 DEF FinishLoad, LocalsGone, Contents, diskVars, textVars, busyVars,
         timerVars, Data, DataOK, On, TabState, NewTab
  <1>8. ASSUME NEW t \in Texts, Type(t) PROVE Data'
    BY <1>8 DEF Type, diskVars, tabVars, busyVars, watchVars, Data, DataOK, On,
         TabState, NewTab
  <1>9. ASSUME NEW t \in Texts, FormatterReturns(t) PROVE Data'
    BY <1>9 DEF FormatterReturns, LocalsGone, OpenForWriting, tabVars, watchVars,
         Data, DataOK, On, TabState, NewTab
  <1>10. ASSUME NEW t \in Texts, WriteOutside(t) PROVE Data'
    BY <1>10 DEF WriteOutside, textVars, tabVars, busyVars, timerVars, Data, DataOK,
         On, TabState, NewTab
  <1>11. ASSUME NEW t \in Contents, ReplaceOutside(t) PROVE Data'
    BY <1>11 DEF ReplaceOutside, Contents, textVars, tabVars, busyVars, timerVars,
         Data, DataOK, On, TabState, NewTab
  <1>12. CASE Undo
    BY <1>12 DEF Undo, diskVars, tabVars, busyVars, watchVars, Data, DataOK, On,
         TabState, NewTab
  <1>13. CASE AutoSave
    BY <1>13 DEF AutoSave, SaveBackup, textVars, tabVars, busyVars, watchVars, Data,
         DataOK, On, TabState, NewTab
  <1>14. ASSUME NEW format \in BOOLEAN, Save(format) PROVE Data'
    BY <1>14 DEF Save, BeginSave, textVars, tabVars, timerVars, Data, DataOK, On,
         TabState, NewTab
  <1>15. ASSUME NEW format \in BOOLEAN, SaveClientContent(format) PROVE Data'
    BY <1>15 DEF SaveClientContent, BeginSave, DeleteBackup, textVars, tabVars,
         busyVars, watchVars, timerVars, Data, DataOK, On, TabState, NewTab
  <1>16. CASE FinishSave
    BY <1>16 DEF FinishSave, LocalsGone, Contents, NoEditor, tabVars, busyVars,
         Data, DataOK, On, TabState, NewTab
  <1>17. CASE CloseTab
    BY <1>17 DEF CloseTab, LocalsGone, Close, NoEditor, BeginSave, SaveBackup,
         DeleteBackup, textVars, tabVars, timerVars, Data, DataOK, On, TabState,
         NewTab
  <1>18. CASE RunScript
    BY <1>18 DEF RunScript, SaveBackup, DeleteBackup, textVars, tabVars, busyVars,
         watchVars, timerVars, Data, DataOK, On, TabState, NewTab
  <1>19. CASE Quit
    BY <1>19 DEF Quit, LocalsGone, NoEditor, State, SaveBackup, DeleteBackup, Data,
         DataOK, On, TabState, NewTab
  <1>20. CASE SaveSettings
    BY <1>20 DEF SaveSettings, State, textVars, tabVars, busyVars, watchVars,
         timerVars, Data, DataOK, On, TabState, NewTab
  <1>21. CASE Crash
    BY <1>21 DEF Crash, LocalsGone, Contents, NoEditor, diskVars, Data, DataOK, On,
         TabState, NewTab
  <1>22. CASE Start
    BY <1>22 DEF Start, LocalsGone, NewEditor, textVars, tabVars, busyVars,
         watchVars, timerVars, Data, DataOK, On, TabState, NewTab
  <1>23. CASE ChangeMode
    BY <1>23 DEF ChangeMode, textVars, tabVars, busyVars, watchVars, timerVars,
         Data, DataOK, On, TabState, NewTab
  <1>24. CASE FileChanged
    BY <1>24 DEF FileChanged, diskVars, textVars, tabVars, busyVars, timerVars,
         Data, DataOK, On, TabState, NewTab
  <1>25. CASE FileChangedTimer
    BY <1>25 DEF FileChangedTimer, Reload, BeginLoad, diskVars, textVars, tabVars,
         busyVars, timerVars, Data, DataOK, On, TabState, NewTab
  <1>26. CASE UNCHANGED vars
    BY <1>26 DEF vars, diskVars, textVars, tabVars, busyVars, watchVars, timerVars,
         Data, DataOK, On, TabState, NewTab
  <1> QED
    BY <1>1, <1>2, <1>3, <1>4, <1>5, <1>6, <1>7, <1>8, <1>9, <1>10, <1>11, <1>12, <1>13, 
       <1>14, <1>15, <1>16, <1>17, <1>18, <1>19, <1>20, <1>21, <1>22, <1>23, <1>24, <1>25, <1>26 DEF Next

\* Flags stay flags.
LEMMA FlagsStep ==
    ASSUME FlagsOK, WatchOK, States, [Next]_vars
    PROVE  FlagsOK'
  <1>1. CASE OpenTab
    BY <1>1 DEF OpenTab, LocalsGone, NewEditor, FlagsOK, WatchOK
  <1>2. CASE TabSelected
    BY <1>2 DEF TabSelected, diskVars, textVars, tabVars, busyVars, watchVars,
         FlagsOK, WatchOK
  <1>3. CASE TabDeselected
    BY <1>3 DEF TabDeselected, diskVars, textVars, tabVars, busyVars, watchVars,
         FlagsOK, WatchOK
  <1>4. CASE LoadingTimer
    BY <1>4 DEF LoadingTimer, BeginLoad, diskVars, textVars, FlagsOK, WatchOK
  <1>5. CASE NavigateTo
    BY <1>5 DEF NavigateTo, BeginLoad, diskVars, textVars, timerVars, FlagsOK,
         WatchOK
  <1>6. CASE AskReload
    BY <1>6 DEF AskReload, Reload, BeginLoad, diskVars, textVars, timerVars,
         FlagsOK, WatchOK
  <1>7. CASE FinishLoad
    <2>1. saved.readOnly \in BOOLEAN
      BY DEF States, TabState
    <2>2. readOnly' \in BOOLEAN
      BY <1>7, <2>1, Zenon DEF FinishLoad, FlagsOK
    <2>3. modified' \in BOOLEAN /\ loaded' \in BOOLEAN
      BY <1>7, Zenon DEF FinishLoad, FlagsOK, textVars
    <2> QED
      BY <1>7, <2>2, <2>3, Zenon DEF FinishLoad, LocalsGone, FlagsOK, timerVars
  <1>8. ASSUME NEW t \in Texts, Type(t) PROVE FlagsOK'
    BY <1>8 DEF Type, diskVars, tabVars, busyVars, watchVars, FlagsOK, WatchOK
  <1>9. ASSUME NEW t \in Texts, FormatterReturns(t) PROVE FlagsOK'
    BY <1>9 DEF FormatterReturns, LocalsGone, OpenForWriting, tabVars, watchVars,
         FlagsOK, WatchOK
  <1>10. ASSUME NEW t \in Texts, WriteOutside(t) PROVE FlagsOK'
    BY <1>10 DEF WriteOutside, textVars, tabVars, busyVars, timerVars, FlagsOK,
         WatchOK
  <1>11. ASSUME NEW t \in Contents, ReplaceOutside(t) PROVE FlagsOK'
    BY <1>11 DEF ReplaceOutside, textVars, tabVars, busyVars, timerVars, FlagsOK,
         WatchOK
  <1>12. CASE Undo
    BY <1>12 DEF Undo, diskVars, tabVars, busyVars, watchVars, FlagsOK, WatchOK
  <1>13. CASE AutoSave
    BY <1>13 DEF AutoSave, textVars, tabVars, busyVars, watchVars, FlagsOK, WatchOK
  <1>14. ASSUME NEW format \in BOOLEAN, Save(format) PROVE FlagsOK'
    BY <1>14 DEF Save, BeginSave, textVars, tabVars, timerVars, FlagsOK, WatchOK
  <1>15. ASSUME NEW format \in BOOLEAN, SaveClientContent(format) PROVE FlagsOK'
    BY <1>15 DEF SaveClientContent, BeginSave, textVars, tabVars, busyVars,
         watchVars, timerVars, FlagsOK, WatchOK
  <1>16. CASE FinishSave
    BY <1>16 DEF FinishSave, LocalsGone, NoEditor, tabVars, busyVars, FlagsOK,
         WatchOK
  <1>17. CASE CloseTab
    BY <1>17 DEF CloseTab, LocalsGone, Close, NoEditor, BeginSave, textVars,
         tabVars, timerVars, FlagsOK, WatchOK
  <1>18. CASE RunScript
    BY <1>18 DEF RunScript, textVars, tabVars, busyVars, watchVars, timerVars,
         FlagsOK, WatchOK
  <1>19. CASE Quit
    BY <1>19 DEF Quit, LocalsGone, NoEditor, FlagsOK, WatchOK
  <1>20. CASE SaveSettings
    BY <1>20 DEF SaveSettings, textVars, tabVars, busyVars, watchVars, timerVars,
         FlagsOK, WatchOK
  <1>21. CASE Crash
    BY <1>21 DEF Crash, LocalsGone, NoEditor, diskVars, FlagsOK, WatchOK
  <1>22. CASE Start
    BY <1>22 DEF Start, LocalsGone, NewEditor, textVars, tabVars, busyVars,
         watchVars, timerVars, FlagsOK, WatchOK
  <1>23. CASE ChangeMode
    BY <1>23 DEF ChangeMode, textVars, tabVars, busyVars, watchVars, timerVars,
         FlagsOK, WatchOK
  <1>24. CASE FileChanged
    BY <1>24 DEF FileChanged, diskVars, textVars, tabVars, busyVars, timerVars,
         FlagsOK, WatchOK
  <1>25. CASE FileChangedTimer
    BY <1>25 DEF FileChangedTimer, Reload, BeginLoad, diskVars, textVars, tabVars,
         busyVars, timerVars, FlagsOK, WatchOK
  <1>26. CASE UNCHANGED vars
    BY <1>26 DEF vars, diskVars, textVars, tabVars, busyVars, watchVars, timerVars,
         FlagsOK, WatchOK
  <1> QED
    BY <1>1, <1>2, <1>3, <1>4, <1>5, <1>6, <1>7, <1>8, <1>9, <1>10, <1>11, <1>12, <1>13, 
       <1>14, <1>15, <1>16, <1>17, <1>18, <1>19, <1>20, <1>21, <1>22, <1>23, <1>24, <1>25, <1>26 DEF Next

\* So do those of the watch.
LEMMA WatchFlagsStep ==
    ASSUME FlagsOK, WatchOK, [Next]_vars
    PROVE  WatchOK'
  <1>1. CASE OpenTab
    BY <1>1 DEF OpenTab, LocalsGone, NewEditor, FlagsOK, WatchOK
  <1>2. CASE TabSelected
    BY <1>2 DEF TabSelected, diskVars, textVars, tabVars, busyVars, watchVars,
         FlagsOK, WatchOK
  <1>3. CASE TabDeselected
    BY <1>3 DEF TabDeselected, diskVars, textVars, tabVars, busyVars, watchVars,
         FlagsOK, WatchOK
  <1>4. CASE LoadingTimer
    BY <1>4 DEF LoadingTimer, BeginLoad, diskVars, textVars, FlagsOK, WatchOK
  <1>5. CASE NavigateTo
    BY <1>5 DEF NavigateTo, BeginLoad, diskVars, textVars, timerVars, FlagsOK,
         WatchOK
  <1>6. CASE AskReload
    BY <1>6 DEF AskReload, Reload, BeginLoad, diskVars, textVars, timerVars,
         FlagsOK, WatchOK
  <1>7. CASE FinishLoad
    BY <1>7 DEF FinishLoad, LocalsGone, diskVars, textVars, busyVars, timerVars,
         FlagsOK, WatchOK
  <1>8. ASSUME NEW t \in Texts, Type(t) PROVE WatchOK'
    BY <1>8 DEF Type, diskVars, tabVars, busyVars, watchVars, FlagsOK, WatchOK
  <1>9. ASSUME NEW t \in Texts, FormatterReturns(t) PROVE WatchOK'
    BY <1>9 DEF FormatterReturns, LocalsGone, OpenForWriting, tabVars, watchVars,
         FlagsOK, WatchOK
  <1>10. ASSUME NEW t \in Texts, WriteOutside(t) PROVE WatchOK'
    BY <1>10 DEF WriteOutside, textVars, tabVars, busyVars, timerVars, FlagsOK,
         WatchOK
  <1>11. ASSUME NEW t \in Contents, ReplaceOutside(t) PROVE WatchOK'
    BY <1>11 DEF ReplaceOutside, textVars, tabVars, busyVars, timerVars, FlagsOK,
         WatchOK
  <1>12. CASE Undo
    BY <1>12 DEF Undo, diskVars, tabVars, busyVars, watchVars, FlagsOK, WatchOK
  <1>13. CASE AutoSave
    BY <1>13 DEF AutoSave, textVars, tabVars, busyVars, watchVars, FlagsOK, WatchOK
  <1>14. ASSUME NEW format \in BOOLEAN, Save(format) PROVE WatchOK'
    BY <1>14 DEF Save, BeginSave, textVars, tabVars, timerVars, FlagsOK, WatchOK
  <1>15. ASSUME NEW format \in BOOLEAN, SaveClientContent(format) PROVE WatchOK'
    BY <1>15 DEF SaveClientContent, BeginSave, textVars, tabVars, busyVars,
         watchVars, timerVars, FlagsOK, WatchOK
  <1>16. CASE FinishSave
    BY <1>16 DEF FinishSave, LocalsGone, NoEditor, tabVars, busyVars, FlagsOK,
         WatchOK
  <1>17. CASE CloseTab
    BY <1>17 DEF CloseTab, LocalsGone, Close, NoEditor, BeginSave, textVars,
         tabVars, timerVars, FlagsOK, WatchOK
  <1>18. CASE RunScript
    BY <1>18 DEF RunScript, textVars, tabVars, busyVars, watchVars, timerVars,
         FlagsOK, WatchOK
  <1>19. CASE Quit
    BY <1>19 DEF Quit, LocalsGone, NoEditor, FlagsOK, WatchOK
  <1>20. CASE SaveSettings
    BY <1>20 DEF SaveSettings, textVars, tabVars, busyVars, watchVars, timerVars,
         FlagsOK, WatchOK
  <1>21. CASE Crash
    BY <1>21 DEF Crash, LocalsGone, NoEditor, diskVars, FlagsOK, WatchOK
  <1>22. CASE Start
    BY <1>22 DEF Start, LocalsGone, NewEditor, textVars, tabVars, busyVars,
         watchVars, timerVars, FlagsOK, WatchOK
  <1>23. CASE ChangeMode
    BY <1>23 DEF ChangeMode, textVars, tabVars, busyVars, watchVars, timerVars,
         FlagsOK, WatchOK
  <1>24. CASE FileChanged
    BY <1>24 DEF FileChanged, diskVars, textVars, tabVars, busyVars, timerVars,
         FlagsOK, WatchOK
  <1>25. CASE FileChangedTimer
    BY <1>25 DEF FileChangedTimer, Reload, BeginLoad, diskVars, textVars, tabVars,
         busyVars, timerVars, FlagsOK, WatchOK
  <1>26. CASE UNCHANGED vars
    BY <1>26 DEF vars, diskVars, textVars, tabVars, busyVars, watchVars, timerVars,
         FlagsOK, WatchOK
  <1> QED
    BY <1>1, <1>2, <1>3, <1>4, <1>5, <1>6, <1>7, <1>8, <1>9, <1>10, <1>11, <1>12, <1>13, 
       <1>14, <1>15, <1>16, <1>17, <1>18, <1>19, <1>20, <1>21, <1>22, <1>23, <1>24, <1>25, <1>26 DEF Next

\* The settings and an editor's saved state hold states of tabs.
LEMMA StatesStep ==
    ASSUME FlagsOK, Data, States, [Next]_vars
    PROVE  States'
  <1> USE FileAssumption DEF Data
  <1>1. CASE OpenTab
    BY <1>1 DEF OpenTab, LocalsGone, NewEditor, States, FlagsOK, DataOK, TabState,
         NewTab, On
  <1>2. CASE TabSelected
    BY <1>2 DEF TabSelected, diskVars, textVars, tabVars, busyVars, watchVars,
         States, FlagsOK, DataOK, TabState, NewTab, On
  <1>3. CASE TabDeselected
    BY <1>3 DEF TabDeselected, diskVars, textVars, tabVars, busyVars, watchVars,
         States, FlagsOK, DataOK, TabState, NewTab, On
  <1>4. CASE LoadingTimer
    BY <1>4 DEF LoadingTimer, BeginLoad, diskVars, textVars, States, FlagsOK,
         DataOK, TabState, NewTab, On
  <1>5. CASE NavigateTo
    BY <1>5 DEF NavigateTo, BeginLoad, diskVars, textVars, timerVars, States,
         FlagsOK, DataOK, TabState, NewTab, On
  <1>6. CASE AskReload
    BY <1>6 DEF AskReload, Reload, BeginLoad, diskVars, textVars, timerVars, States,
         FlagsOK, DataOK, TabState, NewTab, On
  <1>7. CASE FinishLoad
    BY <1>7 DEF FinishLoad, LocalsGone, Contents, diskVars, textVars, busyVars,
         timerVars, States, FlagsOK, DataOK, TabState, NewTab, On
  <1>8. ASSUME NEW t \in Texts, Type(t) PROVE States'
    BY <1>8 DEF Type, diskVars, tabVars, busyVars, watchVars, States, FlagsOK,
         DataOK, TabState, NewTab, On
  <1>9. ASSUME NEW t \in Texts, FormatterReturns(t) PROVE States'
    BY <1>9 DEF FormatterReturns, LocalsGone, OpenForWriting, tabVars, watchVars,
         States, FlagsOK, DataOK, TabState, NewTab, On
  <1>10. ASSUME NEW t \in Texts, WriteOutside(t) PROVE States'
    BY <1>10 DEF WriteOutside, textVars, tabVars, busyVars, timerVars, States,
         FlagsOK, DataOK, TabState, NewTab, On
  <1>11. ASSUME NEW t \in Contents, ReplaceOutside(t) PROVE States'
    BY <1>11 DEF ReplaceOutside, Contents, textVars, tabVars, busyVars, timerVars,
         States, FlagsOK, DataOK, TabState, NewTab, On
  <1>12. CASE Undo
    BY <1>12 DEF Undo, diskVars, tabVars, busyVars, watchVars, States, FlagsOK,
         DataOK, TabState, NewTab, On
  <1>13. CASE AutoSave
    BY <1>13 DEF AutoSave, SaveBackup, textVars, tabVars, busyVars, watchVars,
         States, FlagsOK, DataOK, TabState, NewTab, On
  <1>14. ASSUME NEW format \in BOOLEAN, Save(format) PROVE States'
    BY <1>14 DEF Save, BeginSave, textVars, tabVars, timerVars, States, FlagsOK,
         DataOK, TabState, NewTab, On
  <1>15. ASSUME NEW format \in BOOLEAN, SaveClientContent(format) PROVE States'
    BY <1>15 DEF SaveClientContent, BeginSave, DeleteBackup, textVars, tabVars,
         busyVars, watchVars, timerVars, States, FlagsOK, DataOK, TabState, NewTab,
         On
  <1>16. CASE FinishSave
    <2>1. CASE closing
      <3>1. saved' = NewTab /\ session' = session
        BY <1>16, <2>1, Zenon DEF FinishSave, LocalsGone, Contents, NoEditor
      <3>2. NewTab \in TabState
        BY DEF NewTab, TabState
      <3> QED
        BY <3>1, <3>2 DEF States
    <2>2. CASE ~closing
      BY <1>16, <2>2 DEF FinishSave, LocalsGone, Contents, tabVars, States
    <2> QED
      BY <2>1, <2>2
  <1>17. CASE CloseTab
    <2>1. ASSUME NEW bak, Close(bak) PROVE States'
      BY <2>1 DEF Close, LocalsGone, NoEditor, States, TabState, NewTab
    <2>2. ASSUME NEW format, BeginSave(format, backups, TRUE) PROVE States'
      BY <2>2 DEF BeginSave, tabVars, States
    <2> QED
      BY <1>17, <2>1, <2>2 DEF CloseTab
  <1>18. CASE RunScript
    BY <1>18 DEF RunScript, SaveBackup, DeleteBackup, textVars, tabVars, busyVars,
         watchVars, timerVars, States, FlagsOK, DataOK, TabState, NewTab, On
  <1>19. CASE Quit
    BY <1>19 DEF Quit, LocalsGone, NoEditor, State, SaveBackup, DeleteBackup,
         States, FlagsOK, DataOK, TabState, NewTab, On
  <1>20. CASE SaveSettings
    BY <1>20 DEF SaveSettings, State, textVars, tabVars, busyVars, watchVars,
         timerVars, States, FlagsOK, DataOK, TabState, NewTab, On
  <1>21. CASE Crash
    BY <1>21 DEF Crash, LocalsGone, Contents, NoEditor, diskVars, States, FlagsOK,
         DataOK, TabState, NewTab, On
  <1>22. CASE Start
    BY <1>22 DEF Start, LocalsGone, NewEditor, textVars, tabVars, busyVars,
         watchVars, timerVars, States, FlagsOK, DataOK, TabState, NewTab, On
  <1>23. CASE ChangeMode
    BY <1>23 DEF ChangeMode, textVars, tabVars, busyVars, watchVars, timerVars,
         States, FlagsOK, DataOK, TabState, NewTab, On
  <1>24. CASE FileChanged
    BY <1>24 DEF FileChanged, diskVars, textVars, tabVars, busyVars, timerVars,
         States, FlagsOK, DataOK, TabState, NewTab, On
  <1>25. CASE FileChangedTimer
    BY <1>25 DEF FileChangedTimer, Reload, BeginLoad, diskVars, textVars, tabVars,
         busyVars, timerVars, States, FlagsOK, DataOK, TabState, NewTab, On
  <1>26. CASE UNCHANGED vars
    BY <1>26 DEF vars, diskVars, textVars, tabVars, busyVars, watchVars, timerVars,
         States, FlagsOK, DataOK, TabState, NewTab, On
  <1> QED
    BY <1>1, <1>2, <1>3, <1>4, <1>5, <1>6, <1>7, <1>8, <1>9, <1>10, <1>11, <1>12, <1>13, 
       <1>14, <1>15, <1>16, <1>17, <1>18, <1>19, <1>20, <1>21, <1>22, <1>23, <1>24, <1>25, <1>26 DEF Next

Types == Data /\ FlagsOK /\ WatchOK /\ States

\* The types hold at the start and are kept together.
LEMMA TypesInvariant == Spec => []Types
  <1>1. Init => Types
    <2> SUFFICES ASSUME Init PROVE Types
      OBVIOUS
    <2>1. Data
      BY FileAssumption DEF Init, Data, DataOK, On
    <2>2. FlagsOK
      BY Zenon DEF Init, FlagsOK
    <2>3. WatchOK
      BY Zenon DEF Init, WatchOK
    <2>4. States
      BY DEF Init, States, TabState, NewTab
    <2> QED
      BY <2>1, <2>2, <2>3, <2>4 DEF Types
  <1>2. Types /\ [Next]_vars => Types'
    BY DataStep, FlagsStep, WatchFlagsStep, StatesStep DEF Types
  <1> QED
    BY <1>1, <1>2, PTL DEF Spec

\* All variables keep their types, whatever the session does to the file.
THEOREM Typing == Spec => []TypeOK
  <1>1. Types => TypeOK
    BY DEF Types, Data, States, TypeOK
  <1> QED
    BY <1>1, TypesInvariant, PTL

-----------------------------------------------------------------------------
(* What an unmodified editor shows.                                        *)

\* The invariant does not wait for the editor to be at rest.
FlagInv == loaded /\ ~modified => buffer = base

\* A step that clears the modified flag also takes the text for the file's.
LEMMA FlagStep ==
    ASSUME FlagInv, [Next]_vars
    PROVE  FlagInv'
  <1>1. CASE OpenTab
    BY <1>1 DEF OpenTab, LocalsGone, NewEditor, FlagInv
  <1>2. CASE TabSelected
    BY <1>2 DEF TabSelected, diskVars, textVars, tabVars, busyVars, watchVars,
         FlagInv
  <1>3. CASE TabDeselected
    BY <1>3 DEF TabDeselected, diskVars, textVars, tabVars, busyVars, watchVars,
         FlagInv
  <1>4. CASE LoadingTimer
    BY <1>4 DEF LoadingTimer, BeginLoad, diskVars, textVars, FlagInv
  <1>5. CASE NavigateTo
    BY <1>5 DEF NavigateTo, BeginLoad, diskVars, textVars, timerVars, FlagInv
  <1>6. CASE AskReload
    BY <1>6 DEF AskReload, Reload, BeginLoad, diskVars, textVars, timerVars, FlagInv
  <1>7. CASE FinishLoad
    <2> DEFINE name == IF useBackup /\ saved.uid # NoUid THEN saved.uid ELSE uid
               back == useBackup /\ saved.uid # NoUid /\ backups[name] # NoText
    <2>1. CASE back
      <3>1. modified' = back
        BY <1>7, <2>1, Zenon DEF FinishLoad, LocalsGone, Contents
      <3> QED
        BY <2>1, <3>1 DEF FlagInv
    <2>2. CASE ~back /\ disk # Missing
      <3>1. buffer' = disk /\ base' = disk
        BY <1>7, <2>2, Zenon DEF FinishLoad, LocalsGone, Contents
      <3> QED
        BY <3>1 DEF FlagInv
    <2>3. CASE ~back /\ disk = Missing
      <3>1. UNCHANGED <<textVars, loaded>>
        BY <1>7, <2>3, Zenon DEF FinishLoad, LocalsGone, Contents
      <3> QED
        BY <3>1 DEF FlagInv, textVars
    <2> QED
      BY <2>1, <2>2, <2>3
  <1>8. ASSUME NEW t \in Texts, Type(t) PROVE FlagInv'
    BY <1>8 DEF Type, diskVars, tabVars, busyVars, watchVars, FlagInv
  <1>9. ASSUME NEW t \in Texts, FormatterReturns(t) PROVE FlagInv'
    BY <1>9 DEF FormatterReturns, LocalsGone, OpenForWriting, tabVars, watchVars,
         FlagInv
  <1>10. ASSUME NEW t \in Texts, WriteOutside(t) PROVE FlagInv'
    BY <1>10 DEF WriteOutside, textVars, tabVars, busyVars, timerVars, FlagInv
  <1>11. ASSUME NEW t \in Contents, ReplaceOutside(t) PROVE FlagInv'
    BY <1>11 DEF ReplaceOutside, Contents, textVars, tabVars, busyVars, timerVars,
         FlagInv
  <1>12. CASE Undo
    BY <1>12 DEF Undo, diskVars, tabVars, busyVars, watchVars, FlagInv
  <1>13. CASE AutoSave
    BY <1>13 DEF AutoSave, SaveBackup, textVars, tabVars, busyVars, watchVars,
         FlagInv
  <1>14. ASSUME NEW format \in BOOLEAN, Save(format) PROVE FlagInv'
    BY <1>14 DEF Save, BeginSave, textVars, tabVars, timerVars, FlagInv
  <1>15. ASSUME NEW format \in BOOLEAN, SaveClientContent(format) PROVE FlagInv'
    BY <1>15 DEF SaveClientContent, BeginSave, DeleteBackup, textVars, tabVars,
         busyVars, watchVars, timerVars, FlagInv
  <1>16. CASE FinishSave
    BY <1>16 DEF FinishSave, LocalsGone, Contents, NoEditor, tabVars, busyVars,
         FlagInv
  <1>17. CASE CloseTab
    BY <1>17 DEF CloseTab, LocalsGone, Close, NoEditor, BeginSave, SaveBackup,
         DeleteBackup, textVars, tabVars, timerVars, FlagInv
  <1>18. CASE RunScript
    BY <1>18 DEF RunScript, SaveBackup, DeleteBackup, textVars, tabVars, busyVars,
         watchVars, timerVars, FlagInv
  <1>19. CASE Quit
    BY <1>19 DEF Quit, LocalsGone, NoEditor, State, SaveBackup, DeleteBackup,
         FlagInv
  <1>20. CASE SaveSettings
    BY <1>20 DEF SaveSettings, State, textVars, tabVars, busyVars, watchVars,
         timerVars, FlagInv
  <1>21. CASE Crash
    BY <1>21 DEF Crash, LocalsGone, Contents, NoEditor, diskVars, FlagInv
  <1>22. CASE Start
    BY <1>22 DEF Start, LocalsGone, NewEditor, textVars, tabVars, busyVars,
         watchVars, timerVars, FlagInv
  <1>23. CASE ChangeMode
    BY <1>23 DEF ChangeMode, textVars, tabVars, busyVars, watchVars, timerVars,
         FlagInv
  <1>24. CASE FileChanged
    BY <1>24 DEF FileChanged, diskVars, textVars, tabVars, busyVars, timerVars,
         FlagInv
  <1>25. CASE FileChangedTimer
    BY <1>25 DEF FileChangedTimer, Reload, BeginLoad, diskVars, textVars, tabVars,
         busyVars, timerVars, FlagInv
  <1>26. CASE UNCHANGED vars
    BY <1>26 DEF vars, diskVars, textVars, tabVars, busyVars, watchVars, timerVars,
         FlagInv
  <1> QED
    BY <1>1, <1>2, <1>3, <1>4, <1>5, <1>6, <1>7, <1>8, <1>9, <1>10, <1>11, <1>12, <1>13, 
       <1>14, <1>15, <1>16, <1>17, <1>18, <1>19, <1>20, <1>21, <1>22, <1>23, <1>24, <1>25, <1>26 DEF Next

\* An unmodified editor shows what it last read or wrote: the flag of a text
\* typed during a load, a format or a save is not lost.
THEOREM FlagSafety == Spec => []UnmodifiedIsTheFile
  <1>1. Init => FlagInv
    BY DEF Init, FlagInv
  <1>2. FlagInv /\ [Next]_vars => FlagInv'
    BY FlagStep
  <1>3. FlagInv => UnmodifiedIsTheFile
    BY DEF FlagInv, UnmodifiedIsTheFile
  <1> QED
    BY <1>1, <1>2, <1>3, PTL DEF Spec

\* What FormattingKeepsEdits says of one step.
FormattingKept ==
    phase = "formatting" /\ phase' # "formatting" /\ phase' # "off" /\ buffer # input
        => buffer' = buffer

\* Only the formatter's return ends the waiting, and it looks at the text first.
LEMMA FormattingStep ==
    ASSUME [Next]_vars
    PROVE  FormattingKept
  <1>1. CASE OpenTab
    BY <1>1 DEF OpenTab, LocalsGone, NewEditor, FormattingKept, On
  <1>2. CASE TabSelected
    BY <1>2 DEF TabSelected, diskVars, textVars, tabVars, busyVars, watchVars,
         FormattingKept, On
  <1>3. CASE TabDeselected
    BY <1>3 DEF TabDeselected, diskVars, textVars, tabVars, busyVars, watchVars,
         FormattingKept, On
  <1>4. CASE LoadingTimer
    BY <1>4 DEF LoadingTimer, BeginLoad, diskVars, textVars, FormattingKept, On
  <1>5. CASE NavigateTo
    BY <1>5 DEF NavigateTo, BeginLoad, diskVars, textVars, timerVars,
         FormattingKept, On
  <1>6. CASE AskReload
    BY <1>6 DEF AskReload, Reload, BeginLoad, diskVars, textVars, timerVars,
         FormattingKept, On
  <1>7. CASE FinishLoad
    BY <1>7 DEF FinishLoad, LocalsGone, Contents, diskVars, textVars, busyVars,
         timerVars, FormattingKept, On
  <1>8. ASSUME NEW t \in Texts, Type(t) PROVE FormattingKept
    BY <1>8 DEF Type, diskVars, tabVars, busyVars, watchVars, FormattingKept, On
  <1>9. ASSUME NEW t \in Texts, FormatterReturns(t) PROVE FormattingKept
    BY <1>9 DEF FormatterReturns, LocalsGone, OpenForWriting, tabVars, watchVars,
         FormattingKept, On
  <1>10. ASSUME NEW t \in Texts, WriteOutside(t) PROVE FormattingKept
    BY <1>10 DEF WriteOutside, textVars, tabVars, busyVars, timerVars,
         FormattingKept, On
  <1>11. ASSUME NEW t \in Contents, ReplaceOutside(t) PROVE FormattingKept
    BY <1>11 DEF ReplaceOutside, Contents, textVars, tabVars, busyVars, timerVars,
         FormattingKept, On
  <1>12. CASE Undo
    BY <1>12 DEF Undo, diskVars, tabVars, busyVars, watchVars, FormattingKept, On
  <1>13. CASE AutoSave
    BY <1>13 DEF AutoSave, SaveBackup, textVars, tabVars, busyVars, watchVars,
         FormattingKept, On
  <1>14. ASSUME NEW format \in BOOLEAN, Save(format) PROVE FormattingKept
    BY <1>14 DEF Save, BeginSave, textVars, tabVars, timerVars, FormattingKept, On
  <1>15. ASSUME NEW format \in BOOLEAN, SaveClientContent(format) PROVE FormattingKept
    BY <1>15 DEF SaveClientContent, BeginSave, DeleteBackup, textVars, tabVars,
         busyVars, watchVars, timerVars, FormattingKept, On
  <1>16. CASE FinishSave
    BY <1>16 DEF FinishSave, LocalsGone, Contents, NoEditor, tabVars, busyVars,
         FormattingKept, On
  <1>17. CASE CloseTab
    BY <1>17 DEF CloseTab, LocalsGone, Close, NoEditor, BeginSave, SaveBackup,
         DeleteBackup, textVars, tabVars, timerVars, FormattingKept, On
  <1>18. CASE RunScript
    BY <1>18 DEF RunScript, SaveBackup, DeleteBackup, textVars, tabVars, busyVars,
         watchVars, timerVars, FormattingKept, On
  <1>19. CASE Quit
    BY <1>19 DEF Quit, LocalsGone, NoEditor, State, SaveBackup, DeleteBackup,
         FormattingKept, On
  <1>20. CASE SaveSettings
    BY <1>20 DEF SaveSettings, State, textVars, tabVars, busyVars, watchVars,
         timerVars, FormattingKept, On
  <1>21. CASE Crash
    BY <1>21 DEF Crash, LocalsGone, Contents, NoEditor, diskVars, FormattingKept, On
  <1>22. CASE Start
    BY <1>22 DEF Start, LocalsGone, NewEditor, textVars, tabVars, busyVars,
         watchVars, timerVars, FormattingKept, On
  <1>23. CASE ChangeMode
    BY <1>23 DEF ChangeMode, textVars, tabVars, busyVars, watchVars, timerVars,
         FormattingKept, On
  <1>24. CASE FileChanged
    BY <1>24 DEF FileChanged, diskVars, textVars, tabVars, busyVars, timerVars,
         FormattingKept, On
  <1>25. CASE FileChangedTimer
    BY <1>25 DEF FileChangedTimer, Reload, BeginLoad, diskVars, textVars, tabVars,
         busyVars, timerVars, FormattingKept, On
  <1>26. CASE UNCHANGED vars
    BY <1>26 DEF vars, diskVars, textVars, tabVars, busyVars, watchVars, timerVars,
         FormattingKept, On
  <1> QED
    BY <1>1, <1>2, <1>3, <1>4, <1>5, <1>6, <1>7, <1>8, <1>9, <1>10, <1>11, <1>12, <1>13, 
       <1>14, <1>15, <1>16, <1>17, <1>18, <1>19, <1>20, <1>21, <1>22, <1>23, <1>24, <1>25, <1>26 DEF Next

\* The formatter's answer replaces the text it was asked about and no other.
THEOREM FormattingSafety == Spec => FormattingKeepsEdits
  <1>1. [Next]_vars => FormattingKept
    BY FormattingStep
  <1> QED
    BY <1>1, PTL DEF Spec, FormattingKeepsEdits, FormattingKept

-----------------------------------------------------------------------------
(* What the watcher reports.                                               *)

\* The watch is off while a load or a save is under way.  At rest, with the
\* watch on, a file that was read or written and is not about to be looked at
\* is watched and unchanged, or changed while the watch was off.
WatchInv ==
    /\ phase \in {"loading", "formatting", "saving"} => ~lookup
    /\ (phase = "idle" /\ loaded /\ lookup /\ base # NoText)
          => \/ notified \/ changed \/ banner \/ slipped
             \/ watching /\ disk = base

\* No step loses sight of the file.
LEMMA WatchStep ==
    ASSUME Data, WatchInv, [Next]_vars
    PROVE  WatchInv'
  <1> USE FileAssumption
  <1>1. CASE OpenTab
    BY <1>1 DEF OpenTab, LocalsGone, NewEditor, WatchInv, On
  <1>2. CASE TabSelected
    BY <1>2 DEF TabSelected, diskVars, textVars, tabVars, busyVars, watchVars,
         WatchInv, On
  <1>3. CASE TabDeselected
    BY <1>3 DEF TabDeselected, diskVars, textVars, tabVars, busyVars, watchVars,
         WatchInv, On
  <1>4. CASE LoadingTimer
    BY <1>4 DEF LoadingTimer, BeginLoad, diskVars, textVars, WatchInv, On
  <1>5. CASE NavigateTo
    BY <1>5 DEF NavigateTo, BeginLoad, diskVars, textVars, timerVars, WatchInv, On
  <1>6. CASE AskReload
    BY <1>6 DEF AskReload, Reload, BeginLoad, diskVars, textVars, timerVars,
         WatchInv, On
  <1>7. CASE FinishLoad
    BY <1>7 DEF FinishLoad, LocalsGone, Contents, diskVars, textVars, busyVars,
         timerVars, WatchInv, On
  <1>8. ASSUME NEW t \in Texts, Type(t) PROVE WatchInv'
    BY <1>8 DEF Type, diskVars, tabVars, busyVars, watchVars, WatchInv, On
  <1>9. ASSUME NEW t \in Texts, FormatterReturns(t) PROVE WatchInv'
    BY <1>9 DEF FormatterReturns, LocalsGone, OpenForWriting, tabVars, watchVars,
         WatchInv, On
  <1>10. ASSUME NEW t \in Texts, WriteOutside(t) PROVE WatchInv'
    BY <1>10 DEF WriteOutside, textVars, tabVars, busyVars, timerVars, WatchInv, On
  <1>11. ASSUME NEW t \in Contents, ReplaceOutside(t) PROVE WatchInv'
    BY <1>11 DEF ReplaceOutside, Contents, textVars, tabVars, busyVars, timerVars,
         WatchInv, On
  <1>12. CASE Undo
    BY <1>12 DEF Undo, diskVars, tabVars, busyVars, watchVars, WatchInv, On
  <1>13. CASE AutoSave
    BY <1>13 DEF AutoSave, SaveBackup, textVars, tabVars, busyVars, watchVars,
         WatchInv, On
  <1>14. ASSUME NEW format \in BOOLEAN, Save(format) PROVE WatchInv'
    BY <1>14 DEF Save, BeginSave, textVars, tabVars, timerVars, WatchInv, On
  <1>15. ASSUME NEW format \in BOOLEAN, SaveClientContent(format) PROVE WatchInv'
    <2>1. CASE BeginSave(format, DeleteBackup, FALSE)
      BY <2>1 DEF BeginSave, WatchInv
    <2>2. CASE phase = "idle" /\ UNCHANGED <<disk, phase, textVars, tabVars, watchVars>>
      BY <2>2 DEF WatchInv, textVars, tabVars, watchVars
    <2> QED
      BY <1>15, <2>1, <2>2, Zenon DEF SaveClientContent
  <1>16. CASE FinishSave
    <2>1. CASE closing
      BY <1>16, <2>1 DEF FinishSave, NoEditor, WatchInv
    <2>2. CASE ~closing
      <3>1. /\ phase' = "idle" /\ base' = Tidy[buffer]
            /\ watching' = (disk' # Missing) /\ slipped' = (disk' # Tidy[buffer])
        BY <1>16, <2>2, Zenon DEF FinishSave
      <3>2. Tidy[buffer] # Missing
        BY FileAssumption DEF Data, DataOK
      <3> QED
        BY <3>1, <3>2 DEF WatchInv
    <2> QED
      BY <2>1, <2>2
  <1>17. CASE CloseTab
    BY <1>17 DEF CloseTab, LocalsGone, Close, NoEditor, BeginSave, SaveBackup,
         DeleteBackup, textVars, tabVars, timerVars, WatchInv, On
  <1>18. CASE RunScript
    BY <1>18 DEF RunScript, SaveBackup, DeleteBackup, textVars, tabVars, busyVars,
         watchVars, timerVars, WatchInv, On
  <1>19. CASE Quit
    BY <1>19 DEF Quit, LocalsGone, NoEditor, State, SaveBackup, DeleteBackup,
         WatchInv, On
  <1>20. CASE SaveSettings
    BY <1>20 DEF SaveSettings, State, textVars, tabVars, busyVars, watchVars,
         timerVars, WatchInv, On
  <1>21. CASE Crash
    BY <1>21 DEF Crash, LocalsGone, Contents, NoEditor, diskVars, WatchInv, On
  <1>22. CASE Start
    BY <1>22 DEF Start, LocalsGone, NewEditor, textVars, tabVars, busyVars,
         watchVars, timerVars, WatchInv, On
  <1>23. CASE ChangeMode
    BY <1>23 DEF ChangeMode, textVars, tabVars, busyVars, watchVars, timerVars,
         WatchInv, On
  <1>24. CASE FileChanged
    BY <1>24 DEF FileChanged, diskVars, textVars, tabVars, busyVars, timerVars,
         WatchInv, On
  <1>25. CASE FileChangedTimer
    BY <1>25 DEF FileChangedTimer, Reload, BeginLoad, diskVars, textVars, tabVars,
         busyVars, timerVars, WatchInv, On
  <1>26. CASE UNCHANGED vars
    BY <1>26 DEF vars, diskVars, textVars, tabVars, busyVars, watchVars, timerVars,
         WatchInv, On
  <1> QED
    BY <1>1, <1>2, <1>3, <1>4, <1>5, <1>6, <1>7, <1>8, <1>9, <1>10, <1>11, <1>12, <1>13, 
       <1>14, <1>15, <1>16, <1>17, <1>18, <1>19, <1>20, <1>21, <1>22, <1>23, <1>24, <1>25, <1>26 DEF Next

\* The watch is kept over a session.
LEMMA WatchInvariant == Spec => []WatchInv
  <1>1. Init => WatchInv
    BY DEF Init, WatchInv
  <1>2. Types /\ WatchInv /\ [Next]_vars => WatchInv'
    BY WatchStep DEF Types
  <1> QED
    BY <1>1, <1>2, TypesInvariant, PTL DEF Spec

\* Every change of a file that was read or written leads to a look at it or was
\* reported, in every order of signals and timers, but for a change that came
\* between the reading or the writing and the watch.
THEOREM WatchSafety == Spec => []ChangesAreNoticed
  <1>1. WatchInv => ChangesAreNoticed
    BY DEF WatchInv, ChangesAreNoticed
  <1> QED
    BY <1>1, WatchInvariant, PTL

-----------------------------------------------------------------------------
(* Backups.                                                                *)

\* No step but that of a command that deletes the backup of a tab that stays leaves
\* unsaved text without a backup or a timer that makes one.
LEMMA BackupStep ==
    ASSUME Data, States, [Next]_vars, ~Unbacked,
           ~RunScript, ~\E format \in BOOLEAN : SaveClientContent(format)
    PROVE  ~Unbacked'
  <1> USE FileAssumption DEF Data, States
  <1>1. CASE OpenTab
    BY <1>1 DEF OpenTab, LocalsGone, NewEditor, DataOK, Unbacked, On, TabState
  <1>2. CASE TabSelected
    BY <1>2 DEF TabSelected, diskVars, textVars, tabVars, busyVars, watchVars,
         DataOK, Unbacked, On, TabState
  <1>3. CASE TabDeselected
    BY <1>3 DEF TabDeselected, diskVars, textVars, tabVars, busyVars, watchVars,
         DataOK, Unbacked, On, TabState
  <1>4. CASE LoadingTimer
    BY <1>4 DEF LoadingTimer, BeginLoad, diskVars, textVars, DataOK,
         Unbacked, On, TabState
  <1>5. CASE NavigateTo
    BY <1>5 DEF NavigateTo, BeginLoad, diskVars, textVars, timerVars, DataOK,
         Unbacked, On, TabState
  <1>6. CASE AskReload
    BY <1>6 DEF AskReload, Reload, BeginLoad, diskVars, textVars, timerVars, DataOK,
         Unbacked, On, TabState
  <1>7. CASE FinishLoad
    <2> DEFINE name == IF useBackup /\ saved.uid # NoUid THEN saved.uid ELSE uid
               back == useBackup /\ saved.uid # NoUid /\ backups[name] # NoText
    <2>1. CASE back
      <3>1. /\ buffer' = backups[name] /\ uid' = saved.uid
            /\ UNCHANGED backups
        BY <1>7, <2>1, Zenon DEF FinishLoad
      <3> QED
        BY <2>1, <3>1 DEF Unbacked
    <2>2. CASE ~back /\ disk # Missing
      <3>1. modified' = back
        BY <1>7, <2>2, Zenon DEF FinishLoad, LocalsGone, Contents
      <3> QED
        BY <2>2, <3>1 DEF Unbacked
    <2>3. CASE ~back /\ disk = Missing
      <3>1. phase = "loading" /\ UNCHANGED <<loaded, modified>>
        BY <1>7, <2>3, Zenon DEF FinishLoad, LocalsGone, Contents, textVars
      <3>2. ~loaded
        BY <3>1
      <3> QED
        BY <3>1, <3>2 DEF Unbacked
    <2> QED
      BY <2>1, <2>2, <2>3
  <1>8. ASSUME NEW t \in Texts, Type(t) PROVE ~Unbacked'
    BY <1>8 DEF Type, diskVars, tabVars, busyVars, watchVars, DataOK,
         Unbacked, On, TabState
  <1>9. ASSUME NEW t \in Texts, FormatterReturns(t) PROVE ~Unbacked'
    BY <1>9 DEF FormatterReturns, LocalsGone, OpenForWriting, tabVars, watchVars,
         DataOK, Unbacked, On, TabState
  <1>10. ASSUME NEW t \in Texts, WriteOutside(t) PROVE ~Unbacked'
    BY <1>10 DEF WriteOutside, textVars, tabVars, busyVars, timerVars, DataOK,
         Unbacked, On, TabState
  <1>11. ASSUME NEW t \in Contents, ReplaceOutside(t) PROVE ~Unbacked'
    BY <1>11 DEF ReplaceOutside, Contents, textVars, tabVars, busyVars, timerVars,
         DataOK, Unbacked, On, TabState
  <1>12. CASE Undo
    BY <1>12 DEF Undo, diskVars, tabVars, busyVars, watchVars, DataOK,
         Unbacked, On, TabState
  <1>13. CASE AutoSave
    BY <1>13 DEF AutoSave, SaveBackup, textVars, tabVars, busyVars, watchVars,
         DataOK, Unbacked, On, TabState
  <1>14. ASSUME NEW format \in BOOLEAN, Save(format) PROVE ~Unbacked'
    BY <1>14 DEF Save, BeginSave, textVars, tabVars, timerVars, DataOK,
         Unbacked, On, TabState
  <1>15. ASSUME NEW format \in BOOLEAN, SaveClientContent(format) PROVE ~Unbacked'
    BY <1>15
  <1>16. CASE FinishSave
    BY <1>16 DEF FinishSave, LocalsGone, Contents, NoEditor, tabVars, busyVars,
         DataOK, Unbacked, On, TabState
  <1>17. CASE CloseTab
    BY <1>17 DEF CloseTab, LocalsGone, Close, NoEditor, BeginSave, SaveBackup,
         DeleteBackup, textVars, tabVars, timerVars, DataOK, Unbacked, On, TabState
  <1>18. CASE RunScript
    BY <1>18
  <1>19. CASE Quit
    BY <1>19 DEF Quit, LocalsGone, NoEditor, State, SaveBackup, DeleteBackup,
         DataOK, Unbacked, On, TabState
  <1>20. CASE SaveSettings
    BY <1>20 DEF SaveSettings, State, textVars, tabVars, busyVars, watchVars,
         timerVars, DataOK, Unbacked, On, TabState
  <1>21. CASE Crash
    BY <1>21 DEF Crash, LocalsGone, Contents, NoEditor, diskVars, DataOK, Unbacked,
         On, TabState
  <1>22. CASE Start
    BY <1>22 DEF Start, LocalsGone, NewEditor, textVars, tabVars, busyVars,
         watchVars, timerVars, DataOK, Unbacked, On, TabState
  <1>23. CASE ChangeMode
    BY <1>23 DEF ChangeMode, textVars, tabVars, busyVars, watchVars, timerVars,
         DataOK, Unbacked, On, TabState
  <1>24. CASE FileChanged
    BY <1>24 DEF FileChanged, diskVars, textVars, tabVars, busyVars, timerVars,
         DataOK, Unbacked, On, TabState
  <1>25. CASE FileChangedTimer
    BY <1>25 DEF FileChangedTimer, Reload, BeginLoad, diskVars, textVars, tabVars,
         busyVars, timerVars, DataOK, Unbacked, On, TabState
  <1>26. CASE UNCHANGED vars
    BY <1>26 DEF vars, diskVars, textVars, tabVars, busyVars, watchVars, timerVars,
         DataOK, Unbacked, On, TabState
  <1> QED
    BY <1>1, <1>2, <1>3, <1>4, <1>5, <1>6, <1>7, <1>8, <1>9, <1>10, <1>11, <1>12, <1>13, 
       <1>14, <1>15, <1>16, <1>17, <1>18, <1>19, <1>20, <1>21, <1>22, <1>23, <1>24, <1>25, <1>26 DEF Next

\* What the timer leaves in a backup, unless a command may delete it there.
BackupInv == {"build", "script"} \cap Happens = {} => ~Unbacked

\* The backups are kept over a session.
LEMMA BackupInvariant == Spec => []BackupInv
  <1>1. Init => BackupInv
    BY DEF Init, BackupInv, Unbacked, On
  <1>2. ASSUME BackupInv, Types, [Next]_vars, {"build", "script"} \cap Happens = {}
        PROVE  ~Unbacked'
    <2>1. ~Unbacked
      BY <1>2 DEF BackupInv
    <2>2. "build" \notin Happens /\ "script" \notin Happens
      BY <1>2
    <2>3. ~RunScript /\ ~\E format \in BOOLEAN : SaveClientContent(format)
      BY <2>2 DEF RunScript, SaveClientContent
    <2> QED
      BY <1>2, <2>1, <2>3, BackupStep DEF Types
  <1>3. BackupInv /\ Types /\ [Next]_vars => BackupInv'
    BY <1>2 DEF BackupInv
  <1> QED
    BY <1>1, <1>3, TypesInvariant, PTL DEF Spec

\* What EditsAreBackedUp says of one step.
BackupKept ==
    ~Unbacked /\ Unbacked'
        => RunScript \/ \E format \in BOOLEAN : SaveClientContent(format)

\* The text of a modified editor is in its backup once the auto-save timer has
\* fired, and nothing but a build, a run or a script takes it from there.
THEOREM BackupSafety == Spec => EditsAreBackedUp
  <1>1. Types /\ [Next]_vars => BackupKept
    BY BackupStep DEF Types, BackupKept
  <1> QED
    BY <1>1, TypesInvariant, PTL DEF Spec, EditsAreBackedUp, BackupKept

-----------------------------------------------------------------------------
(* What a restart has to show.                                             *)

\* A text that is owed lies in the backup that the settings name, untouched by
\* the editor of the next session until this has read it; from then on it is
\* the editor's text, and modified.
OwedInv == owed \in Texts =>
    /\ phase \in {"off", "idle", "loading"}
    /\ ~loaded => /\ session # NoTab /\ session.uid \in Uids
                  /\ backups[session.uid] = owed /\ ~modified
    /\ On /\ ~loaded => /\ saved = session
                        /\ ~watching /\ ~notified /\ ~changed
                        /\ phase = "loading" => useBackup
    /\ loaded => On /\ phase = "idle" /\ modified /\ buffer = owed

\* With tabs that are shown, no step writes over the backup that is owed.
LEMMA OwedStep ==
    ASSUME "hide" \notin Happens, Types, BackupInv, OwedInv, [Next]_vars
    PROVE  OwedInv'
  <1> USE FileAssumption
  <1>1. CASE OpenTab
    BY <1>1 DEF OpenTab, LocalsGone, NewEditor, OwedInv, On
  <1>2. CASE TabSelected
    BY <1>2 DEF TabSelected, diskVars, textVars, tabVars, busyVars, watchVars,
         OwedInv, On
  <1>3. CASE TabDeselected
    BY <1>3 DEF TabDeselected, diskVars, textVars, tabVars, busyVars, watchVars,
         OwedInv, On
  <1>4. CASE LoadingTimer
    BY <1>4 DEF LoadingTimer, BeginLoad, diskVars, textVars, OwedInv, On
  <1>5. CASE NavigateTo
    BY <1>5 DEF NavigateTo, BeginLoad, diskVars, textVars, timerVars, OwedInv, On
  <1>6. CASE AskReload
    BY <1>6 DEF AskReload, Reload, BeginLoad, diskVars, textVars, timerVars,
         OwedInv, On
  <1>7. CASE FinishLoad
    BY <1>7 DEF FinishLoad, LocalsGone, Contents, diskVars, textVars, busyVars,
         timerVars, OwedInv, On
  <1>8. ASSUME NEW t \in Texts, Type(t) PROVE OwedInv'
    BY <1>8 DEF Type, diskVars, tabVars, busyVars, watchVars, OwedInv, On
  <1>9. ASSUME NEW t \in Texts, FormatterReturns(t) PROVE OwedInv'
    BY <1>9 DEF FormatterReturns, LocalsGone, OpenForWriting, tabVars, watchVars,
         OwedInv, On
  <1>10. ASSUME NEW t \in Texts, WriteOutside(t) PROVE OwedInv'
    BY <1>10 DEF WriteOutside, textVars, tabVars, busyVars, timerVars, OwedInv, On
  <1>11. ASSUME NEW t \in Contents, ReplaceOutside(t) PROVE OwedInv'
    BY <1>11 DEF ReplaceOutside, Contents, textVars, tabVars, busyVars, timerVars,
         OwedInv, On
  <1>12. CASE Undo
    BY <1>12 DEF Undo, diskVars, tabVars, busyVars, watchVars, OwedInv, On
  <1>13. CASE AutoSave
    BY <1>13 DEF AutoSave, SaveBackup, textVars, tabVars, busyVars, watchVars,
         OwedInv, On
  <1>14. ASSUME NEW format \in BOOLEAN, Save(format) PROVE OwedInv'
    BY <1>14 DEF Save, BeginSave, textVars, tabVars, timerVars, OwedInv, On
  <1>15. ASSUME NEW format \in BOOLEAN, SaveClientContent(format) PROVE OwedInv'
    BY <1>15 DEF SaveClientContent, OwedInv
  <1>16. CASE FinishSave
    BY <1>16 DEF FinishSave, LocalsGone, Contents, NoEditor, tabVars, busyVars,
         OwedInv, On
  <1>17. CASE CloseTab
    BY <1>17 DEF CloseTab, LocalsGone, Close, NoEditor, BeginSave, SaveBackup,
         DeleteBackup, textVars, tabVars, timerVars, OwedInv, On
  <1>18. CASE RunScript
    BY <1>18 DEF RunScript, SaveBackup, DeleteBackup, textVars, tabVars, busyVars,
         watchVars, timerVars, OwedInv, On
  <1>19. CASE Quit
    <2>1. CASE phase = "closed"
      BY <1>19, <2>1 DEF Quit, OwedInv
    <2>2. CASE phase = "idle"
      <3>1. /\ loaded /\ modified' = FALSE /\ loaded' = FALSE /\ phase' = "off"
            /\ session' = State
            /\ owed' = IF modified THEN buffer ELSE NoText
            /\ modified => backups' = SaveBackup
        BY <1>19, <2>2 DEF Quit, LocalsGone, Shown, NoEditor
      <3>2. uid \in Uids /\ backups \in [Uids -> Texts \cup {NoText}]
        BY <2>2 DEF Types, Data, DataOK, On
      <3>3. State \in TabState /\ State.uid = uid
        BY <3>2 DEF Types, FlagsOK, State, TabState
      <3>4. CASE modified
        <4>1. owed' = buffer /\ backups'[uid] = buffer
          BY <3>1, <3>2, <3>4 DEF SaveBackup
        <4>2. session' # NoTab
          BY <3>1, <3>3, FileAssumption DEF TabState
        <4> QED
          BY <3>1, <3>2, <3>3, <4>1, <4>2 DEF OwedInv, On
      <3>5. CASE ~modified
        BY <3>1, <3>5 DEF OwedInv
      <3> QED
        BY <3>4, <3>5
    <2> QED
      BY <1>19, <2>1, <2>2 DEF Quit
  <1>20. CASE SaveSettings
    BY <1>20 DEF SaveSettings, Shown, textVars, tabVars, busyVars, watchVars,
         timerVars, OwedInv, On
  <1>21. CASE Crash
    <2>1. /\ phase # "off" /\ phase' = "off" /\ loaded' = FALSE /\ modified' = FALSE
          /\ UNCHANGED <<session, backups>>
      BY <1>21 DEF Crash, LocalsGone, Contents, NoEditor, diskVars
    <2>2. CASE BackedUp
      <3>1. owed' = buffer
        BY <1>21, <2>2 DEF Crash, Contents
      <3>2. On /\ loaded /\ modified /\ ~autosave /\ session # NoTab /\ session.uid = uid
        BY <2>2 DEF BackedUp
      <3>3. backups[uid] = buffer
        BY <2>2, <3>2 DEF BackedUp, BackupInv, Unbacked
      <3>4. uid \in Uids
        BY <3>2 DEF Types, Data
      <3> QED
        BY <2>1, <3>1, <3>2, <3>3, <3>4 DEF OwedInv, On
    <2>3. CASE ~BackedUp
      BY <1>21, <2>1, <2>3 DEF Crash, Contents, OwedInv, On
    <2> QED
      BY <2>2, <2>3
  <1>22. CASE Start
    BY <1>22 DEF Start, LocalsGone, NewEditor, textVars, tabVars, busyVars,
         watchVars, timerVars, OwedInv, On
  <1>23. CASE ChangeMode
    BY <1>23 DEF ChangeMode, textVars, tabVars, busyVars, watchVars, timerVars,
         OwedInv, On
  <1>24. CASE FileChanged
    BY <1>24 DEF FileChanged, diskVars, textVars, tabVars, busyVars, timerVars,
         OwedInv, On
  <1>25. CASE FileChangedTimer
    BY <1>25 DEF FileChangedTimer, Reload, BeginLoad, diskVars, textVars, tabVars,
         busyVars, timerVars, OwedInv, On
  <1>26. CASE UNCHANGED vars
    BY <1>26 DEF vars, diskVars, textVars, tabVars, busyVars, watchVars, timerVars,
         OwedInv, On
  <1> QED
    BY <1>1, <1>2, <1>3, <1>4, <1>5, <1>6, <1>7, <1>8, <1>9, <1>10, <1>11, <1>12, <1>13, 
       <1>14, <1>15, <1>16, <1>17, <1>18, <1>19, <1>20, <1>21, <1>22, <1>23, <1>24, <1>25, <1>26 DEF Next

\* Where every tab is shown before the next quit, unsaved text comes back: that
\* of a quit, and, where BackedUp, that of a crash, in the middle of a save too.
THEOREM SurvivalSafety ==
    ASSUME "hide" \notin Happens
    PROVE  Spec => []EditsSurvive
  <1>1. Init => OwedInv
    BY FileAssumption DEF Init, OwedInv
  <1>2. OwedInv /\ Types /\ BackupInv /\ [Next]_vars => OwedInv'
    BY OwedStep
  <1>3. OwedInv => EditsSurvive
    BY DEF OwedInv, EditsSurvive
  <1> QED
    BY <1>1, <1>2, <1>3, TypesInvariant, BackupInvariant, PTL DEF Spec
=============================================================================
