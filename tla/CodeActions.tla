---------------------------- MODULE CodeActions ----------------------------
(***************************************************************************)
(* The fixes a language server offers for the line at the caret: the probe *)
(* that marks the margin, the menu the user asks for, the edits of a fix,  *)
(* and the diagnostics the requests carry.                                 *)
(*                                                                         *)
(* The editor has one future watcher for both kinds of request: asking     *)
(* again drops the answer still owed.  A server reads what it is sent in   *)
(* order, so it answers from the text it held when it was asked.  The      *)
(* server is ready throughout; LspSync models how it gets there.           *)
(*                                                                         *)
(* The GUI thread runs its handlers one at a time, but diagnostics come in *)
(* on a reader thread: a push and the mark that calls the diagnostics      *)
(* stale, the look at that mark and the look at the diagnostics are steps  *)
(* of their own.                                                           *)
(***************************************************************************)
EXTENDS Naturals

CONSTANTS
    Texts,      \* contents of the document
    Empty,      \* the empty content
    NoText,     \* no content: nothing published, nothing sent
    Lines,      \* lines of the document
    NoLine,     \* no line is marked
    Nothing,    \* no request, no menu, no fix
    Fixes       \* Fixes[t]: the lines of t that have a quick fix

ASSUME ActionsAssumption ==
    /\ Empty \in Texts /\ Texts # {Empty}
    /\ NoText \notin Texts
    /\ NoLine \notin Lines
    /\ Fixes \in [Texts -> SUBSET Lines]
    /\ Nothing \notin [content : Texts, held : Texts, echo : Texts \cup {NoText}, line : Lines]
    /\ Nothing \notin [content : Texts, computed : Texts]

VARIABLES
    text,       \* content of the editor
    caret,      \* line of the caret
    timer,      \* codeActionTimer is active
    mark,       \* codeActionMarkLine
    probe,      \* codeActionProbe
    probeLine,  \* codeActionProbeLine
    request,    \* the request that codeActionWatcher waits for
    menu,       \* the menu on screen
    held,       \* the text the server was last sent; SyncedContent's too
    unsent,     \* the file is in dirtyDocuments
    due,        \* the server has still to look at the text it holds
    computed,   \* diagnostics on their way, by the text they describe
    diagnostics,\* diagnostics cached, by the text they describe
    stale,      \* the file is in staleDiagnostics
    late,       \* auxiliary: diagnostics were of an older text when they arrived
    gui         \* the GUI thread: in its event loop, or how far in a handler

editorVars  == <<text, caret, timer, mark, probe, probeLine>>
askVars     == <<request, menu>>
syncVars    == <<held, unsent, due>>
reportVars  == <<computed, diagnostics, stale, late>>
vars == <<editorVars, askVars, syncVars, reportVars, gui>>

Request == [content : Texts, held : Texts, echo : Texts \cup {NoText}, line : Lines]
Menu    == [content : Texts, computed : Texts]

\* flushing, pushed: a text was pushed, its diagnostics are not marked yet.
\* asking: about to look whether they are stale.  echoing: they are not.
Asking == gui \in {"pushed", "asking", "echoing"}

Init ==
    /\ text \in Texts \ {Empty} /\ caret \in Lines
    /\ timer = FALSE /\ mark = NoLine
    /\ probe = FALSE /\ probeLine = NoLine
    /\ request = Nothing /\ menu = Nothing
    /\ held = text /\ unsent = FALSE /\ due = TRUE
    /\ computed = NoText /\ diagnostics = NoText /\ stale = TRUE /\ late = FALSE
    /\ gui = "loop"

-----------------------------------------------------------------------------
(* The caret and the text.                                                 *)

\* Faulty variant: the caret leaves a mark behind, and no probe follows.
MoveCaretQuietly(l) ==
    /\ gui = "loop" /\ menu = Nothing /\ l # caret
    /\ caret' = l
    /\ mark' = NoLine
    /\ UNCHANGED <<text, timer, probe, probeLine, askVars, syncVars, reportVars, gui>>

\* An open menu keeps the user's keys and clicks from the editor.
MoveCaret(l) ==
    /\ gui = "loop" /\ menu = Nothing /\ l # caret
    /\ caret' = l
    /\ mark' = NoLine /\ timer' = TRUE
    /\ UNCHANGED <<text, probe, probeLine, askVars, syncVars, reportVars, gui>>

\* Faulty variant: the change of a text without a mark does not ask for a probe.
ChangeTextQuietly(t) ==
    /\ gui = "loop" /\ t # text
    /\ text' = t /\ unsent' = TRUE
    /\ mark' = NoLine /\ timer' = (timer \/ mark # NoLine)
    /\ UNCHANGED <<caret, probe, probeLine, askVars, held, due, reportVars, gui>>

\* By the user, or, under an open menu too, by a formatter or a rename.
ChangeText(t) ==
    /\ gui = "loop" /\ t # text
    /\ text' = t /\ unsent' = TRUE
    /\ mark' = NoLine /\ timer' = TRUE
    /\ UNCHANGED <<caret, probe, probeLine, askVars, held, due, reportVars, gui>>

-----------------------------------------------------------------------------
(* Pushing and asking.                                                     *)

\* syncDocument(), up to the mark: didChange, whatever was sent before.
Push == held' = text /\ unsent' = FALSE /\ due' = TRUE

\* Faulty variant: the diagnostics of the text that was replaced stay current.
FlushUnmarked ==
    /\ gui = "loop" /\ unsent
    /\ Push
    /\ UNCHANGED <<editorVars, askVars, reportVars, gui>>

\* flushDirtyDocuments(), once the user pauses.
Flush ==
    /\ gui = "loop" /\ gui' = "flushing" /\ unsent
    /\ Push
    /\ UNCHANGED <<editorVars, askVars, reportVars>>

\* The end of syncDocument(): what the server said of an older text is stale.
MarkStale ==
    /\ gui \in {"flushing", "pushed"}
    /\ gui' = IF gui = "pushed" THEN "asking" ELSE "loop"
    /\ stale' = TRUE
    /\ UNCHANGED <<editorVars, askVars, syncVars, computed, diagnostics, late>>

\* Faulty variant: the server is asked about the text it has.
AskUnsynced ==
    /\ gui = "loop" /\ gui' = "asking"
    /\ UNCHANGED syncVars

\* handleCommandAsync(): a text that differs from the record is pushed first.
Ask ==
    /\ gui = "loop"
    /\ IF held = text THEN gui' = "asking" /\ UNCHANGED syncVars
                      ELSE gui' = "pushed" /\ Push

\* The debounced probe, about the line of the caret.
ProbeCodeActions ==
    /\ timer /\ timer' = FALSE
    /\ probe' = TRUE /\ probeLine' = caret
    /\ Ask
    /\ UNCHANGED <<text, caret, mark, askVars, reportVars>>

\* Alt+Return, the entry of the context menu, or a click on the mark.
RequestCodeActions ==
    /\ menu = Nothing
    /\ probe' = FALSE
    /\ Ask
    /\ UNCHANGED <<text, caret, timer, mark, probeLine, askVars, reportVars>>

\* The request goes out, and its answer takes the place of the one waited for.
Send(echo) ==
    /\ gui' = "loop"
    /\ request' = [content |-> text, held |-> held, line |-> caret, echo |-> echo]

\* handleCodeActionRequest(): stale diagnostics are not echoed.
LookWhetherStale ==
    /\ gui = "asking"
    /\ IF stale THEN Send(NoText) ELSE gui' = "echoing" /\ UNCHANGED request
    /\ UNCHANGED <<editorVars, menu, syncVars, reportVars>>

\* The diagnostics are collected for the request, as they are by now.
EchoDiagnostics ==
    /\ gui = "echoing" /\ Send(diagnostics)
    /\ UNCHANGED <<editorVars, menu, syncVars, reportVars>>

\* Faulty variant: the line below is marked, as if lines were counted from one.
ServerAnswersFromOne(offered) ==
    /\ gui = "loop" /\ request # Nothing /\ request' = Nothing
    /\ offered /\ probe => request.line \in Fixes[request.held]
    /\ mark' = IF offered /\ probe THEN probeLine + 1 ELSE NoLine
    /\ UNCHANGED <<text, caret, timer, probe, probeLine, menu, syncVars, reportVars, gui>>

\* The server answers from what it held, or fails, which offers nothing.  It has
\* refactorings for any line, that a probe does not ask for.  The watcher marks
\* the line of the probe, wherever the caret is by now, or opens the menu.
ServerAnswers(offered) ==
    /\ gui = "loop" /\ request # Nothing /\ request' = Nothing
    /\ offered /\ probe => request.line \in Fixes[request.held]
    /\ IF probe
       THEN mark' = (IF offered THEN probeLine ELSE NoLine) /\ UNCHANGED menu
       ELSE /\ menu' = IF offered
                       THEN [content |-> request.content, computed |-> request.held]
                       ELSE menu
            /\ UNCHANGED mark
    /\ UNCHANGED <<text, caret, timer, probe, probeLine, syncVars, reportVars, gui>>

-----------------------------------------------------------------------------
(* Applying.                                                               *)

\* handleApplyCodeAction(): refused when the text has moved on since it was
\* asked about, unless that was empty.  Else the fix makes it t, which is the same
\* text when the editor takes no edit.
ChooseAction(t) ==
    /\ gui = "loop" /\ menu # Nothing /\ menu' = Nothing
    /\ IF menu.content = Empty \/ menu.content = text
       THEN /\ text' = t /\ unsent' = TRUE
            /\ IF t = text THEN UNCHANGED <<mark, timer>>
                           ELSE mark' = NoLine /\ timer' = TRUE
       ELSE UNCHANGED <<text, mark, timer, unsent>>
    /\ UNCHANGED <<caret, probe, probeLine, request, held, due, reportVars, gui>>

DismissMenu ==
    /\ gui = "loop" /\ menu # Nothing /\ menu' = Nothing
    /\ UNCHANGED <<editorVars, request, syncVars, reportVars, gui>>

-----------------------------------------------------------------------------
(* The server and the reader thread, at any step of the GUI thread.        *)

\* The server has looked at the text it holds, once for each it is sent or for
\* the last of several, and sends what it found.
ServerComputes ==
    /\ due /\ due' = FALSE
    /\ computed = NoText /\ computed' = held
    /\ UNCHANGED <<editorVars, askVars, held, unsent, diagnostics, stale, late, gui>>

\* The reader thread caches them, whatever text they describe, as current.
PublishDiagnostics ==
    /\ computed # NoText /\ computed' = NoText
    /\ diagnostics' = computed /\ stale' = FALSE
    /\ late' = (computed # held)
    /\ UNCHANGED <<editorVars, askVars, syncVars, gui>>

-----------------------------------------------------------------------------
Next ==
    \/ \E l \in Lines : MoveCaret(l)
    \/ \E t \in Texts : ChangeText(t) \/ ChooseAction(t)
    \/ ProbeCodeActions \/ RequestCodeActions \/ Flush \/ DismissMenu
    \/ MarkStale \/ LookWhetherStale \/ EchoDiagnostics
    \/ \E offered \in BOOLEAN : ServerAnswers(offered)
    \/ ServerComputes \/ PublishDiagnostics

Spec == Init /\ [][Next]_vars

\* The probe's timer fires, the GUI thread goes on with what it has begun, and the
\* server answers what it is asked.  Nothing is assumed of the user, nor of when
\* or whether the server publishes.
FairSpec ==
    /\ Spec
    /\ WF_vars(ProbeCodeActions)
    /\ WF_vars(MarkStale) /\ WF_vars(LookWhetherStale) /\ WF_vars(EchoDiagnostics)
    /\ WF_vars(\E offered \in BOOLEAN : ServerAnswers(offered))

-----------------------------------------------------------------------------
TypeOK ==
    /\ text \in Texts /\ caret \in Lines
    /\ timer \in BOOLEAN /\ probe \in BOOLEAN
    /\ mark \in Lines \cup {NoLine} /\ probeLine \in Lines \cup {NoLine}
    /\ request \in Request \cup {Nothing}
    /\ menu \in Menu \cup {Nothing}
    /\ held \in Texts /\ unsent \in BOOLEAN
    /\ computed \in Texts \cup {NoText} /\ diagnostics \in Texts \cup {NoText}
    /\ due \in BOOLEAN /\ stale \in BOOLEAN /\ late \in BOOLEAN
    /\ gui \in {"loop", "flushing"} \/ Asking

\* A fix is only ever written into the text the server computed it for, however
\* pushes, answers, menus and changes interleave.  A fix offered for an empty text
\* is not checked again.
FixesFitTheText ==
    [][(menu # Nothing /\ menu' = Nothing /\ text' # text /\ menu.content # Empty)
        => text = menu.computed]_vars

\* The mark is at the caret, or a probe that corrects it is due or under way,
\* unless the user has asked for a menu since.
MarkIsAtTheCaret ==
    mark # NoLine => mark = caret \/ timer \/ Asking \/ request # Nothing \/ ~probe

\* A mark on a line that has no fix goes away, unless the user asks for a menu.
MarksCatchUp ==
    (mark # NoLine /\ mark \notin Fixes[text])
        ~> (mark = NoLine \/ mark \in Fixes[text] \/ ~probe)

\* A request echoes diagnostics of another text than the one it is about only when
\* they came late, that is, arrived after a newer text had been pushed, which the
\* code takes for news.  What had arrived before a push is never echoed after it,
\* wherever other arrivals fall between the push, the mark and the two looks.
EchoesAreCurrent ==
    [][request' \notin {request, Nothing}
        => request'.echo \in {NoText, request'.content} \/ late]_vars

-----------------------------------------------------------------------------
(* What comments of the code promise.                                      *)

\* LspPlugin.hpp, staleDiagnostics: diagnostics of a text the buffer has moved on
\* from must not be echoed into a request.
EveryEchoIsCurrent ==
    request # Nothing => request.echo \in {NoText, request.content}

\* qmdieditor.h, requestCodeActions(): once the server answers, the actions are
\* shown.  So only the user's next request takes the place of a request.
UserRequestsStand ==
    [][request # Nothing /\ ~probe => request' \in {request, Nothing} \/ ~probe']_vars
=============================================================================
