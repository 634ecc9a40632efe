------------------------ MODULE CodeActions_proofs ------------------------
(***************************************************************************)
(* Proofs about CodeActions, for any texts, lines and fixes.               *)
(***************************************************************************)
EXTENDS CodeActions, TLAPS

\* Every variable keeps its type.
THEOREM Typing == Spec => []TypeOK
  <1> USE ActionsAssumption DEF Asking
  <1>1. Init => TypeOK
    BY DEF Init, TypeOK
  <1>2. ASSUME TypeOK, [Next]_vars PROVE TypeOK'
    <2> USE <1>2
    <2>1. ASSUME NEW l \in Lines, MoveCaret(l) PROVE TypeOK'
      BY <2>1 DEF MoveCaret, TypeOK, askVars, syncVars, reportVars
    <2>2. ASSUME NEW t \in Texts, ChangeText(t) PROVE TypeOK'
      BY <2>2 DEF ChangeText, TypeOK, askVars, reportVars
    <2>3. ASSUME NEW t \in Texts, ChooseAction(t) PROVE TypeOK'
      BY <2>3 DEF ChooseAction, TypeOK, reportVars
    <2>4. ASSUME Ask
          PROVE  /\ held' \in Texts /\ unsent' \in BOOLEAN /\ due' \in BOOLEAN
                 /\ gui' \in {"asking", "pushed"}
      BY <2>4 DEF Ask, Push, TypeOK, syncVars
    <2>5. CASE ProbeCodeActions
      BY <2>4, <2>5 DEF ProbeCodeActions, TypeOK, askVars, reportVars
    <2>6. CASE RequestCodeActions
      BY <2>4, <2>6 DEF RequestCodeActions, TypeOK, askVars, reportVars
    <2>7. CASE DismissMenu
      BY <2>7 DEF DismissMenu, TypeOK, editorVars, syncVars, reportVars
    <2>8. ASSUME NEW offered \in BOOLEAN, ServerAnswers(offered) PROVE TypeOK'
      BY <2>8 DEF ServerAnswers, TypeOK, Request, Menu, syncVars, reportVars
    <2>9. CASE Flush
      BY <2>9 DEF Flush, Push, TypeOK, editorVars, askVars, reportVars
    <2>10. CASE MarkStale
      BY <2>10 DEF MarkStale, TypeOK, editorVars, askVars, syncVars
    <2>11. ASSUME NEW echo \in Texts \cup {NoText}, Send(echo)
           PROVE  request' \in Request /\ gui' = "loop"
      BY <2>11 DEF Send, Request, TypeOK
    <2>12. CASE LookWhetherStale
      <3>1. request' \in Request \cup {Nothing} /\ gui' \in {"loop", "echoing"}
        BY <2>11, <2>12 DEF LookWhetherStale, TypeOK
      <3> QED
        BY <2>12, <3>1 DEF LookWhetherStale, TypeOK, editorVars, syncVars, reportVars
    <2>13. CASE EchoDiagnostics
      <3>1. request' \in Request /\ gui' = "loop"
        BY <2>11, <2>13 DEF EchoDiagnostics, TypeOK
      <3> QED
        BY <2>13, <3>1 DEF EchoDiagnostics, TypeOK, editorVars, syncVars, reportVars
    <2>14. CASE ServerComputes
      <3>1. /\ due' = FALSE /\ computed' = held
            /\ UNCHANGED <<editorVars, askVars>>
            /\ UNCHANGED <<held, unsent, diagnostics, stale, late, gui>>
        BY <2>14 DEF ServerComputes
      <3>2. /\ text' \in Texts /\ caret' \in Lines
            /\ timer' \in BOOLEAN /\ probe' \in BOOLEAN
            /\ mark' \in Lines \cup {NoLine} /\ probeLine' \in Lines \cup {NoLine}
            /\ request' \in Request \cup {Nothing} /\ menu' \in Menu \cup {Nothing}
        BY <3>1 DEF TypeOK, editorVars, askVars
      <3> QED
        BY <3>1, <3>2 DEF TypeOK
    <2>15. CASE PublishDiagnostics
      BY <2>15 DEF PublishDiagnostics, TypeOK, editorVars, askVars, syncVars
    <2>16. CASE UNCHANGED vars
      BY <2>16 DEF vars, TypeOK, editorVars, askVars, syncVars, reportVars
    <2> QED
      BY <2>1, <2>2, <2>3, <2>5, <2>6, <2>7, <2>8, <2>9, <2>10, <2>12, <2>13,
         <2>14, <2>15, <2>16 DEF Next
  <1> QED
    BY <1>1, <1>2, PTL DEF Spec

-----------------------------------------------------------------------------
(* What is sent.                                                           *)

\* Between the push, if one was needed, and the request, the server holds the text
\* of the editor: nothing changes either meanwhile.
AskInv == Asking => held = text

LEMMA AskStep ==
    ASSUME AskInv, [Next]_vars
    PROVE  AskInv'
  <1> USE DEF AskInv, Asking
  <1>1. ASSUME NEW l \in Lines, MoveCaret(l) PROVE AskInv'
    BY <1>1 DEF MoveCaret
  <1>2. ASSUME NEW t \in Texts, ChangeText(t) PROVE AskInv'
    BY <1>2 DEF ChangeText
  <1>3. ASSUME NEW t \in Texts, ChooseAction(t) PROVE AskInv'
    BY <1>3 DEF ChooseAction
  <1>4. CASE ProbeCodeActions
    BY <1>4 DEF ProbeCodeActions, Ask, Push, syncVars
  <1>5. CASE RequestCodeActions
    BY <1>5 DEF RequestCodeActions, Ask, Push, syncVars
  <1>6. CASE DismissMenu
    BY <1>6 DEF DismissMenu
  <1>7. ASSUME NEW offered \in BOOLEAN, ServerAnswers(offered) PROVE AskInv'
    BY <1>7 DEF ServerAnswers
  <1>8. CASE Flush
    BY <1>8 DEF Flush
  <1>9. CASE MarkStale
    BY <1>9 DEF MarkStale, editorVars, syncVars
  <1>10. CASE LookWhetherStale
    BY <1>10 DEF LookWhetherStale, editorVars, syncVars
  <1>11. CASE EchoDiagnostics
    BY <1>11 DEF EchoDiagnostics, Send
  <1>12. CASE ServerComputes
    BY <1>12 DEF ServerComputes, editorVars
  <1>13. CASE PublishDiagnostics
    BY <1>13 DEF PublishDiagnostics, editorVars, syncVars
  <1>14. CASE UNCHANGED vars
    BY <1>14 DEF vars, editorVars, syncVars
  <1> QED
    BY <1>1, <1>2, <1>3, <1>4, <1>5, <1>6, <1>7, <1>8, <1>9, <1>10, <1>11, <1>12,
       <1>13, <1>14 DEF Next

-----------------------------------------------------------------------------
(* Fixes.                                                                  *)

\* Whatever is asked is asked about the text the server holds, and the menu that
\* comes of it knows which text that was.
OfferInv ==
    /\ request # Nothing => request.held = request.content
    /\ menu # Nothing => menu.computed = menu.content

\* What FixesFitTheText says of one step.
FixFits ==
    (menu # Nothing /\ menu' = Nothing /\ text' # text /\ menu.content # Empty)
        => text = menu.computed

\* A push goes before every request; menus are made from requests.
LEMMA OfferStep ==
    ASSUME AskInv, OfferInv, [Next]_vars
    PROVE  OfferInv' /\ FixFits
  <1> USE DEF OfferInv, FixFits
  <1>1. ASSUME NEW l \in Lines, MoveCaret(l) PROVE OfferInv' /\ FixFits
    BY <1>1 DEF MoveCaret, askVars
  <1>2. ASSUME NEW t \in Texts, ChangeText(t) PROVE OfferInv' /\ FixFits
    BY <1>2 DEF ChangeText, askVars
  <1>3. ASSUME NEW t \in Texts, ChooseAction(t) PROVE OfferInv' /\ FixFits
    BY <1>3 DEF ChooseAction
  <1>4. CASE ProbeCodeActions
    BY <1>4 DEF ProbeCodeActions, askVars
  <1>5. CASE RequestCodeActions
    BY <1>5 DEF RequestCodeActions, askVars
  <1>6. CASE DismissMenu
    BY <1>6 DEF DismissMenu, editorVars
  <1>7. ASSUME NEW offered \in BOOLEAN, ServerAnswers(offered) PROVE OfferInv' /\ FixFits
    BY <1>7 DEF ServerAnswers
  <1>8. CASE Flush
    BY <1>8 DEF Flush, editorVars, askVars
  <1>9. CASE MarkStale
    BY <1>9 DEF MarkStale, editorVars, askVars
  <1>10. CASE LookWhetherStale
    BY <1>10 DEF LookWhetherStale, Send, AskInv, Asking, editorVars
  <1>11. CASE EchoDiagnostics
    BY <1>11 DEF EchoDiagnostics, Send, AskInv, Asking, editorVars
  <1>12. CASE ServerComputes
    BY <1>12 DEF ServerComputes, editorVars, askVars
  <1>13. CASE PublishDiagnostics
    BY <1>13 DEF PublishDiagnostics, editorVars, askVars
  <1>14. CASE UNCHANGED vars
    BY <1>14 DEF vars, editorVars, askVars
  <1> QED
    BY <1>1, <1>2, <1>3, <1>4, <1>5, <1>6, <1>7, <1>8, <1>9, <1>10, <1>11, <1>12,
       <1>13, <1>14 DEF Next

\* A fix is written into the text it was computed for and no other.
THEOREM FixSafety == Spec => FixesFitTheText
  <1>1. Init => AskInv /\ OfferInv
    BY DEF Init, AskInv, Asking, OfferInv
  <1>2. AskInv /\ [Next]_vars => AskInv'
    BY AskStep
  <1>3. AskInv /\ OfferInv /\ [Next]_vars => OfferInv' /\ FixFits
    BY OfferStep
  <1> QED
    BY <1>1, <1>2, <1>3, PTL DEF Spec, FixesFitTheText, FixFits

-----------------------------------------------------------------------------
(* Diagnostics.                                                            *)

\* What is cached, counts as current and was so when it arrived describes the text
\* the server holds, but for the moment between a push and its mark.  Nothing makes
\* it stale once a request has looked.
EchoInv ==
    /\ ~stale /\ ~late /\ diagnostics # NoText /\ gui \notin {"flushing", "pushed"}
           => diagnostics = held
    /\ gui = "echoing" => ~stale

\* What EchoesAreCurrent says of one step.
EchoFits ==
    request' \notin {request, Nothing}
        => request'.echo \in {NoText, request'.content} \/ late

\* Only what is cached as current is echoed, after the push.
LEMMA EchoStep ==
    ASSUME AskInv, EchoInv, [Next]_vars
    PROVE  EchoInv' /\ EchoFits
  <1> USE DEF EchoInv, EchoFits
  <1>1. ASSUME NEW l \in Lines, MoveCaret(l) PROVE EchoInv' /\ EchoFits
    BY <1>1 DEF MoveCaret, askVars, syncVars, reportVars
  <1>2. ASSUME NEW t \in Texts, ChangeText(t) PROVE EchoInv' /\ EchoFits
    BY <1>2 DEF ChangeText, askVars, reportVars
  <1>3. ASSUME NEW t \in Texts, ChooseAction(t) PROVE EchoInv' /\ EchoFits
    BY <1>3 DEF ChooseAction, reportVars
  <1>4. CASE ProbeCodeActions
    BY <1>4 DEF ProbeCodeActions, Ask, Push, askVars, syncVars, reportVars
  <1>5. CASE RequestCodeActions
    BY <1>5 DEF RequestCodeActions, Ask, Push, askVars, syncVars, reportVars
  <1>6. CASE DismissMenu
    BY <1>6 DEF DismissMenu, syncVars, reportVars
  <1>7. ASSUME NEW offered \in BOOLEAN, ServerAnswers(offered) PROVE EchoInv' /\ EchoFits
    BY <1>7 DEF ServerAnswers, syncVars, reportVars
  <1>8. CASE Flush
    BY <1>8 DEF Flush, askVars, reportVars
  <1>9. CASE MarkStale
    BY <1>9 DEF MarkStale, askVars
  <1>10. CASE LookWhetherStale
    BY <1>10 DEF LookWhetherStale, Send, syncVars, reportVars
  <1>11. CASE EchoDiagnostics
    BY <1>11 DEF EchoDiagnostics, Send, AskInv, Asking, syncVars, reportVars
  <1>12. CASE ServerComputes
    BY <1>12 DEF ServerComputes, askVars
  <1>13. CASE PublishDiagnostics
    BY <1>13 DEF PublishDiagnostics, askVars, syncVars
  <1>14. CASE UNCHANGED vars
    BY <1>14 DEF vars, askVars, syncVars, reportVars
  <1> QED
    BY <1>1, <1>2, <1>3, <1>4, <1>5, <1>6, <1>7, <1>8, <1>9, <1>10, <1>11, <1>12,
       <1>13, <1>14 DEF Next

\* Diagnostics that were current when they arrived are echoed into requests about
\* the text they describe and no other, though the reader thread may deliver some
\* between any two steps of the GUI thread.
THEOREM EchoSafety == Spec => EchoesAreCurrent
  <1>1. Init => AskInv /\ EchoInv
    BY DEF Init, AskInv, Asking, EchoInv
  <1>2. AskInv /\ [Next]_vars => AskInv'
    BY AskStep
  <1>3. AskInv /\ EchoInv /\ [Next]_vars => EchoInv' /\ EchoFits
    BY EchoStep
  <1> QED
    BY <1>1, <1>2, <1>3, PTL DEF Spec, EchoesAreCurrent, EchoFits

-----------------------------------------------------------------------------
(* The mark.                                                               *)

\* A probe under way is about the line of the caret, or the caret has moved since
\* and the next probe is due.
MarkInv ==
    /\ MarkIsAtTheCaret
    /\ probe /\ (request # Nothing \/ Asking) => probeLine = caret \/ timer

\* The caret only moves with the timer being started.
LEMMA MarkStep ==
    ASSUME TypeOK, MarkInv, [Next]_vars
    PROVE  MarkInv'
  <1> USE DEF MarkInv, MarkIsAtTheCaret, Asking
  <1>1. ASSUME NEW l \in Lines, MoveCaret(l) PROVE MarkInv'
    BY <1>1 DEF MoveCaret
  <1>2. ASSUME NEW t \in Texts, ChangeText(t) PROVE MarkInv'
    BY <1>2 DEF ChangeText, askVars
  <1>3. ASSUME NEW t \in Texts, ChooseAction(t) PROVE MarkInv'
    BY <1>3 DEF ChooseAction
  <1>4. CASE ProbeCodeActions
    BY <1>4 DEF ProbeCodeActions, Ask
  <1>5. CASE RequestCodeActions
    BY <1>5 DEF RequestCodeActions
  <1>6. CASE DismissMenu
    BY <1>6 DEF DismissMenu, editorVars
  <1>7. ASSUME NEW offered \in BOOLEAN, ServerAnswers(offered) PROVE MarkInv'
    BY <1>7 DEF ServerAnswers
  <1>8. CASE Flush
    BY <1>8 DEF Flush, editorVars, askVars
  <1>9. CASE MarkStale
    BY <1>9 DEF MarkStale, editorVars, askVars
  <1>10. ASSUME NEW echo \in Texts \cup {NoText}, Send(echo) PROVE request' # Nothing
    <2>1. request' \in Request
      BY <1>10 DEF Send, Request, TypeOK
    <2> QED
      BY <2>1, ActionsAssumption DEF Request
  <1>11. CASE LookWhetherStale
    <2>1. request' # Nothing \/ gui' = "echoing"
      BY <1>10, <1>11 DEF LookWhetherStale
    <2> QED
      BY <1>11, <2>1 DEF LookWhetherStale, editorVars
  <1>12. CASE EchoDiagnostics
    <2>1. request' # Nothing
      BY <1>10, <1>12 DEF EchoDiagnostics, TypeOK
    <2> QED
      BY <1>12, <2>1 DEF EchoDiagnostics, editorVars
  <1>13. CASE ServerComputes
    BY <1>13 DEF ServerComputes, editorVars, askVars
  <1>14. CASE PublishDiagnostics
    BY <1>14 DEF PublishDiagnostics, editorVars, askVars
  <1>15. CASE UNCHANGED vars
    BY <1>15 DEF vars, editorVars, askVars
  <1> QED
    BY <1>1, <1>2, <1>3, <1>4, <1>5, <1>6, <1>7, <1>8, <1>9, <1>11, <1>12, <1>13,
       <1>14, <1>15 DEF Next

\* A mark away from the caret is about to be corrected.
THEOREM MarkSafety == Spec => []MarkIsAtTheCaret
  <1>1. Init => MarkInv
    BY DEF Init, MarkInv, MarkIsAtTheCaret, Asking
  <1>2. TypeOK /\ MarkInv /\ [Next]_vars => MarkInv'
    BY MarkStep
  <1>3. MarkInv => MarkIsAtTheCaret
    BY DEF MarkInv
  <1> QED
    BY <1>1, <1>2, <1>3, Typing, PTL DEF Spec
=============================================================================
