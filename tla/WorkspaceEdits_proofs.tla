------------------------ MODULE WorkspaceEdits_proofs -----------------------
(***************************************************************************)
(* Proofs about WorkspaceEdits, for any files, texts and names.            *)
(***************************************************************************)
EXTENDS TextRanges_proofs

IInv == TypeOK /\ BoxIsOnItsSymbol

\* A step that leaves the box where it is leaves its text, too.
LEMMA BoxStays ==
    ASSUME IInv, box' = NoBox \/ (box' = box /\ text'[box.file] = text[box.file])
    PROVE  BoxIsOnItsSymbol'
PROOF
  BY DEF IInv, BoxIsOnItsSymbol

\* Hiding the box over changed files is enough.
LEMMA BoxHidden ==
    ASSUME IInv, NEW changed, box' = HiddenBy(changed),
           box = NoBox \/ box.file \in changed \/ text'[box.file] = text[box.file]
    PROVE  /\ BoxIsOnItsSymbol'
           /\ box' = NoBox \/ (box' = box /\ box.file \notin changed)
PROOF
<1>1. CASE box = NoBox
  BY <1>1 DEF HiddenBy, BoxIsOnItsSymbol
<1>2. CASE box # NoBox /\ box.file \in changed
  BY <1>2 DEF HiddenBy, BoxIsOnItsSymbol
<1>3. CASE box # NoBox /\ box.file \notin changed
  BY <1>3, BoxStays DEF HiddenBy
<1> QED
  BY <1>1, <1>2, <1>3

\* Applying edits keeps the box on its symbol, or takes it down.
LEMMA AppliedKeepsBox ==
    ASSUME IInv, NEW edits, NEW name, NEW origin, ApplyTextEdits(edits, name, origin)
    PROVE  /\ BoxIsOnItsSymbol'
           /\ DOMAIN text' = File /\ open' = open
           /\ box' = NoBox \/ box' = box
PROOF
<1>1. PICK failed \in SUBSET (File \ open) :
        LET new == [f \in File |->
                        IF f \notin open THEN ApplyEditsToClosedFile(f, edits, name, failed)
                        ELSE EditedText(text[f], edits[f], IF f = origin THEN name ELSE <<>>)]
        IN  /\ text' = new
            /\ box' = HiddenBy({f \in File : new[f] # text[f]})
            /\ UNCHANGED open
  BY DEF ApplyTextEdits
<1> DEFINE changed == {f \in File : text'[f] # text[f]}
<1>2. DOMAIN text' = File /\ open' = open /\ box' = HiddenBy(changed)
  BY <1>1
<1>3. box = NoBox \/ box.file \in changed \/ text'[box.file] = text[box.file]
  BY DEF IInv, TypeOK
<1> HIDE DEF changed
<1>4. BoxIsOnItsSymbol' /\ (box' = NoBox \/ box' = box)
  BY <1>2, <1>3, BoxHidden
<1> QED
  BY <1>2, <1>4

\* The invariant holds at the start.
LEMMA InitIInv == Init => IInv
PROOF
  BY DEF Init, IInv, TypeOK, BoxIsOnItsSymbol

\* What the replies and the fixes are, as long as the editors stay open.
Requests ==
    /\ \A r \in sent : r.origin \in File /\ r.name # <<>> /\ DOMAIN r.edits = File
    /\ \A o \in offers : o.file \in open /\ DOMAIN o.edits = File

\* The invariant is inductive.
LEMMA StepKeepsIInv == IInv /\ [Next]_vars => IInv'
PROOF
<1> SUFFICES ASSUME IInv, [Next]_vars PROVE IInv'
  OBVIOUS
<1>0. /\ DOMAIN text = File /\ open \subseteq File /\ Requests
      /\ box = NoBox \/ (box.file \in open /\ box.name # <<>>)
  BY DEF IInv, TypeOK, Requests
<1>1. ASSUME NEW f \in File, NEW column \in 0..Len(text[f]), RequestRename(f, column) PROVE IInv'
  <2>1. /\ f \in open /\ IdentifierAt(text[f], column) # <<>>
        /\ box' = [file |-> f, column |-> column, name |-> IdentifierAt(text[f], column)]
        /\ UNCHANGED <<text, open, sent, offers>>
    BY <1>1 DEF RequestRename
  <2>2. column <= Len(text[f])
    OBVIOUS
  <2>3. BoxIsOnItsSymbol'
    BY <2>1, <2>2 DEF BoxIsOnItsSymbol
  <2> QED
    BY <1>0, <2>1, <2>3 DEF IInv, TypeOK, Requests
<1>2. ASSUME NEW f \in File, NEW t \in Texts, Write(f, t) PROVE IInv'
  <2>1. /\ text' = [text EXCEPT ![f] = t] /\ UNCHANGED <<open, sent, offers>>
        /\ box' = IF f \in open THEN HiddenBy({f}) ELSE box
    BY <1>2 DEF Write
  <2>2. DOMAIN text' = File /\ \A g \in File : g # f => text'[g] = text[g]
    BY <1>0, <2>1
  <2>3. BoxIsOnItsSymbol' /\ (box' = NoBox \/ box' = box)
    <3>1. CASE f \in open
      <4> DEFINE changed == {f}
      <4>1. /\ box' = HiddenBy(changed)
            /\ box = NoBox \/ box.file \in changed \/ text'[box.file] = text[box.file]
        BY <1>0, <2>1, <2>2, <3>1
      <4> HIDE DEF changed
      <4> QED
        BY <4>1, BoxHidden
    <3>2. CASE f \notin open
      BY <1>0, <2>1, <2>2, <3>2, BoxStays DEF BoxIsOnItsSymbol
    <3> QED
      BY <3>1, <3>2
  <2> QED
    BY <1>0, <2>1, <2>2, <2>3 DEF IInv, TypeOK, Requests
<1>3. ASSUME NEW f \in File, OfferFix(f) PROVE IInv'
  <2>1. /\ f \in open /\ UNCHANGED <<text, open, box, sent>>
        /\ \E edits \in [File -> SUBSET FixSpans] :
            offers' = offers \cup {[file |-> f, content |-> text[f], edits |-> edits]}
    BY <1>3 DEF OfferFix
  <2> QED
    BY <1>0, <2>1 DEF IInv, TypeOK, Requests, BoxIsOnItsSymbol
<1>4. ASSUME NEW f \in File, OpenEditor(f) PROVE IInv'
  BY <1>0, <1>4 DEF OpenEditor, IInv, TypeOK, Requests, BoxIsOnItsSymbol
<1>5. ASSUME NEW f \in File, CloseEditor(f) PROVE IInv'
  <2>1. /\ open' = open \ {f} /\ offers' = {o \in offers : o.file # f}
        /\ UNCHANGED <<text, sent>>
    BY <1>5 DEF CloseEditor
  <2> DEFINE changed == {f}
  <2>2. box' = HiddenBy(changed) /\ text'[box.file] = text[box.file]
    BY <1>5, <2>1 DEF CloseEditor
  <2> HIDE DEF changed
  <2>3. BoxIsOnItsSymbol' /\ (box' = NoBox \/ (box' = box /\ box.file \notin changed))
    BY <2>2, BoxHidden
  <2> QED
    BY <1>0, <2>1, <2>3 DEF IInv, TypeOK, Requests, changed
<1>6. ASSUME NEW r \in sent, Renamed(r) PROVE IInv'
  <2>1. ApplyTextEdits(r.edits, r.name, r.origin) /\ sent' = sent \ {r} /\ offers' = offers
    BY <1>6 DEF Renamed
  <2>2. BoxIsOnItsSymbol' /\ DOMAIN text' = File /\ open' = open /\ (box' = NoBox \/ box' = box)
    BY <2>1, AppliedKeepsBox
  <2> QED
    BY <1>0, <2>1, <2>2 DEF IInv, TypeOK, Requests
<1>7. ASSUME NEW r \in sent, RenameFails(r) PROVE IInv'
  BY <1>0, <1>7 DEF RenameFails, IInv, TypeOK, Requests, BoxIsOnItsSymbol
<1>8. ASSUME NEW o \in offers, ApplyCodeAction(o) PROVE IInv'
  <2>1. /\ offers' = offers \ {o} /\ sent' = sent
        /\ ApplyTextEdits(o.edits, <<>>, o.file) \/ UNCHANGED <<text, open, box>>
    BY <1>8 DEF ApplyCodeAction
  <2>2. BoxIsOnItsSymbol' /\ DOMAIN text' = File /\ open' = open /\ (box' = NoBox \/ box' = box)
    <3>1. CASE ApplyTextEdits(o.edits, <<>>, o.file)
      BY <3>1, AppliedKeepsBox
    <3>2. CASE UNCHANGED <<text, open, box>>
      BY <1>0, <3>2 DEF IInv, BoxIsOnItsSymbol
    <3> QED
      BY <2>1, <3>1, <3>2
  <2> QED
    BY <1>0, <2>1, <2>2 DEF IInv, TypeOK, Requests
<1>9. ASSUME NEW o \in offers, DropFix(o) PROVE IInv'
  BY <1>0, <1>9 DEF DropFix, IInv, TypeOK, Requests, BoxIsOnItsSymbol
<1>10. CASE HideInlineRename
  BY <1>0, <1>10 DEF HideInlineRename, IInv, TypeOK, Requests, BoxIsOnItsSymbol
<1>11. CASE ApplyInlineRename
  <2> DEFINE f == box.file
             old == IdentifierAt(text[f], box.column)
  <2>1. /\ box # NoBox /\ box' = NoBox /\ UNCHANGED <<text, open, offers>>
        /\ \E reach \in SUBSET File, seen \in Held(f) :
            sent' = sent \cup
                {[origin |-> f, name |-> old,
                  edits |-> [g \in File |-> IF g \in reach THEN Occurrences(seen[g], old) ELSE {}]]}
    BY <1>11 DEF ApplyInlineRename
  <2>2. f \in File /\ old # <<>>
    BY <1>0, <2>1 DEF IInv, BoxIsOnItsSymbol
  <2> HIDE DEF f, old
  <2>3. \A r \in sent' : r.origin \in File /\ r.name # <<>> /\ DOMAIN r.edits = File
    BY <1>0, <2>1, <2>2 DEF Requests
  <2> QED
    BY <1>0, <2>1, <2>3 DEF IInv, TypeOK, Requests, BoxIsOnItsSymbol
<1>12. CASE UNCHANGED vars
  BY <1>0, <1>12 DEF vars, IInv, TypeOK, Requests, BoxIsOnItsSymbol
<1>13. CASE Next
  BY <1>1, <1>2, <1>3, <1>4, <1>5, <1>6, <1>7, <1>8, <1>9, <1>10, <1>11, <1>13 DEF Next
<1> QED
  BY <1>12, <1>13

\* The invariant holds throughout.
LEMMA AlwaysIInv == Spec => []IInv
PROOF
  BY InitIInv, StepKeepsIInv, PTL DEF Spec

\* TypeOK: what is asked always has a name and an open or known file, and the
\* box and the fixes go with their editor.
THEOREM Typing == Spec => []TypeOK
PROOF
<1>1. IInv => TypeOK
  BY DEF IInv
<1> QED
  BY <1>1, AlwaysIInv, PTL

\* BoxIsOnItsSymbol: for any texts and edits, Enter in the box renames the
\* symbol that it came up with.
THEOREM BoxSafety == Spec => []BoxIsOnItsSymbol
PROOF
<1>1. IInv => BoxIsOnItsSymbol
  BY DEF IInv
<1> QED
  BY <1>1, AlwaysIInv, PTL

-----------------------------------------------------------------------------
(* Texts stay texts, and ranges stay such that they can be applied *)

\* A request never asks for the name that the symbol has, its ranges are
\* apart, and a fix is made of ranges of the text that it keeps.
TextsInv ==
    /\ \A f \in File : text[f] \in Seq(Char)
    /\ \A r \in sent : r.name # NewName /\ \A g \in File : CanBeApplied(r.edits[g])
    /\ \A o \in offers :
        /\ o.content \in Seq(Char) /\ AreApart(o.content, o.edits[o.file])
        /\ \A g \in File : CanBeApplied(o.edits[g])

\* The invariant holds at the start.
LEMMA InitTexts == Init => TextsInv
PROOF
  BY TextsAssumption DEF Init, TextsInv

\* The ranges of a fix lie apart in the text that it was made for.
LEMMA FixesAreApart ==
    ASSUME NEW u \in Seq(Char), NEW edits \in FixesOf(u)
    PROVE  AreApart(u, edits) /\ CanBeApplied(edits)
PROOF
<1>1. AreApart(u, edits)
  BY EditsAssumption DEF FixesOf, AreApart, Span
<1> QED
  BY <1>1, ApartCanBeApplied

\* The ranges of a symbol lie apart in the text they were found in.
LEMMA PlacesCanBeApplied ==
    ASSUME NEW u \in Seq(Char), NEW name, name # <<>>
    PROVE  CanBeApplied(Occurrences(u, name))
PROOF
<1>1. \A e \in Occurrences(u, name) : IsPlaced(u, e)
  BY PlaceOfName
<1>2. AreApart(u, Occurrences(u, name))
  BY <1>1, OccurrencesAreApart
<1> QED
  BY <1>2, ApartCanBeApplied

\* Whatever the server holds of a file is a text.
LEMMA HeldAreTexts ==
    ASSUME IInv, TextsInv, NEW f \in File, NEW seen \in Held(f)
    PROVE  /\ \A g \in File : seen[g] \in Seq(Char)
           /\ seen[f] = text[f]
PROOF
  BY TextsAssumption DEF Held, TextsInv

\* What applying edits makes of each file.
LEMMA AppliedTexts ==
    ASSUME IInv, NEW edits, NEW name, NEW origin, ApplyTextEdits(edits, name, origin)
    PROVE  \A f \in File :
               \/ text'[f] = text[f] /\ f \notin open
               \/ text'[f] = EditedText(text[f], edits[f], IF f \notin open \/ f = origin THEN name ELSE <<>>)
PROOF
<1>1. PICK failed \in SUBSET (File \ open) :
        text' = [f \in File |->
                        IF f \notin open THEN ApplyEditsToClosedFile(f, edits, name, failed)
                        ELSE EditedText(text[f], edits[f], IF f = origin THEN name ELSE <<>>)]
  BY DEF ApplyTextEdits
<1> QED
  BY <1>1 DEF ApplyEditsToClosedFile

\* Applied edits leave texts.
LEMMA AppliedAreTexts ==
    ASSUME IInv, TextsInv, NEW edits, NEW name, NEW origin, ApplyTextEdits(edits, name, origin),
           \A g \in File : CanBeApplied(edits[g])
    PROVE  \A f \in File : text'[f] \in Seq(Char)
PROOF
<1> TAKE f \in File
<1>1. text[f] \in Seq(Char) /\ CanBeApplied(edits[f])
  BY DEF TextsInv
<1>2. text'[f] = text[f] \/ \E n : text'[f] = EditedText(text[f], edits[f], n)
  BY AppliedTexts
<1> QED
  BY <1>1, <1>2, EditedIsText

\* The invariant is inductive.
LEMMA StepKeepsTexts == IInv /\ TextsInv /\ [Next]_vars => TextsInv'
PROOF
<1> SUFFICES ASSUME IInv, TextsInv, [Next]_vars PROVE TextsInv'
  OBVIOUS
<1>0. /\ DOMAIN text = File /\ open \subseteq File
      /\ box = NoBox \/ (box.file \in open /\ box.name # <<>>)
  BY DEF IInv, TypeOK
<1>1. ASSUME NEW f \in File, NEW column \in 0..Len(text[f]), RequestRename(f, column) PROVE TextsInv'
  BY <1>1 DEF RequestRename, TextsInv
<1>2. ASSUME NEW f \in File, NEW t \in Texts, Write(f, t) PROVE TextsInv'
  <2>1. text' = [text EXCEPT ![f] = t] /\ UNCHANGED <<sent, offers>>
    BY <1>2 DEF Write
  <2>2. t \in Seq(Char)
    BY TextsAssumption
  <2> QED
    BY <1>0, <2>1, <2>2 DEF TextsInv
<1>3. ASSUME NEW f \in File, OfferFix(f) PROVE TextsInv'
  <2>1. PICK seen \in Held(f), edits \in [File -> SUBSET FixSpans] :
            /\ \A g \in File : edits[g] \in FixesOf(seen[g])
            /\ offers' = offers \cup {[file |-> f, content |-> text[f], edits |-> edits]}
    BY <1>3 DEF OfferFix
  <2>2. UNCHANGED <<text, sent>>
    BY <1>3 DEF OfferFix
  <2>3. \A g \in File : AreApart(seen[g], edits[g]) /\ CanBeApplied(edits[g])
    BY <2>1, HeldAreTexts, FixesAreApart
  <2>4. text[f] \in Seq(Char) /\ AreApart(text[f], edits[f])
    BY <2>3, HeldAreTexts DEF TextsInv
  <2> QED
    BY <2>1, <2>2, <2>3, <2>4 DEF TextsInv
<1>4. ASSUME NEW f \in File, OpenEditor(f) PROVE TextsInv'
  BY <1>4 DEF OpenEditor, TextsInv
<1>5. ASSUME NEW f \in File, CloseEditor(f) PROVE TextsInv'
  BY <1>5 DEF CloseEditor, TextsInv
<1>6. ASSUME NEW r \in sent, Renamed(r) PROVE TextsInv'
  <2>1. ApplyTextEdits(r.edits, r.name, r.origin) /\ sent' = sent \ {r} /\ offers' = offers
    BY <1>6 DEF Renamed
  <2>2. \A f \in File : text'[f] \in Seq(Char)
    BY <2>1, AppliedAreTexts DEF TextsInv
  <2> QED
    BY <2>1, <2>2 DEF TextsInv
<1>7. ASSUME NEW r \in sent, RenameFails(r) PROVE TextsInv'
  BY <1>7 DEF RenameFails, TextsInv
<1>8. ASSUME NEW o \in offers, ApplyCodeAction(o) PROVE TextsInv'
  <2>1. /\ offers' = offers \ {o} /\ sent' = sent
        /\ ApplyTextEdits(o.edits, <<>>, o.file) \/ UNCHANGED <<text, open, box>>
    BY <1>8 DEF ApplyCodeAction
  <2>2. \A f \in File : text'[f] \in Seq(Char)
    BY <2>1, AppliedAreTexts DEF TextsInv
  <2> QED
    BY <2>1, <2>2 DEF TextsInv
<1>9. ASSUME NEW o \in offers, DropFix(o) PROVE TextsInv'
  BY <1>9 DEF DropFix, TextsInv
<1>10. CASE HideInlineRename
  BY <1>10 DEF HideInlineRename, TextsInv
<1>11. CASE ApplyInlineRename
  <2> DEFINE f == box.file
             old == IdentifierAt(text[f], box.column)
  <2>1. /\ box # NoBox /\ NewName # old /\ UNCHANGED <<text, open, offers>>
        /\ \E reach \in SUBSET File, seen \in Held(f) :
            sent' = sent \cup
                {[origin |-> f, name |-> old,
                  edits |-> [g \in File |-> IF g \in reach THEN Occurrences(seen[g], old) ELSE {}]]}
    BY <1>11 DEF ApplyInlineRename
  <2>2. f \in File /\ old # <<>>
    BY <1>0, <2>1 DEF IInv, BoxIsOnItsSymbol
  <2> HIDE DEF f, old
  <2>3. PICK reach \in SUBSET File, seen \in Held(f) :
            sent' = sent \cup
                {[origin |-> f, name |-> old,
                  edits |-> [g \in File |-> IF g \in reach THEN Occurrences(seen[g], old) ELSE {}]]}
    BY <2>1
  <2>4. \A g \in File : CanBeApplied(Occurrences(seen[g], old))
    BY <2>2, HeldAreTexts, PlacesCanBeApplied
  <2>5. CanBeApplied({})
    <3>1. 0 \in Nat
      OBVIOUS
    <3> QED
      BY <3>1 DEF CanBeApplied
  <2>6. ASSUME NEW r \in sent' PROVE r.name # NewName /\ \A g \in File : CanBeApplied(r.edits[g])
    <3>1. CASE r \in sent
      BY <3>1 DEF TextsInv
    <3>2. CASE r \notin sent
      <4>1. /\ r.name = old
            /\ r.edits = [g \in File |-> IF g \in reach THEN Occurrences(seen[g], old) ELSE {}]
        BY <2>3, <3>2
      <4>2. \A g \in File : r.edits[g] = Occurrences(seen[g], old) \/ r.edits[g] = {}
        BY <4>1
      <4> QED
        BY <2>1, <2>4, <2>5, <4>1, <4>2
    <3> QED
      BY <3>1, <3>2
  <2> QED
    BY <2>1, <2>6 DEF TextsInv
<1>12. CASE UNCHANGED vars
  BY <1>12 DEF vars, TextsInv
<1>13. CASE Next
  BY <1>1, <1>2, <1>3, <1>4, <1>5, <1>6, <1>7, <1>8, <1>9, <1>10, <1>11, <1>13 DEF Next
<1> QED
  BY <1>12, <1>13

\* The invariant holds throughout.
LEMMA AlwaysTexts == Spec => [](IInv /\ TextsInv)
PROOF
<1>1. Init => IInv /\ TextsInv
  BY InitIInv, InitTexts
<1>2. IInv /\ TextsInv /\ [Next]_vars => (IInv /\ TextsInv)'
  BY StepKeepsIInv, StepKeepsTexts
<1> QED
  BY <1>1, <1>2, PTL DEF Spec

-----------------------------------------------------------------------------
(* What renames and fixes do to the files *)

\* RenamesAreExact: for any files, texts, names and answers, the reply to a
\* rename changes the file it was started in, and a closed file, only where
\* the symbol is, and there in all of its ranges.
THEOREM RenamesExact == Spec => RenamesAreExact
PROOF
<1>1. ASSUME IInv, TextsInv, NEW r \in sent, Renamed(r), NEW f \in {r.origin} \cup (File \ open),
             text'[f] # text[f]
      PROVE  /\ text'[f] = AtOnce(text[f], r.edits[f])
             /\ \A e \in r.edits[f] : Covers(text[f], e, r.name)
  <2>1. f \in File /\ r.name # <<>> /\ text[f] \in Seq(Char) /\ CanBeApplied(r.edits[f])
    BY <1>1 DEF IInv, TypeOK, TextsInv
  <2>2. ApplyTextEdits(r.edits, r.name, r.origin)
    BY <1>1 DEF Renamed
  <2>3. text'[f] = EditedText(text[f], r.edits[f], r.name)
    BY <1>1, <2>1, <2>2, AppliedTexts
  <2>4. text'[f] = ApplyRenameEdits(text[f], r.edits[f], r.name)
    BY <2>1, <2>3 DEF EditedText
  <2> QED
    BY <1>1, <2>1, <2>4, RenameIsAllOrNothing
<1>2. IInv /\ TextsInv =>
        (\A r \in sent : Renamed(r) =>
            \A f \in {r.origin} \cup (File \ open) :
                text'[f] # text[f] =>
                    /\ text'[f] = AtOnce(text[f], r.edits[f])
                    /\ \A e \in r.edits[f] : Covers(text[f], e, r.name))
  BY <1>1
<1> QED
  BY <1>2, AlwaysTexts, PTL DEF RenamesAreExact

\* RenamesAreComplete: with a new name that is made of letters, a reply with
\* every place of the symbol in an editor leaves none of them.
THEOREM RenamesComplete == NewName \in Seq(Ident) => (Spec => RenamesAreComplete)
PROOF
<1>1. ASSUME NewName \in Seq(Ident), IInv, TextsInv, NEW r \in sent, Renamed(r), NEW f \in open,
             r.edits[f] = Occurrences(text[f], r.name)
      PROVE  Occurrences(text'[f], r.name) = {}
  <2>1. /\ f \in File /\ r.name # <<>> /\ r.name # NewName
        /\ text[f] \in Seq(Char) /\ CanBeApplied(r.edits[f])
    BY <1>1 DEF IInv, TypeOK, TextsInv
  <2>2. ApplyTextEdits(r.edits, r.name, r.origin)
    BY <1>1 DEF Renamed
  <2>3. \E n \in {r.name, <<>>} : text'[f] = EditedText(text[f], r.edits[f], n)
    BY <1>1, <2>1, <2>2, AppliedTexts
  <2>4. \A e \in r.edits[f] : Covers(text[f], e, r.name)
    BY <1>1, <2>1, PlaceOfName DEF Covers
  <2>5. AreApart(text[f], r.edits[f])
    BY <2>1, <2>4 DEF CanBeApplied, AreApart, Covers
  <2>6. /\ ApplyRenameEdits(text[f], r.edits[f], r.name) = AtOnce(text[f], r.edits[f])
        /\ ApplyEdits(text[f], r.edits[f]) = AtOnce(text[f], r.edits[f])
    BY <2>1, <2>4, <2>5, RenameIsAllOrNothing, AppliedAtOnce
  <2>7. text'[f] = AtOnce(text[f], r.edits[f])
    BY <2>1, <2>3, <2>6 DEF EditedText
  <2> QED
    BY <1>1, <2>1, <2>7, NoPlaceLeft
<1>2. NewName \in Seq(Ident) /\ IInv /\ TextsInv =>
        (\A r \in sent : Renamed(r) =>
            \A f \in open : r.edits[f] = Occurrences(text[f], r.name)
                                => Occurrences(text'[f], r.name) = {})
  BY <1>1
<1>3. ASSUME NewName \in Seq(Ident) PROVE Spec => RenamesAreComplete
  <2>1. IInv /\ TextsInv =>
        (\A r \in sent : Renamed(r) =>
            \A f \in open : r.edits[f] = Occurrences(text[f], r.name)
                                => Occurrences(text'[f], r.name) = {})
    BY <1>2, <1>3
  <2> QED
    BY <2>1, AlwaysTexts, PTL DEF RenamesAreComplete
<1> QED
  BY <1>3

\* FixesAreExact: a fix that is applied changes the file it was asked for as
\* the server meant it, in all of its ranges and nowhere else.
THEOREM FixesExact == Spec => FixesAreExact
PROOF
<1>1. ASSUME IInv, TextsInv, NEW o \in offers, ApplyCodeAction(o), o.content # <<>>, text' # text
      PROVE  text'[o.file] = AtOnce(o.content, o.edits[o.file])
  <2>1. /\ o.file \in open /\ o.file \in File /\ o.content \in Seq(Char)
        /\ AreApart(o.content, o.edits[o.file])
    BY <1>1 DEF IInv, TypeOK, TextsInv
  <2>2. text[o.file] = o.content /\ ApplyTextEdits(o.edits, <<>>, o.file)
    BY <1>1 DEF ApplyCodeAction
  <2>3. text'[o.file] = EditedText(text[o.file], o.edits[o.file], <<>>)
    BY <1>1, <2>1, <2>2, AppliedTexts
  <2>4. text'[o.file] = ApplyEdits(o.content, o.edits[o.file])
    BY <2>2, <2>3 DEF EditedText
  <2> QED
    BY <2>1, <2>4, AppliedAtOnce
<1>2. IInv /\ TextsInv =>
        (\A o \in offers : ApplyCodeAction(o) /\ o.content # <<>> /\ text' # text =>
            text'[o.file] = AtOnce(o.content, o.edits[o.file]))
  BY <1>1
<1> QED
  BY <1>2, AlwaysTexts, PTL DEF FixesAreExact
=============================================================================
