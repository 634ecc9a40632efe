--------------------------- MODULE WorkspaceEdits ---------------------------
(***************************************************************************)
(* Renaming a symbol and applying a fix: the name is typed in a box over   *)
(* the text, the language server answers later with ranges in one or more  *)
(* files, and the ranges are applied to the open editors and to the closed *)
(* files, whatever was typed or written there since.                       *)
(*                                                                         *)
(* A document is one line, a sequence of characters, and a position is an  *)
(* offset into it, 0-based as in the protocol.  A file that is not open is *)
(* its text on the disk; closing an editor leaves the text as it is.       *)
(* What the server holds of each file is LspSync's matter: it is sent the  *)
(* text of the file it is asked about first (or the request is dropped),   *)
(* and may hold any other text of the other files.                         *)
(***************************************************************************)
EXTENDS Naturals, FiniteSets, SequencesExt

CONSTANTS
    File,
    Ident,          \* the characters of identifiers
    Texts,          \* what is typed into editors, and written by programs
    NewName,        \* the name typed into the box, and the text of fixes
    FixSpans,       \* the ranges that fixes are made of
    NoFile,
    MaxAsked,       \* bound: renames in flight and fixes offered
    MaxLen          \* bound: the length of the texts while the server is asked

ASSUME EditsAssumption ==
    /\ NoFile \notin File
    /\ NewName # <<>>
    /\ FixSpans \subseteq [from : Nat, to : Nat]

\* What a text is made of.
Char == UNION {Range(t) : t \in Texts \cup {NewName}}

ASSUME TextsAssumption == Texts \cup {NewName} \subseteq Seq(Char)

VARIABLES
    text,       \* text[f]: the editor's, or the file's when it is not open
    open,       \* files with an editor
    box,        \* the inline rename box: where it is, and the name it came up with
    sent,       \* renames whose replies are still to be applied
    offers      \* fixes that a menu offers, with the text they were made for

vars == <<text, open, box, sent, offers>>

NoBox == [file |-> NoFile, column |-> 0, name |-> <<>>]

-----------------------------------------------------------------------------
(* Positions and identifiers *)

\* identifierAt: the letters around the column.
IdentifierAt(t, column) ==
    LET Joined(i, j) == \A k \in i + 1..j : t[k] \in Ident
        start == CHOOSE i \in 0..column : Joined(i, column) /\ \A k \in 0..i : Joined(k, column) => k = i
        end == CHOOSE j \in column..Len(t) : Joined(column, j) /\ \A k \in j..Len(t) : Joined(column, k) => k = j
    IN  SubSeq(t, start + 1, end)

\* Mutant: a range must end before the end of the line.
InsideLine(t, e) == e.from <= e.to /\ e.to < Len(t)

\* positionOf accepts both ends, the one just behind the line included.
IsPlaced(t, e) == e.from <= e.to /\ e.to <= Len(t)

Replace(t, e) == SubSeq(t, 1, e.from) \o NewName \o SubSeq(t, e.to + 1, Len(t))

Covers(t, e, name) == IsPlaced(t, e) /\ SubSeq(t, e.from + 1, e.to) = name

\* The order that applyTextEdits sorts the ranges of a file into.
BottomUp(edits) ==
    CHOOSE s \in SetToSeqs(edits) : \A i, j \in DOMAIN s : i < j => s[i].from >= s[j].from

\* applyEdits: a range that is not in the document is skipped.
ApplyEdits(t, edits) ==
    FoldLeft(LAMBDA u, e : IF IsPlaced(u, e) THEN Replace(u, e) ELSE u, t, BottomUp(edits))

\* Mutant: ranges that do not cover the name are skipped.
ApplyWhatFits(t, edits, name) ==
    FoldLeft(Replace, t, BottomUp({e \in edits : Covers(t, e, name)}))

\* applyRenameEdits: every range covers the name, or nothing is written.
ApplyRenameEdits(t, edits, name) ==
    IF \A e \in edits : Covers(t, e, name) THEN FoldLeft(Replace, t, BottomUp(edits)) ELSE t

-----------------------------------------------------------------------------
(* What the language server answers *)

\* The ranges of the identifier name in t.
Occurrences(t, name) ==
    {e \in [from : 0..Len(t), to : 0..Len(t)] :
        e.from < e.to /\ SubSeq(t, e.from + 1, e.to) = name /\ IdentifierAt(t, e.from) = name}

\* The ranges a fix may replace in t: apart, and distinct at the start.
FixesOf(t) ==
    {edits \in SUBSET FixSpans :
        /\ \A e \in edits : IsPlaced(t, e)
        /\ \A d, e \in edits : d # e => d.from # e.from /\ (d.to <= e.from \/ e.to <= d.from)}

\* The texts the server may hold when it is asked about f.
Held(f) == {seen \in [File -> Texts \cup Range(text)] :
                /\ seen[f] = text[f]
                /\ \A g \in File : seen[g] \in Texts \cup {text[g]}}

MayAsk ==
    /\ Cardinality(sent) + Cardinality(offers) < MaxAsked
    /\ \A f \in File : Len(text[f]) <= MaxLen

-----------------------------------------------------------------------------
(* The box *)

\* Mutant: the box stays when the text under it changes.
HiddenNever(changed) == box

\* contentsChange of the document under the box hides it.
HiddenBy(changed) == IF box # NoBox /\ box.file \in changed THEN NoBox ELSE box

\* Mutant: no test for an empty name.
RequestRenameAnywhere(f, column) ==
    /\ f \in open
    /\ box' = [file |-> f, column |-> column, name |-> IdentifierAt(text[f], column)]
    /\ UNCHANGED <<text, open, sent, offers>>

RequestRename(f, column) ==
    /\ f \in open
    /\ IdentifierAt(text[f], column) # <<>>
    /\ box' = [file |-> f, column |-> column, name |-> IdentifierAt(text[f], column)]
    /\ UNCHANGED <<text, open, sent, offers>>

\* Escape, a moved caret, the focus gone, a name not changed; a rename that
\* cannot be sent, because the server cannot be given the text.
HideInlineRename ==
    /\ box # NoBox
    /\ box' = NoBox
    /\ UNCHANGED <<text, open, sent, offers>>

\* Enter: the server is given the text before it is asked.  The files that
\* the symbol reaches are its to say.
ApplyInlineRename ==
    LET f == box.file
        old == IdentifierAt(text[f], box.column)
    IN  /\ box # NoBox /\ MayAsk
        /\ NewName # old
        /\ \E reach \in SUBSET File, seen \in Held(f) :
            /\ f \in reach
            /\ sent' = sent \cup
                {[origin |-> f, name |-> old,
                  edits |-> [g \in File |-> IF g \in reach THEN Occurrences(seen[g], old) ELSE {}]]}
        /\ box' = NoBox
        /\ UNCHANGED <<text, open, offers>>

-----------------------------------------------------------------------------
(* Applying *)

\* qmdiEditor::applyTextEdits, lspTextEdit::apply
EditedText(t, edits, name) ==
    IF name = <<>> THEN ApplyEdits(t, edits) ELSE ApplyRenameEdits(t, edits, name)

\* A closed file may fail to be read or written.
ApplyEditsToClosedFile(f, edits, name, failed) ==
    IF f \in failed THEN text[f] ELSE EditedText(text[f], edits[f], name)

\* The name is checked in the file of origin and in the closed files; other
\* editors are edited on the plain path.
ApplyTextEdits(edits, name, origin) ==
    \E failed \in SUBSET (File \ open) :
        LET new == [f \in File |->
                        IF f \notin open THEN ApplyEditsToClosedFile(f, edits, name, failed)
                        ELSE EditedText(text[f], edits[f], IF f = origin THEN name ELSE <<>>)]
        IN  /\ text' = new
            /\ box' = HiddenBy({f \in File : new[f] # text[f]})
            /\ UNCHANGED open

\* The reply to a rename is applied.
Renamed(r) ==
    /\ ApplyTextEdits(r.edits, r.name, r.origin)
    /\ sent' = sent \ {r}
    /\ UNCHANGED offers

\* The reply is an error.
RenameFails(r) ==
    /\ sent' = sent \ {r}
    /\ UNCHANGED <<text, open, box, offers>>

\* The server offers a fix for the text it was asked about; it is held until
\* others take its place.
OfferFix(f) ==
    /\ f \in open /\ MayAsk
    /\ \E seen \in Held(f), edits \in [File -> SUBSET FixSpans] :
        /\ \A g \in File : edits[g] \in FixesOf(seen[g])
        /\ offers' = offers \cup {[file |-> f, content |-> text[f], edits |-> edits]}
    /\ UNCHANGED <<text, open, box, sent>>

DropFix(o) ==
    /\ offers' = offers \ {o}
    /\ UNCHANGED <<text, open, box, sent>>

\* Mutant: the text is not compared.
ApplyFixAnyway(o) ==
    /\ ApplyTextEdits(o.edits, <<>>, o.file)
    /\ offers' = offers \ {o}
    /\ UNCHANGED sent

\* handleApplyCodeAction: refused when the editor has another text, unless
\* the fix was made for an empty one.
ApplyCodeAction(o) ==
    /\ offers' = offers \ {o}
    /\ UNCHANGED sent
    /\ \/ /\ o.content = <<>> \/ text[o.file] = o.content
          /\ ApplyTextEdits(o.edits, <<>>, o.file)
       \/ /\ o.content # <<>> /\ text[o.file] # o.content
          /\ UNCHANGED <<text, open, box>>

-----------------------------------------------------------------------------
(* Everything else that happens *)

\* Typing, or a reload of an open file; another program, in a closed one.
Write(f, t) ==
    /\ t # text[f]
    /\ text' = [text EXCEPT ![f] = t]
    /\ box' = IF f \in open THEN HiddenBy({f}) ELSE box
    /\ UNCHANGED <<open, sent, offers>>

OpenEditor(f) ==
    /\ f \notin open
    /\ open' = open \cup {f}
    /\ UNCHANGED <<text, box, sent, offers>>

\* The box is a child of the editor, and the fixes are kept by it.
CloseEditor(f) ==
    /\ f \in open
    /\ open' = open \ {f}
    /\ box' = HiddenBy({f})
    /\ offers' = {o \in offers : o.file # f}
    /\ UNCHANGED <<text, sent>>

Init ==
    /\ text \in [File -> Texts]
    /\ open \in SUBSET File
    /\ box = NoBox
    /\ sent = {}
    /\ offers = {}

Next ==
    \/ \E f \in File :
        \/ \E column \in 0..Len(text[f]) : RequestRename(f, column)
        \/ \E t \in Texts : Write(f, t)
        \/ OfferFix(f) \/ OpenEditor(f) \/ CloseEditor(f)
    \/ \E r \in sent : Renamed(r) \/ RenameFails(r)
    \/ \E o \in offers : ApplyCodeAction(o) \/ DropFix(o)
    \/ HideInlineRename \/ ApplyInlineRename

Spec == Init /\ [][Next]_vars

-----------------------------------------------------------------------------
(* Properties *)

TypeOK ==
    /\ DOMAIN text = File
    /\ open \subseteq File
    /\ box = NoBox \/ (box.file \in open /\ box.name # <<>>)
    /\ \A r \in sent : r.origin \in File /\ r.name # <<>> /\ DOMAIN r.edits = File
    /\ \A o \in offers : o.file \in open /\ DOMAIN o.edits = File

\* While the box is up it is over the very symbol it was opened on: whatever
\* changes that text, or ends its editor, takes the box down.
BoxIsOnItsSymbol ==
    box # NoBox =>
        /\ box.column <= Len(text[box.file])
        /\ IdentifierAt(text[box.file], box.column) = box.name

\* All ranges replaced at once, each where it lies in t.
AtOnce(t, edits) ==
    FlattenSeq([i \in 1..Len(t) + 1 |->
        (IF \E e \in edits : e.from = i - 1 THEN NewName ELSE <<>>) \o
        (IF i > Len(t) \/ \E e \in edits : e.from < i /\ i <= e.to THEN <<>> ELSE <<t[i]>>)])

\* In the file a rename was started in, and in every closed file, the reply
\* replaces all of its ranges, each of them the symbol, or nothing at all:
\* however the text has changed since, it is never changed half or elsewhere.
RenamesAreExact ==
    [][\A r \in sent : Renamed(r) =>
        \A f \in {r.origin} \cup (File \ open) :
            text'[f] # text[f] =>
                /\ text'[f] = AtOnce(text[f], r.edits[f])
                /\ \A e \in r.edits[f] : Covers(text[f], e, r.name)]_vars

\* A reply that tells every place of the symbol in the text of an editor
\* leaves none of them, the one at the end of a line included.
RenamesAreComplete ==
    [][\A r \in sent : Renamed(r) =>
        \A f \in open : r.edits[f] = Occurrences(text[f], r.name)
                            => Occurrences(text'[f], r.name) = {}]_vars

\* A fix changes the file it was asked for as the server meant it: the text
\* it was made for, with all of its ranges replaced.
FixesAreExact ==
    [][\A o \in offers : ApplyCodeAction(o) /\ o.content # <<>> /\ text' # text =>
        text'[o.file] = AtOnce(o.content, o.edits[o.file])]_vars

\* A reply for another revision of a file cannot corrupt the file: where the
\* rename changes a text, each of its ranges was the symbol.
RepliesCannotCorrupt ==
    [][\A r \in sent : Renamed(r) =>
        \A f \in File : text'[f] # text[f] =>
            \A e \in r.edits[f] : Covers(text[f], e, r.name)]_vars
=============================================================================
