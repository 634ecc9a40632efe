-------------------------- MODULE SharedDocuments --------------------------
(***************************************************************************)
(* What document synchronisation promises to those who ask a language      *)
(* server: its copy of a document that is being edited is only ever        *)
(* replaced by the text of the editor, or lost with the server, and a      *)
(* question about a text is answered from that very text.  Which documents *)
(* were sent when, the debounce and the projects are not seen from here.   *)
(***************************************************************************)
CONSTANTS
    Doc,
    Text,
    Empty,          \* the text of a document without an editor
    NoDoc           \* the server has no copy

VARIABLES
    open,           \* documents with an editor
    text,           \* text[d]: what the editor shows
    copy,           \* copy[d]: what the server answers from
    asked           \* questions, with the text they are about

vars == <<open, text, copy, asked>>

Init ==
    /\ open = {}
    /\ text = [d \in Doc |-> Empty]
    /\ copy = [d \in Doc |-> NoDoc]
    /\ asked = {}

Open(d) ==
    /\ d \notin open
    /\ open' = open \cup {d}
    /\ UNCHANGED <<text, copy, asked>>

Close(d) ==
    /\ d \in open
    /\ open' = open \ {d}
    /\ text' = [text EXCEPT ![d] = Empty]
    /\ UNCHANGED <<copy, asked>>

\* Texts change: by typing and loading, or several by one workspace edit, of
\* which the server is told where there is no editor to tell it.
Write(new) ==
    /\ text' = [d \in Doc |-> IF d \in DOMAIN new \cap open THEN new[d] ELSE text[d]]
    /\ \E told \in SUBSET (DOMAIN new \ open) :
        copy' = [d \in Doc |-> IF d \in told THEN new[d] ELSE copy[d]]
    /\ UNCHANGED <<open, asked>>

\* The server is told what some editors show.
Tell(told) ==
    /\ copy' = [d \in Doc |-> IF d \in told THEN text[d] ELSE copy[d]]
    /\ UNCHANGED <<open, text, asked>>

\* The server is told that documents were closed.
Forget(gone) ==
    /\ copy' = [d \in Doc |-> IF d \in gone THEN NoDoc ELSE copy[d]]
    /\ UNCHANGED <<open, text, asked>>

\* The servers are replaced; questions are dropped.
Restart(told) ==
    /\ copy' = [d \in Doc |-> IF d \in told THEN text[d] ELSE NoDoc]
    /\ asked' = {}
    /\ UNCHANGED <<open, text>>

\* A question, answered from the text it is about; about an empty text, it may
\* be answered from the copy that there was.
Ask(d) ==
    /\ d \in open
    /\ \E held \in {text[d], copy[d]} :
        /\ text[d] # Empty => held = text[d]
        /\ copy' = [copy EXCEPT ![d] = held]
        /\ asked' = asked \cup {[doc |-> d, about |-> text[d], held |-> held]}
    /\ UNCHANGED <<open, text>>

Answer(q) ==
    /\ asked' = asked \ {q}
    /\ UNCHANGED <<open, text, copy>>

Next ==
    \/ \E d \in Doc : Open(d) \/ Close(d) \/ Ask(d)
    \/ \E D \in SUBSET Doc : \E new \in [D -> Text] : Write(new)
    \/ \E told \in SUBSET open : Tell(told) \/ Restart(told)
    \/ \E gone \in SUBSET (Doc \ open) : Forget(gone)
    \/ \E q \in asked : Answer(q)

Spec == Init /\ [][Next]_vars
=============================================================================
