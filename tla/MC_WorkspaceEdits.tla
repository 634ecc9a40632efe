------------------------- MODULE MC_WorkspaceEdits --------------------------
(* Instances of WorkspaceEdits for TLC. *)
EXTENDS WorkspaceEdits

Letters == {"a", "b"}

\* Two places of a symbol, one of them in its last column; another symbol; nothing.
Lines == {<<"a", ".", "a">>, <<".", "a">>, <<"a", "a">>, <<>>}

Longer == <<"b", "b">>

\* The first letter, and an insertion behind it.
TwoSpans == {[from |-> 0, to |-> 1], [from |-> 2, to |-> 2]}

Files == {"main", "header"}
=============================================================================
