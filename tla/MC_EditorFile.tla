--------------------------- MODULE MC_EditorFile ---------------------------
(* Instances of EditorFile for TLC. *)
EXTENDS EditorFile, TLC

CONSTANTS a, b, u1, u2, u3

\* Nothing is trimmed.
Verbatim == [t \in Texts |-> t]

\* b is a with a trailing space.
Trimming == [t \in Texts |-> IF t = b THEN a ELSE t]

\* Backup names are interchangeable.
NameSymmetry == Permutations(Uids)
=============================================================================
