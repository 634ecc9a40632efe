---------------------------- MODULE MC_LspSync ----------------------------
(* Instances of LspSync for TLC: where the projects lie around the files.  *)
EXTENDS LspSync, TLC

CONSTANTS f1, f2, outer, inner, a, b

\* Every file in the one project.
OneProject == [f \in Files |-> {outer}]

\* f1 in one project and f2 in another.
SiblingProjects == f1 :> {inner} @@ f2 :> {outer}

PathLength == [r \in Roots |-> IF r = outer THEN 1 ELSE 2]
=============================================================================
