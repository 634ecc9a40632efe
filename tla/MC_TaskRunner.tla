--------------------------- MODULE MC_TaskRunner ---------------------------
(* An instance of TaskRunner for TLC. *)
EXTENDS TaskRunner

CONSTANTS p, q

\* The file of p may be removed or refused, that of q stays as it is.
TwoProjects ==
    (p :> {[tasks |-> <<"other", "build">>, active |-> 0], Missing, Broken})
    @@ (q :> {[tasks |-> <<"empty", "build">>, active |-> 2]})

\* p has a build system that can be recognised, q has none.
OneBuildSystem ==
    [d \in Projects |->
        [tasks |-> IF d = p THEN <<"build">> ELSE <<>>,
         active |-> 0, targets |-> FALSE, auto |-> TRUE, file |-> FALSE]]
=============================================================================
