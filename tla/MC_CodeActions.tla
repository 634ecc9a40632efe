-------------------------- MODULE MC_CodeActions --------------------------
(* An instance of CodeActions for TLC. *)
EXTENDS CodeActions, TLC

CONSTANTS a, b

\* The first line of a and the second line of b can be fixed.
OneFixEach == [t \in Texts |-> CASE t = a -> {1} [] t = b -> {2} [] OTHER -> {}]
=============================================================================
