----------------------------- MODULE SymbolTrees -----------------------------
(***************************************************************************)
(* The contexts in which TreeSitterEngine keeps the parsed files.          *)
(*                                                                         *)
(* The workers of the scans of ScanQueue and the queries of the editors    *)
(* call the engine from threads of their own.  A parse and the walk of a   *)
(* tree run without the engine's mutex; what is done while it is held is   *)
(* one step.  A context lives as long as the table or a thread refers to   *)
(* it, but its tree goes as soon as one thread has walked it.              *)
(***************************************************************************)
EXTENDS Naturals

CONSTANTS
    Thread,     \* workers of scans, and queries
    File,       \* source files
    Ctx,        \* contexts: one for each file and each thread is enough
    NoCtx,      \* a file was never parsed, or a thread holds no context
    NoFile      \* a thread has nothing to do

VARIABLES
    job,        \* job[t]: the file a thread works on and how far it is
    context,    \* fileContexts
    walked,     \* contexts with symbolsValid, their trees deleted
    cancelFlag,
    crashed     \* a deleted tree was read, and the program ended

vars == <<job, context, walked, cancelFlag, crashed>>

Job   == [at : {"idle", "tip", "parse", "lookup", "walk"},
          file : File \cup {NoFile}, ctx : Ctx \cup {NoCtx}]
NoJob == [at |-> "idle", file |-> NoFile, ctx |-> NoCtx]

\* The contexts that the files of F or a thread of js refer to.
InUse(F, js) == {context[f] : f \in F} \cup {js[t].ctx : t \in Thread}

Init ==
    /\ job = [t \in Thread |-> NoJob]
    /\ context = [f \in File |-> NoCtx]
    /\ walked = {}
    /\ cancelFlag = FALSE /\ crashed = FALSE

\* A worker or a query begins on a text of f.  A tooltip ("tip") only parses it,
\* the others look its symbols up as well.
Begin(t, f, at) ==
    /\ ~crashed /\ job[t] = NoJob
    /\ job' = [job EXCEPT ![t] = [at |-> at, file |-> f, ctx |-> NoCtx]]
    /\ UNCHANGED <<context, walked, cancelFlag, crashed>>

\* updateFile(): a context with a tree of its own takes the place of the old one,
\* which is deleted with its tree unless a thread holds it; an aborted parse
\* leaves the table as it is.
UpdateFile(t) ==
    LET others == InUse(File \ {job[t].file}, job)
        new    == CHOOSE c \in Ctx : c \notin others
    IN  /\ ~crashed /\ job[t].at \in {"tip", "parse"}
        /\ job' = [job EXCEPT ![t] = IF @.at = "tip" THEN NoJob
                                     ELSE [@ EXCEPT !.at = "lookup"]]
        /\ \/ /\ context' = [context EXCEPT ![job[t].file] = new]
              /\ walked' = (walked \cap others) \ {new}
           \/ cancelFlag /\ UNCHANGED <<context, walked>>
        /\ UNCHANGED <<cancelFlag, crashed>>

\* getSymbols(), the mutex held at first: a valid context is answered from the
\* index, and an empty text has no symbols; else the context is kept for a walk.
LookUp(t) ==
    LET c == context[job[t].file]
    IN  /\ ~crashed /\ job[t].at = "lookup"
        /\ \/ /\ c # NoCtx /\ c \notin walked
              /\ job' = [job EXCEPT ![t].at = "walk", ![t].ctx = c]
           \/ job' = [job EXCEPT ![t] = NoJob]
        /\ UNCHANGED <<context, walked, cancelFlag, crashed>>

\* getSymbols(), the mutex held at last: the tree is deleted, its symbols replace
\* those of the file in the index.
KeepSymbols(t) ==
    /\ ~crashed /\ job[t].at = "walk"
    /\ job' = [job EXCEPT ![t] = NoJob]
    /\ walked' = (walked \cup {job[t].ctx}) \cap InUse(File, job')
    /\ UNCHANGED <<context, cancelFlag, crashed>>

\* Reading a deleted tree is undefined: it goes unnoticed, or ends the program.
ReadDeletedTree(t) ==
    /\ ~crashed /\ job[t].at = "walk" /\ job[t].ctx \in walked
    /\ crashed' = TRUE
    /\ UNCHANGED <<job, context, walked, cancelFlag>>

\* cancelParsing() and resetCancel(), called by the plugin.
Cancel(flag) ==
    /\ ~crashed /\ cancelFlag' = flag
    /\ UNCHANGED <<job, context, walked, crashed>>

Next ==
    \/ \E t \in Thread, f \in File, at \in {"tip", "parse"} : Begin(t, f, at)
    \/ \E t \in Thread :
           UpdateFile(t) \/ LookUp(t) \/ KeepSymbols(t) \/ ReadDeletedTree(t)
    \/ \E flag \in BOOLEAN : Cancel(flag)

Spec == Init /\ [][Next]_vars

-----------------------------------------------------------------------------
\* TreeSitterPlugin.cpp says that the engine's mutex serialises access against the
\* scan threads, so that a query may run beside them.  Then no thread walks a tree
\* that another one has deleted.
TreesOutliveTheirReaders ==
    \A t \in Thread : job[t].at = "walk" => job[t].ctx \notin walked
=============================================================================
