------------------------------ MODULE OpenTabs ------------------------------
(***************************************************************************)
(* What the tab area promises to the rest of the window, whatever is done  *)
(* with its splits: tabs are opened one at a time and are closed one at a  *)
(* time; everything else only arranges them; and the main window shows the *)
(* menus of at most one of the open tabs, the new one when one is opened.  *)
(***************************************************************************)
EXTENDS FiniteSets

CONSTANT Tab        \* the clients that can be opened

VARIABLES
    open,           \* the tabs that are open
    menus           \* the tabs whose menus the main window shows

vars == <<open, menus>>

AtMostOneOf(S) == {{}} \cup {{t} : t \in S}

Init ==
    /\ open = {}
    /\ menus = {}

Open(t) ==
    /\ t \notin open
    /\ open' = open \cup {t}
    /\ menus' = {t}

Close(t) ==
    /\ t \in open
    /\ open' = open \ {t}
    /\ menus' \in AtMostOneOf(open')

\* Tabs are moved, shown or focused.
Arrange ==
    /\ UNCHANGED open
    /\ menus' \in AtMostOneOf(open)

\* The window is closed and the program started again.
Quit ==
    /\ open' = {}
    /\ menus' = {}

Next ==
    \/ \E t \in Tab : Open(t) \/ Close(t)
    \/ Arrange
    \/ Quit

Spec == Init /\ [][Next]_vars
=============================================================================
