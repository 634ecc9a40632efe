----------------------------- MODULE SplitTabs -----------------------------
(***************************************************************************)
(* The tab area of the main window: a row of splits, each a tab widget.    *)
(* Tabs are opened, closed, dragged and moved between the splits, an       *)
(* emptied split deletes itself later, and the layout of the last session  *)
(* comes back while its files are opened again.                            *)
(*                                                                         *)
(* The order of the tabs inside a split is left out: home[t] says in which *)
(* split a tab lies, and where the code takes the neighbour of a tab the   *)
(* model takes any other tab of the split.  Everything runs on the GUI     *)
(* thread; a deferred deletion runs before the next event of the user.     *)
(* Keyboard focus may follow what was shown or stay (the window may be     *)
(* inactive), so Focus is a step of its own.                               *)
(***************************************************************************)
EXTENDS Naturals, FiniteSets, SequencesExt

CONSTANTS
    Tab,            \* clients, opened or not
    Split,          \* tab widgets
    NoTab,          \* no client
    NoSplit         \* no tab widget

ASSUME SplitAssumption ==
    /\ NoTab \notin Tab
    /\ NoSplit \notin Split
    /\ IsFiniteSet(Tab)

VARIABLES
    splits,     \* the tab widgets in the splitter, from left to right
    home,       \* home[t]: the split of t, NoSplit when t is not open
    shown,      \* shown[s]: the current tab of s
    cur,        \* currentTabWidget
    menu,       \* activeWidget, and the clients merged into the main window
    dying,      \* splits to be deleted by the event loop
    saved,      \* savedSplitCount
    layout      \* history: what saved was at the start, until something
                \* other than the opening of files happens

vars == <<splits, home, shown, cur, menu, dying, saved, layout>>
rowVars == <<splits, home, shown, dying>>

Live == Range(splits) \ dying
In(s) == {t \in Tab : home[t] = s}
Opened == {t \in Tab : home[t] # NoSplit}
Counts == [i \in 1..Len(splits) |-> Cardinality(In(splits[i]))]

\* The place of s in the row, 0 when it is not there.
At(row, s) == IF \E i \in 1..Len(row) : row[i] = s
              THEN CHOOSE i \in 1..Len(row) : row[i] = s
              ELSE 0

\* Every event of the user comes after the deletions that were posted.
Settled == dying = {}

-----------------------------------------------------------------------------
(* The menus of the main window *)

\* Mutant: no test for an active widget before the merge.
FocusedUnchecked(m, w) ==
    IF w = m.active THEN m
    ELSE [active |-> w, merged |-> (m.merged \ {m.active}) \cup {w}]

\* Mutant: the menus of the previous client stay.
FocusedOnTop(m, w) ==
    IF w = m.active THEN m
    ELSE [active |-> w, merged |-> m.merged \cup ({w} \ {NoTab})]

\* onTabFocusChanged(w, true)
Focused(m, w) ==
    IF w = m.active THEN m
    ELSE [active |-> w, merged |-> (m.merged \ {m.active}) \cup ({w} \ {NoTab})]

\* onTabFocusChanged(nullptr, false)
Unfocused(m) == [active |-> NoTab, merged |-> m.merged \ {m.active}]

\* Mutant: activeWidget is kept.
DeleteClientKeepingActive(m, t) == [active |-> m.active, merged |-> m.merged \ {t}]

DeleteClient(m, t) ==
    [active |-> IF m.active = t THEN NoTab ELSE m.active, merged |-> m.merged \ {t}]

\* updateCurrentTabWidget: the menus once s is current.
MadeCurrent(m, s) ==
    IF s # cur /\ shown[s] # NoTab THEN Focused(m, shown[s]) ELSE m

-----------------------------------------------------------------------------
(* What happens around a page that leaves its split *)

\* Mutant: the leftmost split stays the current one.
CloseSplitKeepingCurrent(s, m) ==
    LET i == At(splits, s) IN
    IF i > 1 THEN [cur |-> splits[i - 1], menu |-> MadeCurrent(m, splits[i - 1])]
    ELSE [cur |-> cur, menu |-> Unfocused(m)]

CloseSplitWithTabWidget(s, m) ==
    LET i == At(splits, s) IN
    IF i > 1 THEN [cur |-> splits[i - 1], menu |-> MadeCurrent(m, splits[i - 1])]
    ELSE [cur |-> NoSplit, menu |-> Unfocused(m)]

\* Mutant: every removal closes the split.
LeavesClosing(t, m) ==
    LET closed == CloseSplitWithTabWidget(home[t], m)
    IN  {[shown |-> NoTab, dying |-> {home[t]}, cur |-> closed.cur, menu |-> closed.menu]}

\* Mutant: only the current split is closed when it is empty.
LeavesClosingCurrent(t, m) ==
    LET s == home[t]
        rest == In(s) \ {t}
        Told(u) == IF s = cur THEN Focused(m, u) ELSE m
    IN  IF rest # {} THEN {[shown |-> u, dying |-> {}, cur |-> cur, menu |-> Told(u)] : u \in rest}
        ELSE IF s = cur THEN LeavesClosing(t, m)
        ELSE {[shown |-> NoTab, dying |-> {}, cur |-> cur, menu |-> m]}

\* The split that t leaves shows another of its tabs; the last one to leave
\* closes it.  A tab on the left of the current one renumbers it, which the
\* current split hears of as well.
Leaves(t, m) ==
    LET s == home[t]
        rest == In(s) \ {t}
        Stays(u, n) == [shown |-> u, dying |-> {}, cur |-> cur, menu |-> n]
        Told(u) == IF s = cur THEN Focused(m, u) ELSE m
    IN  IF rest = {}
        THEN LET closed == CloseSplitWithTabWidget(s, m)
             IN  {[shown |-> NoTab, dying |-> {s}, cur |-> closed.cur, menu |-> closed.menu]}
        ELSE IF t = shown[s] THEN {Stays(u, Told(u)) : u \in rest}
        ELSE {Stays(shown[s], m), Stays(shown[s], Told(shown[s]))}

-----------------------------------------------------------------------------
(* Opening *)

\* Mutant: a split is full with one tab more than were saved.
AddTabOneMore(t, s, row) ==
    LET i == At(row, s)
        full == i <= Len(saved) /\ Cardinality(In(s)) = saved[i]
    IN  /\ home' = [home EXCEPT ![t] = s]
        /\ menu' = Focused(menu, t)
        /\ IF full /\ Len(row) # Len(saved)
           THEN /\ \E new \in Split \ Range(row) :
                    /\ splits' = InsertAt(row, i + 1, new)
                    /\ shown' = [shown EXCEPT ![s] = t, ![new] = NoTab]
                    /\ cur' = new
                /\ UNCHANGED saved
           ELSE /\ splits' = row
                /\ shown' = [shown EXCEPT ![s] = t]
                /\ cur' = s
                /\ saved' = IF full \/ i > Len(saved) THEN <<>> ELSE saved
        /\ UNCHANGED dying

\* addTab: t goes to the end of s, in the row of splits that has s.
AddTab(t, s, row) ==
    LET i == At(row, s)
        full == i <= Len(saved) /\ Cardinality(In(s)) + 1 = saved[i]
    IN  /\ home' = [home EXCEPT ![t] = s]
        /\ menu' = Focused(menu, t)
        /\ \/ /\ full /\ Len(row) # Len(saved)
              /\ \E new \in Split \ Range(row) :
                    /\ splits' = InsertAt(row, i + 1, new)
                    /\ shown' = [shown EXCEPT ![s] = t, ![new] = NoTab]
                    /\ cur' = new
              /\ UNCHANGED saved
           \/ /\ ~(full /\ Len(row) # Len(saved))
              /\ splits' = row
              /\ shown' = [shown EXCEPT ![s] = t]
              /\ cur' = s
              /\ saved' = IF full \/ i > Len(saved) THEN <<>> ELSE saved
        /\ UNCHANGED dying

\* splitHorizontally: the new tab widget goes to the right of the current one.
SplitHorizontally(new) == InsertAt(splits, At(splits, cur) + 1, new)
New == Split \ Range(splits)

OpenFile(t) ==
    /\ Settled /\ home[t] = NoSplit
    /\ IF cur # NoSplit THEN AddTab(t, cur, splits)
       ELSE \E new \in New : AddTab(t, new, SplitHorizontally(new))
    /\ UNCHANGED layout

\* The new-file button of a split, a double click on its empty area.
OpenIn(t, s) ==
    /\ Settled /\ home[t] = NoSplit /\ s \in Live
    /\ AddTab(t, s, splits)
    /\ layout' = <<>>

\* "Split tabs"
SplitTab(t) ==
    /\ Settled /\ home[t] = NoSplit
    /\ \E new \in New : AddTab(t, new, SplitHorizontally(new))
    /\ layout' = <<>>

\* addClient with a position: next to a client of s.
OpenAt(t, s) ==
    /\ Settled /\ home[t] = NoSplit /\ In(s) # {}
    /\ home' = [home EXCEPT ![t] = s]
    /\ shown' = [shown EXCEPT ![s] = t]
    /\ menu' = Focused(menu, t)
    /\ layout' = <<>>
    /\ UNCHANGED <<splits, cur, dying, saved>>

-----------------------------------------------------------------------------
(* Closing *)

CloseTab(t) ==
    /\ Settled /\ home[t] # NoSplit
    /\ \E left \in Leaves(t, DeleteClient(menu, t)) :
        /\ shown' = [shown EXCEPT ![home[t]] = left.shown]
        /\ dying' = left.dying
        /\ cur' = left.cur
        /\ menu' = left.menu
    /\ home' = [home EXCEPT ![t] = NoSplit]
    /\ layout' = <<>>
    /\ UNCHANGED <<splits, saved>>

\* The deferred deletion: whatever is still in the split goes with it, and a
\* client that is destroyed leaves its server.
Delete(s) ==
    /\ s \in dying
    /\ splits' = RemoveAt(splits, At(splits, s))
    /\ dying' = dying \ {s}
    /\ home' = [t \in Tab |-> IF home[t] = s THEN NoSplit ELSE home[t]]
    /\ shown' = [shown EXCEPT ![s] = NoTab]
    /\ menu' = [active |-> IF menu.active \in In(s) THEN NoTab ELSE menu.active,
                merged |-> menu.merged \ In(s)]
    /\ layout' = <<>>
    /\ UNCHANGED <<cur, saved>>

-----------------------------------------------------------------------------
(* Arranging *)

\* A tab is picked in its tab bar.
ShowTab(t) ==
    LET s == home[t] IN
    /\ Settled /\ s # NoSplit /\ t # shown[s]
    /\ shown' = [shown EXCEPT ![s] = t]
    /\ menu' = IF s = cur THEN Focused(menu, t) ELSE menu
    /\ layout' = <<>>
    /\ UNCHANGED <<splits, home, cur, dying, saved>>

SetCurrentClientIndex(t) ==
    LET s == home[t] IN
    /\ Settled /\ s # NoSplit
    /\ shown' = [shown EXCEPT ![s] = t]
    /\ cur' = s
    /\ menu' = IF s # cur \/ t # shown[s] THEN Focused(menu, t) ELSE menu
    /\ layout' = <<>>
    /\ UNCHANGED <<splits, home, dying, saved>>

\* A drop on the bar the tab comes from, which takes it out and puts it back.
DropWithin(t) ==
    LET s == home[t] IN
    /\ Settled /\ s # NoSplit /\ Len(splits) > 1 /\ In(s) # {t}
    /\ shown' = [shown EXCEPT ![s] = t]
    /\ menu' = IF s = cur THEN Focused(menu, t) ELSE menu
    /\ layout' = <<>>
    /\ UNCHANGED <<splits, home, cur, dying, saved>>

\* The same drop when the tab is the only one: the split, empty for a moment,
\* has asked for its deletion when the tab comes back.
DropAlone(t) ==
    LET s == home[t] IN
    /\ Settled /\ s # NoSplit /\ Len(splits) > 1 /\ In(s) = {t}
    /\ \E left \in Leaves(t, menu) :
        /\ dying' = left.dying
        /\ cur' = left.cur
        /\ menu' = left.menu
    /\ layout' = <<>>
    /\ UNCHANGED <<splits, home, shown, saved>>

\* t is taken out of its split and put into s.
Rehome(t, s, left) ==
    /\ home' = [home EXCEPT ![t] = s]
    /\ shown' = [shown EXCEPT ![home[t]] = left.shown, ![s] = t]
    /\ dying' = left.dying
    /\ layout' = <<>>
    /\ UNCHANGED <<splits, saved>>

DropOnSplit(t, s) ==
    /\ Settled /\ home[t] # NoSplit /\ s \in Live \ {home[t]}
    /\ \E left \in Leaves(t, menu) :
        /\ Rehome(t, s, left)
        /\ cur' = left.cur
        /\ menu' = IF s = left.cur THEN Focused(left.menu, t) ELSE left.menu

\* moveClient to the place of a client of another split.
MoveClient(t, s) ==
    /\ Settled /\ home[t] # NoSplit /\ s # home[t] /\ In(s) # {}
    /\ \E left \in Leaves(t, menu) :
        /\ Rehome(t, s, left)
        /\ cur' = s
        /\ menu' = Focused(left.menu, t)

\* "Move editor to new split"
MoveTabToNewSplit ==
    /\ Settled /\ cur # NoSplit /\ Cardinality(In(cur)) >= 2
    /\ \E new \in New, u \in In(cur) \ {shown[cur]} :
        /\ splits' = SplitHorizontally(new)
        /\ home' = [home EXCEPT ![shown[cur]] = new]
        /\ shown' = [shown EXCEPT ![cur] = u, ![new] = shown[cur]]
        /\ cur' = new
    /\ menu' = Focused(menu, shown[cur])
    /\ layout' = <<>>
    /\ UNCHANGED <<dying, saved>>

\* Keyboard focus enters a split.
Focus(s) ==
    /\ s \in Live /\ s # cur
    /\ cur' = s
    /\ menu' = Focused(menu, shown[s])
    /\ layout' = <<>>
    /\ UNCHANGED <<splits, home, shown, dying, saved>>

\* The page of the current split is shown again, ShowToParent.
PageIsShown ==
    /\ cur # NoSplit /\ shown[cur] # NoTab
    /\ menu' = Focused(menu, shown[cur])
    /\ UNCHANGED <<splits, home, shown, cur, dying, saved, layout>>

-----------------------------------------------------------------------------
(* The session *)

\* The program ends and starts again: a layout with an empty split is not
\* used, nor is one with a split of no width.
Restart ==
    /\ Settled
    /\ saved' \in {<<>>} \cup (IF 0 \in Range(Counts) THEN {} ELSE {Counts})
    /\ layout' = saved'
    /\ splits' = <<>>
    /\ home' = [t \in Tab |-> NoSplit]
    /\ shown' = [s \in Split |-> NoTab]
    /\ cur' = NoSplit
    /\ menu' = [active |-> NoTab, merged |-> {}]
    /\ UNCHANGED dying

Init ==
    /\ splits = <<>>
    /\ home = [t \in Tab |-> NoSplit]
    /\ shown = [s \in Split |-> NoTab]
    /\ cur = NoSplit
    /\ menu = [active |-> NoTab, merged |-> {}]
    /\ dying = {}
    /\ saved = <<>>
    /\ layout = <<>>

Next ==
    \/ \E t \in Tab :
        \/ OpenFile(t) \/ SplitTab(t) \/ CloseTab(t)
        \/ ShowTab(t) \/ SetCurrentClientIndex(t) \/ DropWithin(t) \/ DropAlone(t)
        \/ \E s \in Split :
            OpenIn(t, s) \/ OpenAt(t, s) \/ DropOnSplit(t, s) \/ MoveClient(t, s)
    \/ \E s \in Split : Delete(s) \/ Focus(s)
    \/ MoveTabToNewSplit \/ PageIsShown \/ Restart

Spec == Init /\ [][Next]_vars

-----------------------------------------------------------------------------
(* Properties *)

TypeOK ==
    /\ splits \in Seq(Split)
    /\ home \in [Tab -> Split \cup {NoSplit}]
    /\ shown \in [Split -> Tab \cup {NoTab}]
    /\ cur \in Split \cup {NoSplit}
    /\ menu \in [active : Tab \cup {NoTab}, merged : SUBSET Tab]
    /\ dying \subseteq Split
    /\ saved \in Seq(Nat)
    /\ layout \in Seq(Nat)

\* currentTabWidget never points to a tab widget that is deleted or about to
\* be: closing the leftmost split forgets it, closing another one moves it.
CurrentIsLive == cur \in Live \cup {NoSplit}

\* The main window has the menus of activeWidget and of no other client, and
\* activeWidget is an open one: the pointer does not outlive its client.
MenusFollowTheTab ==
    /\ menu.merged = {menu.active} \ {NoTab}
    /\ menu.active \in Opened \cup {NoTab}

\* Every open tab lies in a split of the row, every split that has tabs shows
\* one of them, and no split that is to be deleted has two.
TabsAreReachable ==
    /\ \A t \in Opened : home[t] \in Range(splits)
    /\ \A s \in Split : IF In(s) = {} THEN shown[s] = NoTab ELSE shown[s] \in In(s)
    /\ \A s \in dying : \A t, u \in In(s) : t = u

\* While the files of the last session are opened, the splits fill up from
\* the left exactly as they were saved; when all are full the saved counts are
\* forgotten, and further files go to the last split.
RestoredAsSaved ==
    layout # <<>> =>
        LET n == Len(splits) IN
        /\ n <= Len(layout)
        /\ n > 0 => cur = splits[n]
        /\ \A i \in 1..n - 1 : Cardinality(In(splits[i])) = layout[i]
        /\ IF saved = <<>>
           THEN n = Len(layout) /\ Cardinality(In(splits[n])) >= layout[n]
           ELSE saved = layout /\ (n > 0 => Cardinality(In(splits[n])) < layout[n])

\* Whatever takes the last tab out of a split has the split deleted.
EmptiedSplitsGo ==
    [][\A s \in Split : In(s) # {} /\ In(s)' = {} /\ s \in Range(splits')
            => s \in dying']_vars

\* Tabs go away because they were closed, or with the program: dragging and
\* moving loses none.
TabsGoOnlyWhenClosed ==
    [][\A t \in Opened : home'[t] = NoSplit => CloseTab(t) \/ Restart]_vars

\* The row of splits is one tab area to the rest of the window.
Area == INSTANCE OpenTabs WITH open <- Opened, menus <- menu.merged
ImplementsOpenTabs == Area!Spec
=============================================================================
