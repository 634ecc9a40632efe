-------------------------- MODULE SplitTabs_proofs --------------------------
(***************************************************************************)
(* Proofs about SplitTabs, for any tabs and splits.                        *)
(***************************************************************************)
EXTENDS SplitTabs, SequenceTheorems, FiniteSetTheorems, TLAPS

-----------------------------------------------------------------------------
(* Rows of splits *)

Distinct(row) == \A i, j \in 1..Len(row) : row[i] = row[j] => i = j

\* new is row with e put at the place i.
Inserted(S, row, i, e, new) ==
    /\ new \in Seq(S) /\ Len(new) = Len(row) + 1
    /\ \A j \in 1..Len(row) + 1 :
            new[j] = IF j < i THEN row[j] ELSE IF j = i THEN e ELSE row[j - 1]

\* What SequencesExt's InsertAt does, by places.
LEMMA InsertFacts ==
    ASSUME NEW S, NEW row \in Seq(S), NEW i \in 1..Len(row) + 1, NEW e \in S
    PROVE  Inserted(S, row, i, e, InsertAt(row, i, e))
PROOF
<1> DEFINE left == SubSeq(row, 1, i - 1)
           right == SubSeq(row, i, Len(row))
<1>0. Len(row) \in Nat /\ i \in Int
  OBVIOUS
<1>1. left \in Seq(S) /\ Len(left) = i - 1 /\ \A j \in 1..i - 1 : left[j] = row[j]
  OBVIOUS
<1>2. /\ right \in Seq(S) /\ Len(right) = Len(row) + 1 - i
      /\ \A j \in 1..Len(row) + 1 - i : right[j] = row[i + j - 1]
  OBVIOUS
<1>3. InsertAt(row, i, e) = left \o <<e>> \o right
  BY DEF InsertAt
<1> DEFINE start == left \o <<e>>
<1>4. <<e>> \in Seq(S) /\ Len(<<e>>) = 1 /\ <<e>>[1] = e
  OBVIOUS
<1> HIDE DEF left, right
<1>5. /\ start \in Seq(S) /\ Len(start) = i
      /\ \A j \in 1..i : start[j] = IF j < i THEN row[j] ELSE e
  BY <1>1, <1>4, ConcatProperties
<1> HIDE DEF start
<1>6. /\ start \o right \in Seq(S) /\ Len(start \o right) = Len(row) + 1
      /\ \A j \in 1..Len(row) + 1 :
            (start \o right)[j] = IF j <= i THEN start[j] ELSE right[j - i]
  BY <1>2, <1>5, ConcatProperties
<1>7. ASSUME NEW j \in 1..Len(row) + 1
      PROVE  (start \o right)[j] = IF j < i THEN row[j] ELSE IF j = i THEN e ELSE row[j - 1]
  <2>1. CASE j <= i
    BY <1>5, <1>6, <2>1
  <2>2. CASE j > i
    <3>1. j - i \in 1..Len(row) + 1 - i /\ i + (j - i) - 1 = j - 1
      BY <2>2
    <3>2. right[j - i] = row[j - 1]
      BY <1>2, <3>1
    <3> QED
      BY <1>6, <2>2, <3>2
  <2>3. j <= i \/ j > i
    BY <1>0
  <2> QED
    BY <2>1, <2>2, <2>3, Zenon
<1> QED
  BY <1>3, <1>6, <1>7 DEF start, Inserted

\* The same at the right end of the row.
LEMMA InsertAtEnd ==
    ASSUME NEW S, NEW row \in Seq(S), NEW e \in S, NEW i \in Nat, i = Len(row) + 1
    PROVE  /\ InsertAt(row, i, e) \in Seq(S)
           /\ Len(InsertAt(row, i, e)) = i
           /\ \A j \in 1..i : InsertAt(row, i, e)[j] = IF j < i THEN row[j] ELSE e
PROOF
<1>1. i \in 1..Len(row) + 1
  OBVIOUS
<1>2. Inserted(S, row, i, e, InsertAt(row, i, e))
  BY <1>1, InsertFacts
<1> QED
  BY <1>2 DEF Inserted

\* A split put into the row joins the splits of the row.
LEMMA InsertRange ==
    ASSUME NEW S, NEW row \in Seq(S), NEW i \in 1..Len(row) + 1, NEW e \in S
    PROVE  Range(InsertAt(row, i, e)) = Range(row) \cup {e}
PROOF
<1> DEFINE new == InsertAt(row, i, e)
<1>0. Inserted(S, row, i, e, new)
  BY InsertFacts
<1>1. /\ new \in Seq(S) /\ Len(new) = Len(row) + 1
      /\ \A j \in 1..Len(row) + 1 :
            new[j] = IF j < i THEN row[j] ELSE IF j = i THEN e ELSE row[j - 1]
  BY <1>0 DEF Inserted
<1> HIDE DEF new
<1>2. Range(new) = {new[j] : j \in 1..Len(row) + 1} /\ Range(row) = {row[j] : j \in 1..Len(row)}
  BY <1>1 DEF Range
<1>3. \A x \in Range(row) : x \in Range(new)
  <2> SUFFICES ASSUME NEW j \in 1..Len(row) PROVE row[j] \in Range(new)
    BY <1>2
  <2>1. CASE j < i
    BY <1>1, <1>2, <2>1
  <2>2. CASE j >= i
    <3>1. new[j + 1] = row[j]
      BY <1>1, <2>2
    <3> QED
      BY <1>2, <3>1
  <2> QED
    BY <2>1, <2>2
<1>4. e \in Range(new)
  BY <1>1, <1>2
<1>5. \A x \in Range(new) : x \in Range(row) \cup {e}
  <2> SUFFICES ASSUME NEW j \in 1..Len(row) + 1 PROVE new[j] \in Range(row) \cup {e}
    BY <1>2
  <2>1. CASE j < i
    BY <1>1, <1>2, <2>1
  <2>2. CASE j = i
    BY <1>1, <2>2
  <2>3. CASE j > i
    <3>1. j - 1 \in 1..Len(row) /\ new[j] = row[j - 1]
      BY <1>1, <2>3
    <3> QED
      BY <1>2, <3>1
  <2> QED
    BY <2>1, <2>2, <2>3
<1> QED
  BY <1>3, <1>4, <1>5 DEF new

\* A row stays without repetition when a new split is put into it.
LEMMA InsertDistinct ==
    ASSUME NEW S, NEW row \in Seq(S), NEW i \in 1..Len(row) + 1, NEW e \in S,
           Distinct(row), e \notin Range(row)
    PROVE  Distinct(InsertAt(row, i, e))
PROOF
<1> DEFINE new == InsertAt(row, i, e)
<1>0. Inserted(S, row, i, e, new)
  BY InsertFacts
<1>1. /\ new \in Seq(S) /\ Len(new) = Len(row) + 1
      /\ \A j \in 1..Len(row) + 1 :
            new[j] = IF j < i THEN row[j] ELSE IF j = i THEN e ELSE row[j - 1]
  BY <1>0 DEF Inserted
<1>2. \A j \in 1..Len(row) : row[j] # e
  BY DEF Range
<1> HIDE DEF new
<1>3. ASSUME NEW j \in 1..Len(new), NEW k \in 1..Len(new), new[j] = new[k] PROVE j = k
  <2>1. CASE j = i \/ k = i
    BY <1>1, <1>2, <1>3, <2>1
  <2>2. CASE j # i /\ k # i
    <3> DEFINE Old(n) == IF n < i THEN n ELSE n - 1
    <3>1. /\ Old(j) \in 1..Len(row) /\ Old(k) \in 1..Len(row)
          /\ new[j] = row[Old(j)] /\ new[k] = row[Old(k)]
      BY <1>1, <2>2
    <3>2. Old(j) = Old(k)
      BY <1>3, <3>1 DEF Distinct
    <3> QED
      BY <1>1, <2>2, <3>2
  <2> QED
    BY <2>1, <2>2
<1> QED
  BY <1>3 DEF Distinct, new

\* What SequencesExt's RemoveAt does, by places.
LEMMA RemoveFacts ==
    ASSUME NEW S, NEW row \in Seq(S), NEW i \in 1..Len(row)
    PROVE  /\ RemoveAt(row, i) \in Seq(S)
           /\ Len(RemoveAt(row, i)) = Len(row) - 1
           /\ \A j \in 1..Len(row) - 1 :
                RemoveAt(row, i)[j] = IF j < i THEN row[j] ELSE row[j + 1]
PROOF
<1> DEFINE left == SubSeq(row, 1, i - 1)
           right == SubSeq(row, i + 1, Len(row))
<1>0. Len(row) \in Nat /\ i \in Int
  OBVIOUS
<1>1. left \in Seq(S) /\ Len(left) = i - 1 /\ \A j \in 1..i - 1 : left[j] = row[j]
  OBVIOUS
<1>2. /\ right \in Seq(S) /\ Len(right) = Len(row) - i
      /\ \A j \in 1..Len(row) - i : right[j] = row[i + j]
  OBVIOUS
<1>3. RemoveAt(row, i) = left \o right
  BY DEF RemoveAt
<1> HIDE DEF left, right
<1>4. /\ left \o right \in Seq(S) /\ Len(left \o right) = Len(row) - 1
      /\ \A j \in 1..Len(row) - 1 :
            (left \o right)[j] = IF j <= i - 1 THEN left[j] ELSE right[j - (i - 1)]
  <2>1. /\ left \o right \in Seq(S) /\ Len(left \o right) = Len(left) + Len(right)
        /\ \A j \in 1..Len(left) + Len(right) :
              (left \o right)[j] = IF j <= Len(left) THEN left[j] ELSE right[j - Len(left)]
    BY <1>1, <1>2, ConcatProperties
  <2> QED
    BY <1>0, <1>1, <1>2, <2>1
<1>5. ASSUME NEW j \in 1..Len(row) - 1
      PROVE  (left \o right)[j] = IF j < i THEN row[j] ELSE row[j + 1]
  <2>1. CASE j < i
    BY <1>1, <1>4, <2>1
  <2>2. CASE j >= i
    <3>1. j - (i - 1) \in 1..Len(row) - i /\ i + (j - (i - 1)) = j + 1
      BY <2>2
    <3>2. right[j - (i - 1)] = row[j + 1]
      BY <1>2, <3>1
    <3> QED
      BY <1>4, <2>2, <3>2
  <2>3. j < i \/ j >= i
    BY <1>0
  <2> QED
    BY <2>1, <2>2, <2>3, Zenon
<1> QED
  BY <1>3, <1>4, <1>5

\* Taking a split out of a row without repetition takes it out of the range.
LEMMA RemoveDistinct ==
    ASSUME NEW S, NEW row \in Seq(S), NEW i \in 1..Len(row), Distinct(row)
    PROVE  /\ Distinct(RemoveAt(row, i))
           /\ Range(RemoveAt(row, i)) = Range(row) \ {row[i]}
PROOF
<1> DEFINE new == RemoveAt(row, i)
<1>1. /\ new \in Seq(S) /\ Len(new) = Len(row) - 1
      /\ \A j \in 1..Len(row) - 1 : new[j] = IF j < i THEN row[j] ELSE row[j + 1]
  BY RemoveFacts
<1> HIDE DEF new
<1>2. ASSUME NEW j \in 1..Len(new), NEW k \in 1..Len(new), new[j] = new[k] PROVE j = k
  BY <1>1, <1>2 DEF Distinct
<1>3. Range(new) = {new[j] : j \in 1..Len(row) - 1} /\ Range(row) = {row[j] : j \in 1..Len(row)}
  BY <1>1 DEF Range
<1>4. ASSUME NEW j \in 1..Len(row), j # i PROVE row[j] \in Range(new)
  <2>1. CASE j < i
    BY <1>1, <1>3, <2>1
  <2>2. CASE j > i
    <3>1. new[j - 1] = row[j] /\ j - 1 \in 1..Len(row) - 1
      BY <1>1, <2>2
    <3> QED
      BY <1>3, <3>1
  <2> QED
    BY <1>4, <2>1, <2>2
<1>5. ASSUME NEW j \in 1..Len(row) - 1 PROVE new[j] \in Range(row) /\ new[j] # row[i]
  BY <1>1, <1>3 DEF Distinct
<1>6. Distinct(new)
  BY <1>2 DEF Distinct
<1>7. Range(new) \subseteq Range(row) \ {row[i]}
  BY <1>3, <1>5
<1>8. Range(row) \ {row[i]} \subseteq Range(new)
  BY <1>3, <1>4
<1> QED
  BY <1>6, <1>7, <1>8 DEF new

\* At finds a split that is in the row, and nothing else.
LEMMA AtFacts ==
    ASSUME NEW S, NEW row \in Seq(S), NEW s
    PROVE  /\ At(row, s) \in 0..Len(row)
           /\ s \in Range(row) => At(row, s) \in 1..Len(row) /\ row[At(row, s)] = s
           /\ s \notin Range(row) => At(row, s) = 0
PROOF
<1>1. Range(row) = {row[j] : j \in 1..Len(row)}
  BY DEF Range
<1>2. CASE s \in Range(row)
  BY <1>1, <1>2 DEF At
<1>3. CASE s \notin Range(row)
  BY <1>1, <1>3 DEF At
<1> QED
  BY <1>2, <1>3

-----------------------------------------------------------------------------
(* The inductive invariant *)

Row ==
    /\ Distinct(splits)
    /\ dying \subseteq Range(splits)

IInv == TypeOK /\ Row /\ CurrentIsLive /\ MenusFollowTheTab /\ TabsAreReachable

\* The menus m are those of one tab of T, or of none.
MenuOf(m, T) ==
    /\ m \in [active : Tab \cup {NoTab}, merged : SUBSET Tab]
    /\ m.merged = {m.active} \ {NoTab}
    /\ m.active \in T \cup {NoTab}

\* Giving the focus to an open client merges its menus and no others.
LEMMA FocusedMenu ==
    ASSUME NEW T \in SUBSET Tab, NEW m, MenuOf(m, T), NEW w \in T \cup {NoTab}
    PROVE  /\ MenuOf(Focused(m, w), T)
           /\ Focused(m, w).active = w
           /\ Focused(m, w).merged = {w} \ {NoTab}
PROOF
  BY SplitAssumption DEF MenuOf, Focused

\* Without a focused client, there are the menus of none.
LEMMA UnfocusedMenu ==
    ASSUME NEW T \in SUBSET Tab, NEW m, MenuOf(m, T)
    PROVE  MenuOf(Unfocused(m), T)
PROOF
  BY SplitAssumption DEF MenuOf, Unfocused

\* The menus of a deleted client go with it.
LEMMA DeletedMenu ==
    ASSUME NEW T \in SUBSET Tab, NEW m, MenuOf(m, T), NEW t \in Tab
    PROVE  MenuOf(DeleteClient(m, t), T \ {t})
PROOF
  BY SplitAssumption DEF MenuOf, DeleteClient

\* Where an open tab lies, and what a split shows.
LEMMA Placed ==
    ASSUME IInv
    PROVE  /\ Opened \subseteq Tab
           /\ \A t \in Opened : home[t] \in Split /\ home[t] \in Range(splits) /\ t \in In(home[t])
           /\ \A s \in Split : /\ In(s) \subseteq Opened
                               /\ shown[s] \in In(s) \cup {NoTab}
                               /\ In(s) # {} => shown[s] \in In(s)
           /\ Range(splits) \subseteq Split
PROOF
<1>1. splits \in Seq(Split) /\ home \in [Tab -> Split \cup {NoSplit}]
  BY DEF IInv, TypeOK
<1>2. Range(splits) \subseteq Split
  BY <1>1 DEF Range
<1>3. \A t \in Opened : home[t] \in Range(splits)
  BY DEF IInv, TabsAreReachable
<1>4. \A s \in Split : In(s) \subseteq Opened
  BY <1>1, SplitAssumption DEF In, Opened
<1>5. \A s \in Split : IF In(s) = {} THEN shown[s] = NoTab ELSE shown[s] \in In(s)
  BY DEF IInv, TabsAreReachable
<1> QED
  BY <1>1, <1>2, <1>3, <1>4, <1>5 DEF Opened, In

\* A split that closes leaves a current split that stays, or none.
LEMMA ClosedSplit ==
    ASSUME IInv, Settled, NEW s \in Range(splits), NEW T \in SUBSET Tab, NEW m, MenuOf(m, T),
           \A r \in Split \ {s} : shown[r] \in T \cup {NoTab}
    PROVE  LET closed == CloseSplitWithTabWidget(s, m) IN
           /\ closed.cur \in (Range(splits) \ {s}) \cup {NoSplit}
           /\ MenuOf(closed.menu, T)
PROOF
<1> DEFINE i == At(splits, s)
<1>1. splits \in Seq(Split) /\ Distinct(splits)
  BY DEF IInv, TypeOK, Row
<1>2. i \in 1..Len(splits) /\ splits[i] = s
  BY <1>1, AtFacts
<1> HIDE DEF i
<1>3. CASE i > 1
  <2> DEFINE left == splits[i - 1]
  <2>1. left \in Range(splits) /\ left \in Split /\ left # s
    BY <1>1, <1>2, <1>3 DEF Range, Distinct
  <2>2. MenuOf(MadeCurrent(m, left), T)
    <3>1. shown[left] \in T \cup {NoTab}
      BY <2>1
    <3> HIDE DEF left
    <3>2. MenuOf(Focused(m, shown[left]), T)
      BY <3>1, FocusedMenu
    <3> QED
      BY <3>2 DEF MadeCurrent
  <2> HIDE DEF left
  <2>3. CloseSplitWithTabWidget(s, m) = [cur |-> left, menu |-> MadeCurrent(m, left)]
    BY <1>3 DEF CloseSplitWithTabWidget, i, left
  <2> QED
    BY <2>1, <2>2, <2>3
<1>4. CASE ~(i > 1)
  <2>1. CloseSplitWithTabWidget(s, m) = [cur |-> NoSplit, menu |-> Unfocused(m)]
    BY <1>4 DEF CloseSplitWithTabWidget, i
  <2> QED
    BY <2>1, UnfocusedMenu
<1> QED
  BY <1>3, <1>4

\* What remains where a tab leaves.
LEMMA Left ==
    ASSUME IInv, Settled, NEW t \in Opened, NEW T \in SUBSET Tab, Opened \ {t} \subseteq T,
           NEW m, MenuOf(m, T), NEW left \in Leaves(t, m)
    PROVE  /\ IF In(home[t]) = {t}
              THEN left.dying = {home[t]} /\ left.shown = NoTab
              ELSE left.dying = {} /\ left.shown \in In(home[t]) \ {t}
           /\ left.cur \in (Range(splits) \ left.dying) \cup {NoSplit}
           /\ MenuOf(left.menu, T)
PROOF
<1> DEFINE s == home[t]
           rest == In(s) \ {t}
           Told(u) == IF s = cur THEN Focused(m, u) ELSE m
           Stays(u, n) == [shown |-> u, dying |-> {}, cur |-> cur, menu |-> n]
           closed == CloseSplitWithTabWidget(s, m)
<1>1. /\ s \in Range(splits) /\ s \in Split /\ t \in In(s) /\ In(s) \subseteq Opened
      /\ shown[s] \in In(s)
  BY Placed
<1>2. cur \in Range(splits) \cup {NoSplit}
  BY DEF IInv, CurrentIsLive, Live
<1>3. Leaves(t, m) =
        IF rest = {} THEN {[shown |-> NoTab, dying |-> {s}, cur |-> closed.cur, menu |-> closed.menu]}
        ELSE IF t = shown[s] THEN {Stays(u, Told(u)) : u \in rest}
        ELSE {Stays(shown[s], m), Stays(shown[s], Told(shown[s]))}
  BY DEF Leaves
<1>4. \A u \in rest : u \in T /\ MenuOf(Told(u), T)
  <2> TAKE u \in rest
  <2>1. u \in T
    BY <1>1
  <2> QED
    BY <2>1, FocusedMenu
<1>5. CASE rest = {}
  <2>1. \A r \in Split \ {s} : shown[r] \in T \cup {NoTab}
    <3> TAKE r \in Split \ {s}
    <3>1. shown[r] \in In(r) \cup {NoTab} /\ In(r) \subseteq Opened /\ t \notin In(r)
      BY Placed DEF In
    <3> QED
      BY <3>1
  <2> HIDE DEF s
  <2>2. closed.cur \in (Range(splits) \ {s}) \cup {NoSplit} /\ MenuOf(closed.menu, T)
    BY <1>1, <2>1, ClosedSplit
  <2> HIDE DEF closed
  <2>3. left = [shown |-> NoTab, dying |-> {s}, cur |-> closed.cur, menu |-> closed.menu]
    BY <1>3, <1>5
  <2>4. In(s) = {t}
    BY <1>1, <1>5
  <2> QED
    BY <2>2, <2>3, <2>4 DEF s
<1>6. CASE rest # {}
  <2>1. In(s) # {t}
    BY <1>6
  <2>2. PICK u \in rest, n \in {m} \cup {Told(v) : v \in rest} : left = Stays(u, n) /\ MenuOf(n, T)
    <3>1. CASE t = shown[s]
      BY <1>3, <1>4, <1>6, <3>1
    <3>2. CASE t # shown[s]
      <4>1. shown[s] \in rest
        BY <1>1, <3>2
      <4>2. left = Stays(shown[s], m) \/ left = Stays(shown[s], Told(shown[s]))
        BY <1>3, <1>6, <3>2
      <4> QED
        BY <1>4, <4>1, <4>2
    <3> QED
      BY <3>1, <3>2
  <2> QED
    BY <1>2, <2>1, <2>2
<1> QED
  BY <1>5, <1>6

\* Moving one tab changes the two splits it moves between, and Opened alike.
LEMMA InAfter ==
    ASSUME TypeOK, NEW t \in Tab, NEW s \in Split \cup {NoSplit}, home' = [home EXCEPT ![t] = s]
    PROVE  /\ \A x \in Split : In(x)' = IF x = s THEN In(x) \cup {t} ELSE In(x) \ {t}
           /\ Opened' = IF s = NoSplit THEN Opened \ {t} ELSE Opened \cup {t}
           /\ home' \in [Tab -> Split \cup {NoSplit}]
PROOF
  BY SplitAssumption DEF TypeOK, In, Opened

\* Where no tab moves, no split changes its tabs.
LEMMA SameIn ==
    ASSUME home' = home
    PROVE  Opened' = Opened /\ \A x : In(x)' = In(x)
PROOF
  BY DEF In, Opened

\* The invariant gives the menus the shape the lemmas above speak of.
LEMMA MenuIsOf ==
    ASSUME IInv
    PROVE  MenuOf(menu, Opened) /\ Opened \subseteq Tab
PROOF
  BY DEF IInv, TypeOK, MenusFollowTheTab, MenuOf, Opened

\* From the lemmas on menus back to the invariant.
LEMMA MenuFollows ==
    ASSUME MenuOf(menu', Opened')
    PROVE  MenusFollowTheTab' /\ menu' \in [active : Tab \cup {NoTab}, merged : SUBSET Tab]
PROOF
  BY DEF MenuOf, MenusFollowTheTab

\* addTab keeps the invariant, in a row that may have one split more.
LEMMA AddTabKeepsIInv ==
    ASSUME IInv, Settled, NEW t \in Tab, home[t] = NoSplit,
           NEW row \in Seq(Split), Distinct(row), Range(splits) \subseteq Range(row),
           NEW s \in Range(row), AddTab(t, s, row), layout' \in Seq(Nat)
    PROVE  IInv' /\ t \in Opened'
PROOF
<1> DEFINE i == At(row, s)
           full == i <= Len(saved) /\ Cardinality(In(s)) + 1 = saved[i]
<1>1. s \in Split /\ Range(row) \subseteq Split
  BY DEF Range
<1>2. /\ \A x \in Split : In(x)' = IF x = s THEN In(x) \cup {t} ELSE In(x) \ {t}
      /\ Opened' = Opened \cup {t}
      /\ home' \in [Tab -> Split \cup {NoSplit}]
  BY <1>1, InAfter, SplitAssumption DEF IInv, AddTab
<1>3. \A x \in Split : t \notin In(x)
  BY SplitAssumption DEF In
<1>4. dying' = {} /\ dying = {} /\ saved' \in Seq(Nat)
  <2>1. saved' = saved \/ saved' = <<>>
    BY DEF AddTab
  <2>2. <<>> \in Seq(Nat)
    OBVIOUS
  <2> QED
    BY <2>1, <2>2 DEF AddTab, Settled, IInv, TypeOK
<1>5. MenusFollowTheTab' /\ menu' \in [active : Tab \cup {NoTab}, merged : SUBSET Tab]
  <2>1. MenuOf(menu, Opened') /\ Opened' \subseteq Tab
    BY <1>2, MenuIsOf DEF MenuOf
  <2>2. MenuOf(menu', Opened')
    BY <1>2, <2>1, FocusedMenu DEF AddTab
  <2> QED
    BY <2>2, MenuFollows
<1>6. i \in 1..Len(row) /\ row[i] = s
  BY AtFacts
<1>7. PICK new \in Split \cup {NoSplit} :
        /\ splits' \in Seq(Split) /\ Distinct(splits')
        /\ Range(splits') = Range(row) \cup ({new} \ {NoSplit})
        /\ new \notin Range(row)
        /\ shown' = IF new = NoSplit THEN [shown EXCEPT ![s] = t]
                    ELSE [shown EXCEPT ![s] = t, ![new] = NoTab]
        /\ cur' = IF new = NoSplit THEN s ELSE new
  <2>1. CASE full /\ Len(row) # Len(saved)
    <3>1. PICK new \in Split \ Range(row) :
            /\ splits' = InsertAt(row, i + 1, new)
            /\ shown' = [shown EXCEPT ![s] = t, ![new] = NoTab]
            /\ cur' = new
      BY <2>1 DEF AddTab
    <3>2. i + 1 \in 1..Len(row) + 1
      BY <1>6
    <3> HIDE DEF i, full
    <3>3. /\ splits' \in Seq(Split) /\ Distinct(splits')
          /\ Range(splits') = Range(row) \cup {new}
      BY <3>1, <3>2, InsertFacts, InsertRange, InsertDistinct DEF Inserted
    <3>4. new # NoSplit
      BY SplitAssumption
    <3> QED
      BY <3>1, <3>3, <3>4
  <2>2. CASE ~(full /\ Len(row) # Len(saved))
    <3>1. splits' = row /\ shown' = [shown EXCEPT ![s] = t] /\ cur' = s
      BY <2>2 DEF AddTab
    <3>2. NoSplit \notin Range(row)
      BY <1>1, SplitAssumption
    <3> QED
      BY <3>1, <3>2
  <2> QED
    BY <2>1, <2>2
<1>8. shown \in [Split -> Tab \cup {NoTab}] /\ s # NoSplit /\ s # new
  BY <1>1, <1>7, SplitAssumption DEF IInv, TypeOK
<1>9. /\ shown' \in [Split -> Tab \cup {NoTab}]
      /\ \A x \in Split : shown'[x] = IF x = s THEN t ELSE IF x = new THEN NoTab ELSE shown[x]
  <2>1. CASE new = NoSplit
    <3>1. \A x \in Split : x # new
      BY <2>1, SplitAssumption
    <3> QED
      BY <1>1, <1>7, <1>8, <2>1, <3>1
  <2>2. CASE new # NoSplit
    <3>1. shown' = [shown EXCEPT ![s] = t, ![new] = NoTab] /\ new \in Split
      BY <1>7, <2>2
    <3> QED
      BY <1>1, <1>8, <3>1
  <2> QED
    BY <2>1, <2>2
<1>10. \A x \in Split : IF In(x)' = {} THEN shown'[x] = NoTab ELSE shown'[x] \in In(x)'
  <2> TAKE x \in Split
  <2>1. CASE x = s
    BY <1>1, <1>2, <1>9, <2>1
  <2>2. CASE x # s /\ x = new
    <3>1. In(x) = {}
      <4>1. x \notin Range(splits)
        BY <1>7, <2>2
      <4>2. \A u \in In(x) : u \in Opened /\ home[u] = x
        BY SplitAssumption DEF In, Opened
      <4> QED
        BY <4>1, <4>2 DEF IInv, TabsAreReachable
    <3>2. shown'[x] = NoTab /\ In(x)' = In(x) \ {t}
      BY <1>9, <1>2, <2>2
    <3>3. In(x)' = {}
      BY <3>1, <3>2
    <3> QED
      BY <3>2, <3>3, Zenon
  <2>3. CASE x # s /\ x # new
    <3>1. shown'[x] = shown[x] /\ In(x)' = In(x) \ {t} /\ t \notin In(x)
      BY <1>2, <1>3, <1>9, <2>3
    <3>2. In(x)' = In(x)
      BY <3>1
    <3>3. IF In(x) = {} THEN shown[x] = NoTab ELSE shown[x] \in In(x)
      BY DEF IInv, TabsAreReachable
    <3> QED
      BY <3>1, <3>2, <3>3, Zenon
  <2> QED
    BY <2>1, <2>2, <2>3
<1>11. \A u \in Opened' : home'[u] \in Range(splits')
  <2> TAKE u \in Opened'
  <2>1. home' = [home EXCEPT ![t] = s] /\ home \in [Tab -> Split \cup {NoSplit}]
    BY DEF AddTab, IInv, TypeOK
  <2>2. u \in Tab
    BY DEF Opened
  <2>3. CASE u = t
    BY <1>7, <2>1, <2>2, <2>3
  <2>4. CASE u # t
    <3>1. u \in Opened /\ home'[u] = home[u]
      BY <1>2, <2>1, <2>2, <2>4
    <3> QED
      BY <1>7, <3>1 DEF IInv, TabsAreReachable
  <2> QED
    BY <2>3, <2>4
<1>12. cur' \in Range(splits') /\ cur' \in Split
  BY <1>1, <1>7
<1>13. TypeOK'
  BY <1>2, <1>4, <1>5, <1>7, <1>9, <1>12 DEF TypeOK
<1> QED
  BY <1>2, <1>4, <1>5, <1>7, <1>9, <1>10, <1>11, <1>12, <1>13
  DEF IInv, Row, CurrentIsLive, Live, TabsAreReachable

\* splitHorizontally gives a row without repetition that has the new split.
LEMMA NewRow ==
    ASSUME IInv, NEW new \in New
    PROVE  /\ SplitHorizontally(new) \in Seq(Split)
           /\ Distinct(SplitHorizontally(new))
           /\ Range(SplitHorizontally(new)) = Range(splits) \cup {new}
           /\ new \in Split /\ new # NoSplit
PROOF
<1>1. splits \in Seq(Split) /\ Distinct(splits) /\ new \in Split /\ new \notin Range(splits)
  BY DEF IInv, TypeOK, Row, New
<1>2. At(splits, cur) + 1 \in 1..Len(splits) + 1
  BY <1>1, AtFacts
<1> QED
  BY <1>1, <1>2, InsertFacts, InsertRange, InsertDistinct, SplitAssumption DEF SplitHorizontally, Inserted

\* Every way of opening a tab that goes through addTab keeps the invariant.
LEMMA OpenKeepsIInv ==
    ASSUME IInv, NEW t \in Tab,
           OpenFile(t) \/ SplitTab(t) \/ \E s \in Split : OpenIn(t, s)
    PROVE  IInv' /\ t \in Opened'
PROOF
<1>1. Settled /\ home[t] = NoSplit /\ layout' \in Seq(Nat)
  <2>1. layout' = layout \/ layout' = <<>>
    BY DEF OpenFile, SplitTab, OpenIn
  <2>2. <<>> \in Seq(Nat)
    OBVIOUS
  <2> QED
    BY <2>1, <2>2 DEF OpenFile, SplitTab, OpenIn, IInv, TypeOK
<1>2. splits \in Seq(Split) /\ Distinct(splits)
  BY DEF IInv, TypeOK, Row
<1>3. ASSUME NEW s \in Range(splits), AddTab(t, s, splits) PROVE IInv' /\ t \in Opened'
  BY <1>1, <1>2, <1>3, AddTabKeepsIInv
<1>4. ASSUME NEW new \in New, AddTab(t, new, SplitHorizontally(new))
      PROVE  IInv' /\ t \in Opened'
  <2>1. /\ SplitHorizontally(new) \in Seq(Split) /\ Distinct(SplitHorizontally(new))
        /\ Range(SplitHorizontally(new)) = Range(splits) \cup {new}
    BY <1>4, NewRow
  <2> QED
    BY <1>1, <1>4, <2>1, AddTabKeepsIInv
<1>5. cur # NoSplit => cur \in Range(splits)
  BY DEF IInv, CurrentIsLive, Live
<1>6. CASE OpenFile(t)
  BY <1>3, <1>4, <1>5, <1>6 DEF OpenFile
<1>7. CASE SplitTab(t)
  BY <1>4, <1>7 DEF SplitTab
<1>8. CASE \E s \in Split : OpenIn(t, s)
  BY <1>3, <1>8 DEF OpenIn, Live
<1> QED
  BY <1>6, <1>7, <1>8

\* Every part of the invariant, once it is known of the next state.
LEMMA Assembled ==
    ASSUME splits' \in Seq(Split), Distinct(splits'), dying' \subseteq Range(splits'),
           home' \in [Tab -> Split \cup {NoSplit}], shown' \in [Split -> Tab \cup {NoTab}],
           cur' \in (Range(splits') \ dying') \cup {NoSplit},
           MenuOf(menu', Opened'), saved' \in Seq(Nat), layout' \in Seq(Nat),
           \A t \in Opened' : home'[t] \in Range(splits'),
           \A s \in Split : IF In(s)' = {} THEN shown'[s] = NoTab ELSE shown'[s] \in In(s)',
           \A s \in dying' : \A t, u \in In(s)' : t = u
    PROVE  IInv'
PROOF
<1>1. Range(splits') \subseteq Split
  BY DEF Range
<1>2. MenusFollowTheTab' /\ menu' \in [active : Tab \cup {NoTab}, merged : SUBSET Tab]
  BY MenuFollows
<1> QED
  BY <1>1, <1>2 DEF IInv, TypeOK, Row, CurrentIsLive, Live, TabsAreReachable

\* The steps that leave every tab and split where it is.
LEMMA SameRow ==
    ASSUME IInv, UNCHANGED <<splits, home, dying, saved>>, layout' \in Seq(Nat),
           cur' \in (Range(splits) \ dying) \cup {NoSplit},
           MenuOf(menu', Opened),
           shown' = shown \/ \E t \in Opened : shown' = [shown EXCEPT ![home[t]] = t]
    PROVE  IInv'
PROOF
<1>1. Opened' = Opened /\ \A x : In(x)' = In(x)
  BY SameIn
<1>2. shown \in [Split -> Tab \cup {NoTab}]
  BY DEF IInv, TypeOK
<1>3. /\ shown' \in [Split -> Tab \cup {NoTab}]
      /\ \A s \in Split : IF In(s) = {} THEN shown'[s] = NoTab ELSE shown'[s] \in In(s)
  <2>1. CASE shown' = shown
    BY <1>2, <2>1 DEF IInv, TabsAreReachable
  <2>2. CASE \E t \in Opened : shown' = [shown EXCEPT ![home[t]] = t]
    <3>1. PICK t \in Opened : shown' = [shown EXCEPT ![home[t]] = t]
      BY <2>2
    <3>2. home[t] \in Split /\ t \in In(home[t]) /\ t \in Tab
      BY Placed DEF Opened
    <3> QED
      BY <1>2, <3>1, <3>2 DEF IInv, TabsAreReachable
  <2> QED
    BY <2>1, <2>2
<1>4. /\ splits' \in Seq(Split) /\ Distinct(splits') /\ dying' \subseteq Range(splits')
      /\ home' \in [Tab -> Split \cup {NoSplit}] /\ saved' \in Seq(Nat)
      /\ \A t \in Opened : home'[t] \in Range(splits')
      /\ \A s \in dying' : \A t, u \in In(s) : t = u
  BY DEF IInv, TypeOK, Row, TabsAreReachable
<1>5. cur' \in (Range(splits') \ dying') \cup {NoSplit} /\ MenuOf(menu', Opened')
  BY <1>1
<1>6. /\ \A t \in Opened' : home'[t] \in Range(splits')
      /\ \A s \in Split : IF In(s)' = {} THEN shown'[s] = NoTab ELSE shown'[s] \in In(s)'
      /\ \A s \in dying' : \A t, u \in In(s)' : t = u
  BY <1>1, <1>3, <1>4
<1> QED
  BY <1>3, <1>4, <1>5, <1>6, Assembled

\* Showing and focusing keep the invariant.
LEMMA ShowKeepsIInv ==
    ASSUME IInv,
           \/ \E t \in Tab : ShowTab(t) \/ SetCurrentClientIndex(t) \/ DropWithin(t)
           \/ \E s \in Split : Focus(s)
           \/ PageIsShown
    PROVE  IInv'
PROOF
<1>1. /\ MenuOf(menu, Opened) /\ Opened \subseteq Tab
      /\ cur \in (Range(splits) \ dying) \cup {NoSplit}
  BY MenuIsOf DEF IInv, CurrentIsLive, Live
<1>2. layout' \in Seq(Nat)
  <2>1. layout' = layout \/ layout' = <<>>
    BY DEF ShowTab, SetCurrentClientIndex, DropWithin, Focus, PageIsShown
  <2>2. <<>> \in Seq(Nat)
    OBVIOUS
  <2> QED
    BY <2>1, <2>2 DEF IInv, TypeOK
<1>3. \A w \in Opened \cup {NoTab} : MenuOf(Focused(menu, w), Opened)
  BY <1>1, FocusedMenu
<1>4. ASSUME NEW t \in Tab, ShowTab(t) \/ SetCurrentClientIndex(t) \/ DropWithin(t) PROVE IInv'
  <2>1. t \in Opened /\ dying = {}
    BY <1>4 DEF ShowTab, SetCurrentClientIndex, DropWithin, Opened, Settled
  <2>2. home[t] \in Range(splits)
    BY <2>1, Placed
  <2>3. /\ shown' = [shown EXCEPT ![home[t]] = t]
        /\ UNCHANGED <<splits, home, dying, saved>>
        /\ cur' = cur \/ cur' = home[t]
        /\ menu' = menu \/ menu' = Focused(menu, t)
    BY <1>4 DEF ShowTab, SetCurrentClientIndex, DropWithin
  <2>4. MenuOf(menu', Opened)
    BY <1>1, <1>3, <2>1, <2>3
  <2> QED
    BY <1>1, <1>2, <2>1, <2>2, <2>3, <2>4, SameRow
<1>5. ASSUME NEW s \in Split, Focus(s) PROVE IInv'
  <2>1. shown[s] \in Opened \cup {NoTab}
    BY Placed
  <2> QED
    BY <1>1, <1>2, <1>3, <1>5, <2>1, SameRow DEF Focus, Live
<1>6. ASSUME PageIsShown PROVE IInv'
  <2>1. cur \in Split
    BY <1>6 DEF PageIsShown, IInv, TypeOK
  <2>2. shown[cur] \in Opened \cup {NoTab}
    BY <2>1, Placed
  <2> QED
    BY <1>1, <1>2, <1>3, <1>6, <2>2, SameRow DEF PageIsShown
<1> QED
  BY <1>4, <1>5, <1>6

\* Opening a client next to another keeps the invariant.
LEMMA OpenAtKeepsIInv ==
    ASSUME IInv, NEW t \in Tab, NEW s \in Split, OpenAt(t, s)
    PROVE  IInv'
PROOF
<1>1. /\ home[t] = NoSplit /\ In(s) # {} /\ dying = {} /\ s # NoSplit
      /\ home' = [home EXCEPT ![t] = s] /\ shown' = [shown EXCEPT ![s] = t]
      /\ menu' = Focused(menu, t) /\ layout' = <<>>
      /\ UNCHANGED <<splits, cur, dying, saved>>
  BY SplitAssumption DEF OpenAt, Settled
<1>2. /\ \A x \in Split : In(x)' = IF x = s THEN In(x) \cup {t} ELSE In(x) \ {t}
      /\ Opened' = Opened \cup {t} /\ home' \in [Tab -> Split \cup {NoSplit}]
  BY <1>1, InAfter DEF IInv
<1>3. \A x \in Split : t \notin In(x)
  BY <1>1, SplitAssumption DEF In
<1>4. s \in Range(splits)
  <2>1. PICK u \in In(s) : u \in Opened /\ home[u] = s
    BY <1>1, Placed DEF In
  <2> QED
    BY <2>1, Placed
<1>5. MenuOf(menu', Opened')
  <2>1. MenuOf(menu, Opened') /\ Opened' \subseteq Tab
    BY <1>2, MenuIsOf DEF MenuOf
  <2> QED
    BY <1>1, <1>2, <2>1, FocusedMenu
<1>6. /\ shown' \in [Split -> Tab \cup {NoTab}]
      /\ \A x \in Split : shown'[x] = IF x = s THEN t ELSE shown[x]
  BY <1>1 DEF IInv, TypeOK
<1>7. \A x \in Split : IF In(x)' = {} THEN shown'[x] = NoTab ELSE shown'[x] \in In(x)'
  <2> TAKE x \in Split
  <2>1. CASE x = s
    BY <1>2, <1>6, <2>1
  <2>2. CASE x # s
    <3>1. In(x)' = In(x)
      BY <1>2, <1>3, <2>2
    <3>2. IF In(x) = {} THEN shown[x] = NoTab ELSE shown[x] \in In(x)
      BY DEF IInv, TabsAreReachable
    <3> QED
      BY <1>6, <2>2, <3>1, <3>2
  <2> QED
    BY <2>1, <2>2
<1>8. \A u \in Opened' : home'[u] \in Range(splits')
  <2> TAKE u \in Opened'
  <2>1. u \in Tab
    BY DEF Opened
  <2>2. u # t => u \in Opened
    BY <1>2
  <2> QED
    BY <1>1, <1>4, <2>1, <2>2 DEF IInv, TypeOK, TabsAreReachable
<1>9. /\ splits' \in Seq(Split) /\ Distinct(splits') /\ dying' \subseteq Range(splits')
      /\ cur' \in (Range(splits') \ dying') \cup {NoSplit}
      /\ saved' \in Seq(Nat) /\ layout' \in Seq(Nat)
  BY <1>1 DEF IInv, TypeOK, Row, CurrentIsLive, Live
<1>10. \A x \in dying' : \A v, u \in In(x)' : v = u
  BY <1>1
<1> QED
  BY <1>2, <1>5, <1>6, <1>7, <1>8, <1>9, <1>10, Assembled

\* A tab leaves its split, for another one or to be closed.
LEMMA LeavingKeepsIInv ==
    ASSUME IInv, Settled, NEW t \in Opened, NEW s \in Split \cup {NoSplit},
           s \in Range(splits) \/ s = NoSplit, s # home[t],
           NEW T \in SUBSET Tab, Opened \ {t} \subseteq T,
           NEW m, MenuOf(m, T), NEW left \in Leaves(t, m),
           home' = [home EXCEPT ![t] = s],
           shown' \in [Split -> Tab \cup {NoTab}],
           \A x \in Split : shown'[x] = IF x = home[t] THEN left.shown
                                        ELSE IF x = s THEN t ELSE shown[x],
           cur' = left.cur \/ cur' = s, dying' = left.dying,
           MenuOf(menu', Opened'), layout' = <<>>, UNCHANGED <<splits, saved>>
    PROVE  IInv'
PROOF
<1>1. /\ IF In(home[t]) = {t}
         THEN left.dying = {home[t]} /\ left.shown = NoTab
         ELSE left.dying = {} /\ left.shown \in In(home[t]) \ {t}
      /\ left.cur \in (Range(splits) \ left.dying) \cup {NoSplit}
  BY Left
<1>2. /\ t \in Tab /\ t \in In(home[t])
      /\ home[t] \in Range(splits) /\ home[t] \in Split /\ home[t] # NoSplit
  BY Placed, SplitAssumption DEF Opened
<1>3. /\ \A x \in Split : In(x)' = IF x = s THEN In(x) \cup {t} ELSE In(x) \ {t}
      /\ Opened' = IF s = NoSplit THEN Opened \ {t} ELSE Opened \cup {t}
      /\ home' \in [Tab -> Split \cup {NoSplit}]
  BY <1>2, InAfter DEF IInv
<1>4. cur' \in (Range(splits') \ dying') \cup {NoSplit} /\ dying' \subseteq Range(splits')
  BY <1>1, <1>2
<1>5. \A x \in Split : IF In(x)' = {} THEN shown'[x] = NoTab ELSE shown'[x] \in In(x)'
  <2> TAKE x \in Split
  <2>1. CASE x = home[t]
    <3>1. In(x)' = In(x) \ {t}
      BY <1>3, <2>1
    <3>2. CASE In(x) = {t}
      <4>1. In(x)' = {} /\ shown'[x] = NoTab
        BY <1>1, <2>1, <3>1, <3>2
      <4> QED
        BY <4>1
    <3>3. CASE In(x) # {t}
      <4>1. shown'[x] \in In(x)'
        BY <1>1, <2>1, <3>1, <3>3
      <4> QED
        BY <4>1
    <3> QED
      BY <3>2, <3>3
  <2>2. CASE x = s
    BY <1>3, <2>2
  <2>3. CASE x # home[t] /\ x # s
    <3>1. t \notin In(x)
      BY <2>3 DEF In
    <3>2. In(x)' = In(x) \ {t} /\ shown'[x] = shown[x]
      BY <1>3, <2>3
    <3>3. In(x)' = In(x)
      BY <3>1, <3>2
    <3>4. IF In(x) = {} THEN shown[x] = NoTab ELSE shown[x] \in In(x)
      BY DEF IInv, TabsAreReachable
    <3> QED
      BY <3>2, <3>3, <3>4
  <2> QED
    BY <2>1, <2>2, <2>3
<1>6. \A u \in Opened' : home'[u] \in Range(splits')
  <2> TAKE u \in Opened'
  <2>1. u \in Tab /\ home'[u] # NoSplit
    BY DEF Opened
  <2>2. CASE u = t
    BY <1>2, <2>1, <2>2 DEF IInv, TypeOK
  <2>3. CASE u # t
    <3>1. home'[u] = home[u] /\ u \in Opened
      BY <2>1, <2>3 DEF IInv, TypeOK, Opened
    <3> QED
      BY <3>1, Placed
  <2> QED
    BY <2>2, <2>3
<1>7. \A x \in dying' : \A v, u \in In(x)' : v = u
  <2> TAKE x \in dying'
  <2>1. x = home[t] /\ In(x) = {t}
    BY <1>1
  <2>2. In(x)' = {}
    BY <1>2, <1>3, <2>1
  <2> QED
    BY <2>2
<1>8. /\ splits' \in Seq(Split) /\ Distinct(splits')
      /\ saved' \in Seq(Nat) /\ layout' \in Seq(Nat)
  BY DEF IInv, TypeOK, Row
<1> QED
  BY <1>3, <1>4, <1>5, <1>6, <1>7, <1>8, Assembled

\* Closing a tab keeps the invariant, its split emptied or not.
LEMMA CloseTabKeepsIInv ==
    ASSUME IInv, NEW t \in Tab, CloseTab(t)
    PROVE  IInv' /\ Opened' = Opened \ {t} /\ menu'.merged \subseteq Opened'
PROOF
<1>1. PICK left \in Leaves(t, DeleteClient(menu, t)) :
        /\ shown' = [shown EXCEPT ![home[t]] = left.shown]
        /\ dying' = left.dying /\ cur' = left.cur /\ menu' = left.menu
  BY DEF CloseTab
<1>2. /\ Settled /\ t \in Opened /\ home' = [home EXCEPT ![t] = NoSplit]
      /\ layout' = <<>> /\ UNCHANGED <<splits, saved>>
  BY DEF CloseTab, Opened
<1>3. Opened' = Opened \ {t} /\ Opened \subseteq Tab
  BY <1>2, InAfter DEF IInv, Opened
<1>4. MenuOf(DeleteClient(menu, t), Opened \ {t})
  BY MenuIsOf, DeletedMenu
<1>5. /\ MenuOf(left.menu, Opened \ {t}) /\ left.shown \in Tab \cup {NoTab}
  <2>1. /\ IF In(home[t]) = {t}
           THEN left.dying = {home[t]} /\ left.shown = NoTab
           ELSE left.dying = {} /\ left.shown \in In(home[t]) \ {t}
        /\ MenuOf(left.menu, Opened \ {t})
    BY <1>2, <1>3, <1>4, Left
  <2> QED
    BY <2>1 DEF In
<1>6. home[t] \in Split /\ home[t] # NoSplit
  BY <1>2, Placed, SplitAssumption
<1>7. /\ shown' \in [Split -> Tab \cup {NoTab}]
      /\ \A x \in Split : shown'[x] = IF x = home[t] THEN left.shown
                                      ELSE IF x = NoSplit THEN t ELSE shown[x]
  BY <1>1, <1>5, <1>6, SplitAssumption DEF IInv, TypeOK
<1>8. MenuOf(menu', Opened')
  BY <1>1, <1>3, <1>5
<1>9. IInv'
  <2> DEFINE T == Opened \ {t}
             m == DeleteClient(menu, t)
  <2>1. T \in SUBSET Tab /\ Opened \ {t} \subseteq T /\ MenuOf(m, T) /\ left \in Leaves(t, m)
    BY <1>3, <1>4
  <2> HIDE DEF T, m
  <2> QED
    BY <1>1, <1>2, <1>6, <1>7, <1>8, <2>1, LeavingKeepsIInv
<1> QED
  BY <1>3, <1>8, <1>9 DEF MenuOf

\* Moving a tab to another split keeps the invariant and loses no tab.
LEMMA MoveKeepsIInv ==
    ASSUME IInv, NEW t \in Tab, NEW s \in Split, DropOnSplit(t, s) \/ MoveClient(t, s)
    PROVE  IInv' /\ Opened' = Opened
PROOF
<1>1. PICK left \in Leaves(t, menu) :
        /\ Rehome(t, s, left)
        /\ cur' = left.cur \/ cur' = s
        /\ menu' = left.menu \/ menu' = Focused(left.menu, t)
  BY DEF DropOnSplit, MoveClient
<1>2. /\ Settled /\ t \in Opened /\ s # home[t] /\ home' = [home EXCEPT ![t] = s]
      /\ shown' = [shown EXCEPT ![home[t]] = left.shown, ![s] = t]
      /\ dying' = left.dying /\ layout' = <<>> /\ UNCHANGED <<splits, saved>>
  BY <1>1 DEF Rehome, DropOnSplit, MoveClient, Opened
<1>3. s \in Range(splits) /\ s # NoSplit
  <2>1. CASE DropOnSplit(t, s)
    BY <2>1, SplitAssumption DEF DropOnSplit, Live
  <2>2. CASE MoveClient(t, s)
    <3>1. PICK u \in In(s) : u \in Opened /\ home[u] = s
      BY <2>2, Placed DEF In, MoveClient
    <3> QED
      BY <3>1, Placed, SplitAssumption
  <2> QED
    BY <2>1, <2>2
<1>4. Opened' = Opened
  <2>1. Opened' = Opened \cup {t}
    BY <1>2, <1>3, InAfter DEF IInv
  <2> QED
    BY <1>2, <2>1
<1>5. MenuOf(menu, Opened) /\ Opened \subseteq Tab
  BY MenuIsOf
<1>6. /\ MenuOf(left.menu, Opened) /\ left.shown \in Tab \cup {NoTab}
  <2>1. /\ IF In(home[t]) = {t}
           THEN left.dying = {home[t]} /\ left.shown = NoTab
           ELSE left.dying = {} /\ left.shown \in In(home[t]) \ {t}
        /\ MenuOf(left.menu, Opened)
    BY <1>2, <1>5, Left
  <2> QED
    BY <2>1 DEF In
<1>7. /\ shown' \in [Split -> Tab \cup {NoTab}]
      /\ \A x \in Split : shown'[x] = IF x = home[t] THEN left.shown
                                      ELSE IF x = s THEN t ELSE shown[x]
  <2>1. home[t] \in Split /\ shown \in [Split -> Tab \cup {NoTab}]
    BY <1>2, Placed DEF IInv, TypeOK
  <2> QED
    BY <1>2, <1>6, <2>1
<1>8. MenuOf(menu', Opened')
  <2>1. MenuOf(Focused(left.menu, t), Opened)
    BY <1>2, <1>5, <1>6, FocusedMenu
  <2>2. menu' = Focused(left.menu, t) \/ menu' = left.menu
    BY <1>1 DEF DropOnSplit, MoveClient
  <2> QED
    BY <1>4, <1>6, <2>1, <2>2
<1>9. IInv'
  BY <1>1, <1>2, <1>3, <1>5, <1>7, <1>8, LeavingKeepsIInv
<1> QED
  BY <1>4, <1>9

\* Dropping the only tab on its own split keeps the invariant: the split is doomed with one tab.
LEMMA DropAloneKeepsIInv ==
    ASSUME IInv, NEW t \in Tab, DropAlone(t)
    PROVE  IInv'
PROOF
<1>1. PICK left \in Leaves(t, menu) :
        dying' = left.dying /\ cur' = left.cur /\ menu' = left.menu
  BY DEF DropAlone
<1>2. /\ Settled /\ t \in Opened /\ In(home[t]) = {t}
      /\ layout' = <<>> /\ UNCHANGED <<splits, home, shown, saved>>
  BY DEF DropAlone, Opened
<1>3. MenuOf(menu, Opened) /\ Opened \subseteq Tab
  BY MenuIsOf
<1>4. /\ dying' = {home[t]} /\ cur' \in (Range(splits) \ dying') \cup {NoSplit}
      /\ MenuOf(menu', Opened)
  BY <1>1, <1>2, <1>3, Left
<1>5. home[t] \in Range(splits)
  BY <1>2, Placed
<1>6. Opened' = Opened /\ \A x : In(x)' = In(x)
  BY <1>2, SameIn
<1>7. /\ splits' \in Seq(Split) /\ Distinct(splits') /\ dying' \subseteq Range(splits')
      /\ home' \in [Tab -> Split \cup {NoSplit}] /\ shown' \in [Split -> Tab \cup {NoTab}]
      /\ cur' \in (Range(splits') \ dying') \cup {NoSplit}
      /\ MenuOf(menu', Opened') /\ saved' \in Seq(Nat) /\ layout' \in Seq(Nat)
  BY <1>2, <1>4, <1>5, <1>6 DEF IInv, TypeOK, Row
<1>8. /\ \A u \in Opened' : home'[u] \in Range(splits')
      /\ \A x \in Split : IF In(x)' = {} THEN shown'[x] = NoTab ELSE shown'[x] \in In(x)'
  BY <1>2, <1>6 DEF IInv, TabsAreReachable
<1>9. \A x \in dying' : \A v, u \in In(x)' : v = u
  BY <1>2, <1>4, <1>6
<1> QED
  BY <1>7, <1>8, <1>9, Assembled

\* Moving the current tab to a new split keeps the invariant and loses no tab.
LEMMA NewSplitKeepsIInv ==
    ASSUME IInv, MoveTabToNewSplit
    PROVE  IInv' /\ Opened' = Opened
PROOF
<1> DEFINE t == shown[cur]
<1>1. PICK new \in New, u \in In(cur) \ {shown[cur]} :
        /\ splits' = SplitHorizontally(new)
        /\ home' = [home EXCEPT ![t] = new]
        /\ shown' = [shown EXCEPT ![cur] = u, ![new] = t]
        /\ cur' = new
  BY DEF MoveTabToNewSplit
<1>2. /\ dying = {} /\ cur \in Split /\ menu' = Focused(menu, t)
      /\ layout' = <<>> /\ UNCHANGED <<dying, saved>>
  BY DEF MoveTabToNewSplit, Settled, IInv, TypeOK
<1>3. /\ SplitHorizontally(new) \in Seq(Split) /\ Distinct(SplitHorizontally(new))
      /\ Range(SplitHorizontally(new)) = Range(splits) \cup {new}
      /\ new \in Split /\ new # NoSplit /\ new \notin Range(splits)
  BY NewRow DEF New
<1>4. t \in In(cur) /\ t \in Opened /\ t \in Tab /\ home[t] = cur /\ u \in Tab
  <2>1. In(cur) # {}
    BY <1>1
  <2>2. t \in In(cur)
    BY <1>2, <2>1, Placed
  <2> QED
    BY <1>1, <1>2, <2>2, Placed DEF In
<1>5. cur \in Range(splits) /\ cur # new /\ In(new) = {}
  <2>1. cur \in Range(splits)
    BY <1>4, Placed
  <2>2. \A v \in In(new) : v \in Opened /\ home[v] = new
    BY <1>3, Placed DEF In
  <2> QED
    BY <1>3, <2>1, <2>2, Placed
<1> HIDE DEF t
<1>6. /\ \A x \in Split : In(x)' = IF x = new THEN In(x) \cup {t} ELSE In(x) \ {t}
      /\ Opened' = Opened \cup {t}
      /\ home' \in [Tab -> Split \cup {NoSplit}]
  BY <1>1, <1>3, <1>4, InAfter DEF IInv
<1>7. Opened' = Opened
  BY <1>4, <1>6
<1>8. MenuOf(menu', Opened')
  BY <1>2, <1>4, <1>7, MenuIsOf, FocusedMenu
<1>9. /\ shown' \in [Split -> Tab \cup {NoTab}]
      /\ \A x \in Split : shown'[x] = IF x = new THEN t ELSE IF x = cur THEN u ELSE shown[x]
  <2>1. shown \in [Split -> Tab \cup {NoTab}]
    BY DEF IInv, TypeOK
  <2> QED
    BY <1>1, <1>2, <1>3, <1>4, <1>5, <2>1
<1>10. \A x \in Split : IF In(x)' = {} THEN shown'[x] = NoTab ELSE shown'[x] \in In(x)'
  <2> TAKE x \in Split
  <2>1. CASE x = new
    BY <1>6, <1>9, <2>1
  <2>2. CASE x = cur
    <3>1. u \in In(cur) \ {t}
      BY <1>1 DEF t
    <3> QED
      BY <1>5, <1>6, <1>9, <2>2, <3>1
  <2>3. CASE x # new /\ x # cur
    <3>1. t \notin In(x)
      BY <1>4, <2>3 DEF In
    <3>2. In(x)' = In(x) \ {t} /\ shown'[x] = shown[x]
      BY <1>6, <1>9, <2>3
    <3>3. In(x)' = In(x)
      BY <3>1, <3>2
    <3>4. IF In(x) = {} THEN shown[x] = NoTab ELSE shown[x] \in In(x)
      BY DEF IInv, TabsAreReachable
    <3> QED
      BY <3>2, <3>3, <3>4
  <2> QED
    BY <2>1, <2>2, <2>3
<1>11. \A v \in Opened' : home'[v] \in Range(splits')
  <2> TAKE v \in Opened'
  <2>1. v \in Opened /\ v \in Tab
    BY <1>7 DEF Opened
  <2>2. home'[v] = new \/ home'[v] = home[v]
    BY <1>1, <1>4, <2>1 DEF IInv, TypeOK
  <2> QED
    BY <1>1, <1>3, <2>1, <2>2, Placed
<1>12. /\ splits' \in Seq(Split) /\ Distinct(splits') /\ dying' \subseteq Range(splits')
       /\ cur' \in (Range(splits') \ dying') \cup {NoSplit}
       /\ \A x \in dying' : \A v, w \in In(x)' : v = w
  BY <1>1, <1>2, <1>3
<1>13. saved' \in Seq(Nat) /\ layout' \in Seq(Nat)
  BY <1>2 DEF IInv, TypeOK
<1>14. IInv'
  BY <1>6, <1>8, <1>9, <1>10, <1>11, <1>12, <1>13, Assembled
<1> QED
  BY <1>7, <1>14

\* A split that is deleted takes at most one tab with it.
LEMMA DeleteKeepsIInv ==
    ASSUME IInv, NEW s \in Split, Delete(s)
    PROVE  /\ IInv' /\ Opened' = Opened \ In(s)
           /\ \A t, u \in In(s) : t = u
PROOF
<1> DEFINE i == At(splits, s)
<1>1. /\ s \in dying /\ s \in Range(splits) /\ s # NoSplit
      /\ \A t, u \in In(s) : t = u
  BY SplitAssumption DEF Delete, IInv, Row, TabsAreReachable
<1>2. splits \in Seq(Split) /\ Distinct(splits)
  BY DEF IInv, TypeOK, Row
<1>3. i \in 1..Len(splits) /\ splits[i] = s
  BY <1>1, <1>2, AtFacts
<1> HIDE DEF i
<1>4. /\ splits' = RemoveAt(splits, i) /\ dying' = dying \ {s}
      /\ home' = [t \in Tab |-> IF home[t] = s THEN NoSplit ELSE home[t]]
      /\ shown' = [shown EXCEPT ![s] = NoTab]
      /\ menu' = [active |-> IF menu.active \in In(s) THEN NoTab ELSE menu.active,
                  merged |-> menu.merged \ In(s)]
      /\ layout' = <<>> /\ UNCHANGED <<cur, saved>>
  BY DEF Delete, i
<1>5. splits' \in Seq(Split) /\ Distinct(splits') /\ Range(splits') = Range(splits) \ {s}
  BY <1>2, <1>3, <1>4, RemoveFacts, RemoveDistinct
<1>6. /\ \A x \in Split : In(x)' = IF x = s THEN {} ELSE In(x)
      /\ Opened' = Opened \ In(s)
      /\ home' \in [Tab -> Split \cup {NoSplit}]
  BY <1>1, <1>4, SplitAssumption DEF In, Opened, IInv, TypeOK
<1>7. MenuOf(menu', Opened')
  <2>1. MenuOf(menu, Opened)
    BY MenuIsOf
  <2>2. NoTab \notin Opened
    BY SplitAssumption DEF Opened
  <2> QED
    BY <1>4, <1>6, <2>1, <2>2 DEF MenuOf
<1>8. /\ shown' \in [Split -> Tab \cup {NoTab}]
      /\ \A x \in Split : IF In(x)' = {} THEN shown'[x] = NoTab ELSE shown'[x] \in In(x)'
  <2>1. /\ shown \in [Split -> Tab \cup {NoTab}]
        /\ \A x \in Split : IF In(x) = {} THEN shown[x] = NoTab ELSE shown[x] \in In(x)
    BY DEF IInv, TypeOK, TabsAreReachable
  <2> QED
    BY <1>4, <1>6, <2>1
<1>9. \A t \in Opened' : home'[t] \in Range(splits')
  <2> TAKE t \in Opened'
  <2>1. t \in Opened /\ t \in Tab /\ t \notin In(s)
    BY <1>6 DEF Opened
  <2>2. home[t] # s /\ home'[t] = home[t]
    BY <1>4, <2>1 DEF In
  <2> QED
    BY <1>5, <2>1, <2>2, Placed
<1>10. \A x \in dying' : \A t, u \in In(x)' : t = u
  <2> TAKE x \in dying'
  <2>1. x \in dying /\ x # s /\ x \in Split
    BY <1>4 DEF IInv, TypeOK
  <2>2. In(x)' = In(x)
    BY <1>6, <2>1
  <2> QED
    BY <2>1, <2>2 DEF IInv, TabsAreReachable
<1>11. /\ dying' \subseteq Range(splits')
       /\ cur' \in (Range(splits') \ dying') \cup {NoSplit}
  <2>1. dying \subseteq Range(splits) /\ cur \in (Range(splits) \ dying) \cup {NoSplit}
    BY DEF IInv, Row, CurrentIsLive, Live
  <2> QED
    BY <1>1, <1>4, <1>5, <2>1
<1>12. saved' \in Seq(Nat) /\ layout' \in Seq(Nat)
  BY <1>4 DEF IInv, TypeOK
<1>13. IInv'
  BY <1>5, <1>6, <1>7, <1>8, <1>9, <1>10, <1>11, <1>12, Assembled
<1> QED
  BY <1>1, <1>6, <1>13

\* The empty tab area.
LEMMA Nothing ==
    ASSUME splits' = <<>>, home' = [t \in Tab |-> NoSplit], shown' = [s \in Split |-> NoTab],
           cur' = NoSplit, menu' = [active |-> NoTab, merged |-> {}], dying' = {},
           saved' \in Seq(Nat), layout' \in Seq(Nat)
    PROVE  IInv' /\ Opened' = {}
PROOF
<1>1. splits' \in Seq(Split) /\ Distinct(splits')
  BY DEF Distinct
<1>2. Opened' = {} /\ \A s \in Split : In(s)' = {}
  BY SplitAssumption DEF Opened, In
<1>3. MenuOf(menu', Opened')
  BY SplitAssumption DEF MenuOf
<1>4. \A s \in Split : IF In(s)' = {} THEN shown'[s] = NoTab ELSE shown'[s] \in In(s)'
  BY <1>2
<1> QED
  BY <1>1, <1>2, <1>3, <1>4, Assembled

\* A restart leads back to an empty row.
LEMMA RestartKeepsIInv ==
    ASSUME IInv, Restart
    PROVE  IInv' /\ Opened' = {}
PROOF
<1>1. Counts \in Seq(Nat)
  <2>1. splits \in Seq(Split)
    BY DEF IInv, TypeOK
  <2>2. \A i \in 1..Len(splits) : Cardinality(In(splits[i])) \in Nat
    <3> TAKE i \in 1..Len(splits)
    <3>1. In(splits[i]) \subseteq Tab
      BY DEF In
    <3> QED
      BY <3>1, SplitAssumption, FS_Subset, FS_CardinalityType
  <2>3. Len(splits) \in Nat
    BY <2>1
  <2> QED
    BY <2>2, <2>3 DEF Counts
<1>2. <<>> \in Seq(Nat)
  OBVIOUS
<1>3. saved' \in Seq(Nat) /\ layout' \in Seq(Nat)
  BY <1>1, <1>2 DEF Restart
<1> QED
  BY <1>3, Nothing DEF Restart, Settled

\* The empty row satisfies the invariant.
LEMMA InitIInv == Init => IInv
PROOF
<1> SUFFICES ASSUME Init PROVE IInv
  OBVIOUS
<1>1. /\ splits \in Seq(Split) /\ Distinct(splits) /\ <<>> \in Seq(Nat)
      /\ \A s \in Split : In(s) = {}
      /\ Opened = {}
  BY SplitAssumption DEF Init, Distinct, Opened, In
<1> QED
  BY <1>1, SplitAssumption
  DEF Init, IInv, TypeOK, Row, CurrentIsLive, MenusFollowTheTab, TabsAreReachable

-----------------------------------------------------------------------------
(* Every step *)

\* The steps that open a tab.
Opening(t) == OpenFile(t) \/ SplitTab(t) \/ \E s \in Split : OpenIn(t, s) \/ OpenAt(t, s)

\* The steps that change neither tabs nor splits.
Showing ==
    \/ \E t \in Tab : ShowTab(t) \/ SetCurrentClientIndex(t) \/ DropWithin(t)
    \/ \E s \in Split : Focus(s)
    \/ PageIsShown

\* The steps that take a tab from one split to another.
Moving ==
    \/ \E t \in Tab, s \in Split : DropOnSplit(t, s) \/ MoveClient(t, s)
    \/ MoveTabToNewSplit

\* The actions, sorted by what they do to the open tabs.
LEMMA Steps ==
    ASSUME Next
    PROVE  \/ \E t \in Tab : Opening(t) \/ CloseTab(t) \/ DropAlone(t)
           \/ Showing \/ Moving \/ (\E s \in Split : Delete(s)) \/ Restart
PROOF
  BY DEF Next, Opening, Showing, Moving

\* Every opening keeps the invariant.
LEMMA OpeningKeepsIInv ==
    ASSUME IInv, NEW t \in Tab, Opening(t)
    PROVE  IInv'
PROOF
  BY OpenKeepsIInv, OpenAtKeepsIInv DEF Opening

\* Every move keeps the invariant and loses no tab.
LEMMA MovingKeepsIInv ==
    ASSUME IInv, Moving
    PROVE  IInv' /\ Opened' = Opened
PROOF
  BY MoveKeepsIInv, NewSplitKeepsIInv DEF Moving

\* The invariant is inductive.
LEMMA StepKeepsIInv == IInv /\ [Next]_vars => IInv'
PROOF
<1> SUFFICES ASSUME IInv, [Next]_vars PROVE IInv'
  OBVIOUS
<1>1. CASE UNCHANGED vars
  BY <1>1 DEF vars, IInv, TypeOK, Row, Distinct, CurrentIsLive, Live, MenusFollowTheTab,
              TabsAreReachable, In, Opened
<1>2. ASSUME NEW t \in Tab, Opening(t) PROVE IInv'
  BY <1>2, OpeningKeepsIInv
<1>3. ASSUME NEW t \in Tab, CloseTab(t) PROVE IInv'
  BY <1>3, CloseTabKeepsIInv
<1>4. ASSUME NEW t \in Tab, DropAlone(t) PROVE IInv'
  BY <1>4, DropAloneKeepsIInv
<1>5. CASE Showing
  BY <1>5, ShowKeepsIInv DEF Showing
<1>6. CASE Moving
  BY <1>6, MovingKeepsIInv
<1>7. ASSUME NEW s \in Split, Delete(s) PROVE IInv'
  BY <1>7, DeleteKeepsIInv
<1>8. CASE Restart
  BY <1>8, RestartKeepsIInv
<1>9. CASE Next
  BY <1>2, <1>3, <1>4, <1>5, <1>6, <1>7, <1>8, <1>9, Steps
<1> QED
  BY <1>1, <1>9

\* The invariant holds throughout.
LEMMA AlwaysIInv == Spec => []IInv
PROOF
  BY InitIInv, StepKeepsIInv, PTL DEF Spec

\* Every variable keeps its type: rows of splits, homes of tabs, menus of
\* clients and the saved counts of a layout.
THEOREM Typing == Spec => []TypeOK
PROOF
<1>1. IInv => TypeOK
  BY DEF IInv
<1> QED
  BY <1>1, AlwaysIInv, PTL

\* currentTabWidget is null or a tab widget of the row that is not going to
\* be deleted, whatever is closed, dragged and moved in whatever order.
THEOREM CurrentSafety == Spec => []CurrentIsLive
PROOF
<1>1. IInv => CurrentIsLive
  BY DEF IInv
<1> QED
  BY <1>1, AlwaysIInv, PTL

\* The main window is merged with activeWidget and nothing else, and
\* activeWidget is one of the open tabs.
THEOREM MenuSafety == Spec => []MenusFollowTheTab
PROOF
<1>1. IInv => MenusFollowTheTab
  BY DEF IInv
<1> QED
  BY <1>1, AlwaysIInv, PTL

\* No open tab is out of the user's reach: its split is in the row, and a
\* split with tabs shows one of them.
THEOREM ReachSafety == Spec => []TabsAreReachable
PROOF
<1>1. IInv => TabsAreReachable
  BY DEF IInv
<1> QED
  BY <1>1, AlwaysIInv, PTL

-----------------------------------------------------------------------------
(* A split that loses its last tab is deleted *)

Emptied == \A s \in Split : In(s) # {} /\ In(s)' = {} /\ s \in Range(splits') => s \in dying'

\* The two ways for a tab to leave a split whose emptiness is noticed.
LEMMA LeavingEmpties ==
    ASSUME IInv, Settled, NEW t \in Opened, NEW s \in Split \cup {NoSplit},
           NEW T \in SUBSET Tab, Opened \ {t} \subseteq T, NEW m, MenuOf(m, T),
           NEW left \in Leaves(t, m),
           home' = [home EXCEPT ![t] = s], dying' = left.dying
    PROVE  Emptied
PROOF
<1>1. In(home[t]) = {t} => left.dying = {home[t]}
  BY Left
<1>2. \A x \in Split : In(x)' = IF x = s THEN In(x) \cup {t} ELSE In(x) \ {t}
  BY InAfter DEF IInv, Opened
<1>3. ASSUME NEW x \in Split, In(x) # {}, In(x)' = {} PROVE x \in dying'
  <2>1. In(x) = {t}
    BY <1>2, <1>3
  <2>2. x = home[t]
    BY <2>1 DEF In
  <2> QED
    BY <1>1, <2>1, <2>2
<1> QED
  BY <1>3 DEF Emptied

\* No step empties a split without dooming it.
LEMMA StepEmpties == IInv /\ [Next]_vars => Emptied
PROOF
<1> SUFFICES ASSUME IInv, [Next]_vars PROVE Emptied
  OBVIOUS
<1>1. ASSUME home' = home PROVE Emptied
  BY <1>1, SameIn DEF Emptied
<1>2. ASSUME NEW t \in Tab, Opening(t) PROVE Emptied
  <2>1. PICK s \in Split \cup {NoSplit} : home' = [home EXCEPT ![t] = s]
    BY <1>2 DEF Opening, OpenFile, OpenIn, SplitTab, OpenAt, AddTab, IInv, TypeOK, New
  <2>2. \A x \in Split : In(x)' = IF x = s THEN In(x) \cup {t} ELSE In(x) \ {t}
    BY <2>1, InAfter DEF IInv
  <2>3. \A x \in Split : t \notin In(x)
    BY <1>2, SplitAssumption DEF Opening, OpenFile, OpenIn, SplitTab, OpenAt, In
  <2> QED
    BY <2>2, <2>3 DEF Emptied
<1>3. ASSUME NEW t \in Tab, CloseTab(t) PROVE Emptied
  <2>1. Settled /\ t \in Opened /\ home' = [home EXCEPT ![t] = NoSplit]
    BY <1>3 DEF CloseTab, Opened
  <2>2. PICK left \in Leaves(t, DeleteClient(menu, t)) : dying' = left.dying
    BY <1>3 DEF CloseTab
  <2>3. Opened \ {t} \in SUBSET Tab /\ MenuOf(DeleteClient(menu, t), Opened \ {t})
    BY MenuIsOf, DeletedMenu
  <2> QED
    BY <2>1, <2>2, <2>3, LeavingEmpties
<1>4. ASSUME NEW t \in Tab, NEW s \in Split, DropOnSplit(t, s) \/ MoveClient(t, s)
      PROVE  Emptied
  <2>1. Settled /\ t \in Opened /\ home' = [home EXCEPT ![t] = s]
    BY <1>4 DEF DropOnSplit, MoveClient, Rehome, Opened
  <2>2. PICK left \in Leaves(t, menu) : dying' = left.dying
    BY <1>4 DEF DropOnSplit, MoveClient, Rehome
  <2>3. Opened \in SUBSET Tab /\ MenuOf(menu, Opened)
    BY MenuIsOf
  <2> QED
    BY <2>1, <2>2, <2>3, LeavingEmpties
<1>5. ASSUME MoveTabToNewSplit PROVE Emptied
  <2> DEFINE t == shown[cur]
  <2>1. PICK new \in New, u \in In(cur) \ {shown[cur]} : home' = [home EXCEPT ![t] = new]
    BY <1>5 DEF MoveTabToNewSplit
  <2>2. cur \in Split /\ new \in Split /\ t \in In(cur) /\ t \in Tab
    <3>1. cur \in Split /\ In(cur) # {}
      BY <1>5, <2>1 DEF MoveTabToNewSplit, IInv, TypeOK
    <3> QED
      BY <3>1, Placed DEF New, In
  <2>3. \A x \in Split : In(x)' = IF x = new THEN In(x) \cup {t} ELSE In(x) \ {t}
    BY <2>1, <2>2, InAfter DEF IInv
  <2>4. ASSUME NEW x \in Split, In(x) # {} PROVE In(x)' # {}
    <3>1. CASE x = cur
      BY <2>1, <2>3, <3>1
    <3>2. CASE x # cur
      <4>1. t \notin In(x)
        BY <2>2, <3>2 DEF In
      <4> QED
        BY <2>3, <2>4, <4>1
    <3> QED
      BY <3>1, <3>2
  <2> QED
    BY <2>4 DEF Emptied
<1>6. ASSUME NEW s \in Split, Delete(s) PROVE Emptied
  <2>1. splits \in Seq(Split) /\ Distinct(splits) /\ s \in Range(splits)
    BY <1>6 DEF Delete, IInv, TypeOK, Row
  <2>2. splits' = RemoveAt(splits, At(splits, s))
    BY <1>6 DEF Delete
  <2>3. s \notin Range(splits')
    BY <2>1, <2>2, AtFacts, RemoveDistinct
  <2>4. \A x \in Split \ {s} : In(x)' = In(x)
    BY <1>6, SplitAssumption DEF Delete, In, IInv, TypeOK
  <2> QED
    BY <2>3, <2>4 DEF Emptied
<1>7. ASSUME Restart PROVE Emptied
  <2>1. Range(splits') = {}
    BY <1>7 DEF Restart, Range
  <2> QED
    BY <2>1 DEF Emptied
<1>8. ASSUME NEW t \in Tab, DropAlone(t) PROVE Emptied
  BY <1>1, <1>8 DEF DropAlone
<1>9. CASE Showing
  <2>1. home' = home
    BY <1>9 DEF Showing, ShowTab, SetCurrentClientIndex, DropWithin, Focus, PageIsShown
  <2> QED
    BY <1>1, <2>1
<1>10. CASE Moving
  BY <1>4, <1>5, <1>10 DEF Moving
<1>11. CASE UNCHANGED vars
  BY <1>1, <1>11 DEF vars
<1>12. CASE Next
  BY <1>2, <1>3, <1>6, <1>7, <1>8, <1>9, <1>10, <1>12, Steps
<1> QED
  BY <1>11, <1>12

\* Whatever takes the last tab of a split away has the split deleted, unless
\* it is gone already: no empty tab widget is left behind.
THEOREM EmptiedSafety == Spec => EmptiedSplitsGo
PROOF
<1>1. IInv /\ [Next]_vars => [Emptied]_vars
  BY StepEmpties
<1> QED
  BY <1>1, AlwaysIInv, PTL DEF Spec, EmptiedSplitsGo, Emptied

-----------------------------------------------------------------------------
(* The row of splits implements the tab area *)

\* The merged menus are a value that the abstract tab area may have.
LEMMA OneMenu ==
    ASSUME MenusFollowTheTab
    PROVE  menu.merged \in Area!AtMostOneOf(Opened)
PROOF
  BY SplitAssumption DEF MenusFollowTheTab, Area!AtMostOneOf, Opened

\* Every opening is the abstract one.
LEMMA OpeningOpens ==
    ASSUME IInv, NEW t \in Tab, Opening(t)
    PROVE  Area!Open(t)
PROOF
<1>1. PICK s \in Split : home' = [home EXCEPT ![t] = s]
  BY DEF Opening, OpenFile, OpenIn, SplitTab, OpenAt, AddTab, IInv, TypeOK, New
<1>2. home[t] = NoSplit /\ menu' = Focused(menu, t)
  BY DEF Opening, OpenFile, OpenIn, SplitTab, OpenAt, AddTab
<1>3. t \notin Opened /\ s # NoSplit
  BY <1>2, SplitAssumption DEF Opened
<1>4. Opened' = Opened \cup {t}
  BY <1>1, <1>3, InAfter DEF IInv
<1>5. menu.active # t /\ menu.merged = {menu.active} \ {NoTab}
  BY <1>3, MenuIsOf, SplitAssumption DEF MenuOf
<1>6. Focused(menu, t).merged = {t} \ {NoTab}
  BY <1>5 DEF Focused
<1>7. menu'.merged = {t}
  BY <1>2, <1>6, SplitAssumption
<1> QED
  BY <1>3, <1>4, <1>7 DEF Area!Open

\* Every step is one of the abstract tab area, or a stutter.
LEMMA StepRefines == IInv /\ [Next]_vars => [Area!Next]_(Area!vars)
PROOF
<1> SUFFICES ASSUME IInv, [Next]_vars PROVE [Area!Next]_(Area!vars)
  OBVIOUS
<1>1. IInv'
  BY StepKeepsIInv
<1>2. menu'.merged \in Area!AtMostOneOf(Opened')
  <2>1. MenusFollowTheTab'
    BY <1>1 DEF IInv
  <2> QED
    BY <2>1, SplitAssumption DEF MenusFollowTheTab, Area!AtMostOneOf, Opened
<1>3. ASSUME Opened' = Opened PROVE Area!Next
  BY <1>2, <1>3 DEF Area!Next, Area!Arrange
<1>4. ASSUME NEW t \in Opened, Opened' = Opened \ {t} PROVE Area!Next
  <2>1. t \in Tab
    BY DEF Opened
  <2>2. Area!Close(t)
    BY <1>2, <1>4 DEF Area!Close
  <2> QED
    BY <2>1, <2>2 DEF Area!Next
<1>5. ASSUME NEW t \in Tab, Opening(t) PROVE Area!Next
  BY <1>5, OpeningOpens DEF Area!Next
<1>6. ASSUME NEW t \in Tab, CloseTab(t) PROVE Area!Next
  <2>1. t \in Opened
    BY <1>6 DEF CloseTab, Opened
  <2> QED
    BY <1>4, <1>6, <2>1, CloseTabKeepsIInv
<1>7. ASSUME NEW t \in Tab, DropAlone(t) PROVE Area!Next
  BY <1>3, <1>7, SameIn DEF DropAlone
<1>8. CASE Showing
  <2>1. home' = home
    BY <1>8 DEF Showing, ShowTab, SetCurrentClientIndex, DropWithin, Focus, PageIsShown
  <2> QED
    BY <1>3, <2>1, SameIn
<1>9. CASE Moving
  BY <1>3, <1>9, MovingKeepsIInv
<1>10. ASSUME NEW s \in Split, Delete(s) PROVE Area!Next
  <2>1. Opened' = Opened \ In(s) /\ \A t, u \in In(s) : t = u
    BY <1>10, DeleteKeepsIInv
  <2>2. CASE In(s) \cap Opened = {}
    BY <1>3, <2>1, <2>2
  <2>3. CASE In(s) \cap Opened # {}
    <3>1. PICK t \in Opened : t \in In(s)
      BY <2>3
    <3>2. In(s) = {t}
      BY <2>1, <3>1
    <3> QED
      BY <1>4, <2>1, <3>2
  <2> QED
    BY <2>2, <2>3
<1>11. CASE Restart
  BY <1>11, RestartKeepsIInv DEF Restart, Area!Next, Area!Quit
<1>12. CASE UNCHANGED vars
  BY <1>12, SameIn DEF vars, Area!vars
<1>13. CASE Next
  BY <1>5, <1>6, <1>7, <1>8, <1>9, <1>10, <1>11, <1>13, Steps
<1> QED
  BY <1>12, <1>13

\* The splits, their menus and their deferred deletions are one tab area to
\* the rest of the window: tabs come one at a time with their menus merged and
\* go one at a time, and everything else only arranges them.
THEOREM Refinement == Spec => ImplementsOpenTabs
PROOF
<1>1. Init => Area!Init
  BY SplitAssumption DEF Init, Area!Init, Opened
<1>2. IInv /\ [Next]_vars => [Area!Next]_(Area!vars)
  BY StepRefines
<1> QED
  BY <1>1, <1>2, AlwaysIInv, PTL DEF Spec, Area!Spec, ImplementsOpenTabs

-----------------------------------------------------------------------------
(* A saved layout comes back as it was *)

\* A saved layout has no empty split.
Positive == \A i \in 1..Len(layout) : layout[i] # 0

\* The splits of row are full but for the last one, which is filling up.
Filled(row) ==
    LET n == Len(row) IN
    /\ n \in 1..Len(layout)
    /\ \A i \in 1..n - 1 : Cardinality(In(row[i])) = layout[i]
    /\ IF saved = <<>>
       THEN n = Len(layout) /\ Cardinality(In(row[n])) >= layout[n]
       ELSE saved = layout /\ Cardinality(In(row[n])) < layout[n]

\* The tabs of a split are finitely many, and one more is counted as one.
LEMMA Count ==
    ASSUME NEW s
    PROVE  /\ IsFiniteSet(In(s)) /\ Cardinality(In(s)) \in Nat
           /\ \A t \in Tab : t \notin In(s) =>
                Cardinality(In(s) \cup {t}) = Cardinality(In(s)) + 1
PROOF
<1>1. IsFiniteSet(In(s))
  <2>1. In(s) \subseteq Tab
    BY DEF In
  <2> QED
    BY <2>1, SplitAssumption, FS_Subset
<1>2. Cardinality(In(s)) \in Nat
  BY <1>1, FS_CardinalityType
<1>3. ASSUME NEW t \in Tab, t \notin In(s)
      PROVE  Cardinality(In(s) \cup {t}) = Cardinality(In(s)) + 1
  BY <1>1, <1>3, FS_AddElement
<1> QED
  BY <1>1, <1>2, <1>3

\* addTab at the right end of the row fills the splits as they were saved.
LEMMA AddTabFills ==
    ASSUME IInv, layout # <<>>, Positive, NEW t \in Tab, home[t] = NoSplit,
           NEW row \in Seq(Split), Distinct(row), Range(splits) \subseteq Range(row),
           Filled(row), AddTab(t, row[Len(row)], row), UNCHANGED layout
    PROVE  RestoredAsSaved'
PROOF
<1> DEFINE n == Len(row)
           s == row[n]
           K(x) == Cardinality({u \in Tab : home'[u] = x})
<1>0. n \in Nat /\ n >= 1 /\ n <= Len(layout) /\ layout \in Seq(Nat) /\ Len(layout) \in Nat
  BY DEF Filled, IInv, TypeOK
<1>1. s \in Range(row) /\ s \in Split
  BY <1>0 DEF Range
<1>2. At(row, s) = n
  <2>1. At(row, s) \in 1..Len(row) /\ row[At(row, s)] = s
    BY <1>1, AtFacts
  <2> QED
    BY <1>0, <2>1 DEF Distinct
<1>3. /\ home' = [home EXCEPT ![t] = s]
      /\ \/ /\ n <= Len(saved) /\ Cardinality(In(s)) + 1 = saved[n] /\ n # Len(saved)
            /\ \E new \in Split \ Range(row) : splits' = InsertAt(row, n + 1, new) /\ cur' = new
            /\ saved' = saved
         \/ /\ ~(n <= Len(saved) /\ Cardinality(In(s)) + 1 = saved[n] /\ n # Len(saved))
            /\ splits' = row /\ cur' = s
            /\ saved' = IF \/ n <= Len(saved) /\ Cardinality(In(s)) + 1 = saved[n]
                           \/ n > Len(saved)
                        THEN <<>> ELSE saved
  BY <1>2 DEF AddTab
<1>4. \A x \in Split : In(x)' = IF x = s THEN In(x) \cup {t} ELSE In(x) \ {t}
  BY <1>1, <1>3, InAfter DEF IInv
<1>5. \A x \in Split : t \notin In(x)
  BY SplitAssumption DEF In
<1>6. /\ Cardinality(In(s)) \in Nat
      /\ Cardinality(In(s)') = Cardinality(In(s)) + 1
  <2>1. In(s)' = In(s) \cup {t}
    BY <1>1, <1>4
  <2> QED
    BY <1>1, <1>5, <2>1, Count
<1>7. \A x \in Split : x # s => In(x)' = In(x)
  <2> SUFFICES ASSUME NEW x \in Split, x # s PROVE In(x)' = In(x)
    OBVIOUS
  <2>1. In(x)' = In(x) \ {t} /\ t \notin In(x)
    BY <1>4, <1>5
  <2> QED
    BY <2>1
<1>8. \A i \in 1..n - 1 : row[i] \in Split /\ row[i] # s /\ Cardinality(In(row[i])') = layout[i]
  <2> TAKE i \in 1..n - 1
  <2>1. row[i] \in Split /\ row[i] # s
    BY <1>0 DEF Distinct
  <2>2. In(row[i])' = In(row[i])
    BY <1>7, <2>1
  <2> QED
    BY <2>1, <2>2 DEF Filled
<1>9. \A i \in 1..n - 1 : K(row[i]) = layout[i]
  BY <1>8 DEF In
<1>10. K(s) = Cardinality(In(s)) + 1
  BY <1>6 DEF In
<1>11. \A i \in 1..Len(layout) : layout[i] \in Nat \ {0}
  BY <1>0 DEF Positive
<1>12. /\ layout' = layout
       /\ IF saved = <<>>
          THEN n = Len(layout) /\ Cardinality(In(s)) >= layout[n]
          ELSE saved = layout /\ Cardinality(In(s)) < layout[n]
  BY DEF Filled
<1>13. Len(<<>>) = 0
  OBVIOUS
<1>14. /\ \A i \in 1..n - 1 : K(row[i]) = layout[i]
      /\ K(s) = Cardinality(In(s)) + 1
  BY <1>9, <1>10
<1>15. \A i : K(splits'[i]) = Cardinality(In(splits[i])')
  BY DEF In
<1> HIDE DEF n, K
<1>16. CASE /\ n <= Len(saved) /\ Cardinality(In(s)) + 1 = saved[n] /\ n # Len(saved)
            /\ \E new \in Split \ Range(row) : splits' = InsertAt(row, n + 1, new) /\ cur' = new
            /\ saved' = saved
  <2>1. PICK new \in Split \ Range(row) : splits' = InsertAt(row, n + 1, new) /\ cur' = new
    BY <1>16
  <2>2. saved = layout /\ n < Len(layout)
    BY <1>0, <1>12, <1>13, <1>16
  <2>3. /\ splits' \in Seq(Split) /\ Len(splits') = n + 1
        /\ \A j \in 1..n + 1 : splits'[j] = IF j < n + 1 THEN row[j] ELSE new
    <3> DEFINE k == n + 1
    <3>1. k \in Nat /\ k = Len(row) + 1 /\ new \in Split
      BY <1>0 DEF n
    <3>2. splits' = InsertAt(row, k, new)
      BY <2>1
    <3> HIDE DEF k
    <3>3. /\ splits' \in Seq(Split) /\ Len(splits') = k
          /\ \A j \in 1..k : splits'[j] = IF j < k THEN row[j] ELSE new
      BY <3>1, <3>2, InsertAtEnd
    <3> QED
      BY <3>3 DEF k
  <2>4. \A u \in Tab : home'[u] # new
    <3>1. new \notin Range(splits) /\ new # s /\ new # NoSplit
      BY <1>1, SplitAssumption
    <3>2. \A u \in Tab : home[u] # new
      BY <3>1, Placed DEF Opened
    <3> QED
      BY <1>3, <3>1, <3>2 DEF IInv, TypeOK
  <2>5. K(new) = 0
    <3>1. {u \in Tab : home'[u] = new} = {}
      BY <2>4
    <3> QED
      BY <3>1, FS_EmptySet DEF K
  <2>6. \A i \in 1..(n + 1) - 1 : K(splits'[i]) = layout[i]
    <3> TAKE i \in 1..(n + 1) - 1
    <3>1. splits'[i] = row[i]
      BY <1>0, <2>3
    <3>2. CASE i = n
      BY <1>14, <1>16, <2>2, <3>1, <3>2
    <3>3. CASE i # n
      BY <1>0, <1>14, <3>1, <3>3
    <3> QED
      BY <3>2, <3>3
  <2>7. 0 < layout[n + 1] /\ splits'[n + 1] = new
    BY <1>0, <1>11, <2>2, <2>3
  <2>8. saved' = layout' /\ layout' # <<>>
    BY <1>12, <1>16, <2>2
  <2>9. /\ Len(splits') = n + 1 /\ n + 1 <= Len(layout') /\ cur' = splits'[n + 1]
        /\ \A i \in 1..(n + 1) - 1 : Cardinality(In(splits[i])') = layout'[i]
        /\ Cardinality(In(splits[n + 1])') < layout'[n + 1]
    <3>1. Len(splits') = n + 1 /\ n + 1 <= Len(layout') /\ cur' = splits'[n + 1]
      BY <1>0, <1>12, <2>1, <2>2, <2>3, <2>7
    <3>2. \A i \in 1..(n + 1) - 1 : Cardinality(In(splits[i])') = layout'[i]
      BY <1>12, <1>15, <2>6
    <3>3. Cardinality(In(splits[n + 1])') < layout'[n + 1]
      BY <1>12, <1>15, <2>5, <2>7
    <3> QED
      BY <3>1, <3>2, <3>3
  <2>10. n + 1 \in Nat
    BY <1>0
  <2> QED
    BY <2>8, <2>9, <2>10 DEF RestoredAsSaved
<1>17. CASE /\ ~(n <= Len(saved) /\ Cardinality(In(s)) + 1 = saved[n] /\ n # Len(saved))
            /\ splits' = row /\ cur' = s
            /\ saved' = IF \/ n <= Len(saved) /\ Cardinality(In(s)) + 1 = saved[n]
                           \/ n > Len(saved)
                        THEN <<>> ELSE saved
  <2>1. /\ Len(splits') = n /\ splits'[n] = s
        /\ \A i \in 1..n - 1 : K(splits'[i]) = layout[i]
    BY <1>14, <1>17 DEF n
  <2>2. CASE saved = <<>>
    <3>1. saved' = <<>>
      BY <1>0, <1>13, <1>17, <2>2
    <3>2. n = Len(layout) /\ K(s) >= layout[n]
      BY <1>0, <1>6, <1>14, <1>11, <1>12, <2>2
    <3> QED
      BY <1>0, <1>12, <1>15, <1>17, <2>1, <3>1, <3>2 DEF RestoredAsSaved
  <2>3. CASE saved # <<>>
    <3>1. saved = layout /\ Cardinality(In(s)) < layout[n]
      BY <1>12, <2>3
    <3>2. CASE Cardinality(In(s)) + 1 = layout[n]
      <4>1. saved' = <<>> /\ n = Len(layout)
        BY <1>0, <1>17, <3>1, <3>2
      <4>2. K(s) >= layout[n]
        BY <1>0, <1>14, <1>11, <3>2
      <4> QED
        BY <1>0, <1>12, <1>15, <1>17, <2>1, <4>1, <4>2 DEF RestoredAsSaved
    <3>3. CASE Cardinality(In(s)) + 1 # layout[n]
      <4>1. saved' = layout
        BY <1>0, <1>17, <3>1, <3>3
      <4>2. K(s) < layout[n]
        BY <1>0, <1>6, <1>14, <1>11, <3>1, <3>3
      <4> QED
        BY <1>0, <1>12, <1>15, <1>17, <2>1, <4>1, <4>2 DEF RestoredAsSaved
    <3> QED
      BY <3>2, <3>3
  <2> QED
    BY <2>2, <2>3
<1> QED
  BY <1>3, <1>16, <1>17

RInv == IInv /\ RestoredAsSaved /\ Positive

\* The invariant about restored layouts is inductive.
LEMMA StepRestores == RInv /\ [Next]_vars => RInv'
PROOF
<1> SUFFICES ASSUME RInv, [Next]_vars PROVE RestoredAsSaved' /\ Positive'
  BY StepKeepsIInv DEF RInv
<1>1. splits \in Seq(Split) /\ Distinct(splits) /\ layout \in Seq(Nat) /\ IInv
  BY DEF RInv, IInv, TypeOK, Row
<1>2. ASSUME layout' = <<>> PROVE RestoredAsSaved' /\ Positive'
  BY <1>2 DEF RestoredAsSaved, Positive
<1>3. ASSUME UNCHANGED <<splits, home, cur, saved, layout>> PROVE RestoredAsSaved' /\ Positive'
  BY <1>3 DEF RInv, RestoredAsSaved, Positive, In
<1>4. ASSUME NEW t \in Tab, OpenFile(t), layout # <<>> PROVE RestoredAsSaved' /\ Positive'
  <2>1. home[t] = NoSplit /\ layout' = layout
    BY <1>4 DEF OpenFile
  <2>2. Positive'
    BY <2>1 DEF RInv, Positive
  <2>3. CASE cur # NoSplit
    <3>1. cur \in Range(splits)
      BY <1>1, <2>3 DEF IInv, CurrentIsLive, Live
    <3>2. Len(splits) \in Nat /\ Len(splits) > 0
      BY <1>1, <3>1 DEF Range
    <3>3. Filled(splits) /\ cur = splits[Len(splits)]
      BY <1>4, <3>2 DEF RInv, RestoredAsSaved, Filled
    <3>4. AddTab(t, splits[Len(splits)], splits)
      BY <1>4, <2>3, <3>3 DEF OpenFile
    <3> QED
      BY <1>1, <1>4, <2>1, <2>2, <3>3, <3>4, AddTabFills DEF RInv
  <2>4. CASE cur = NoSplit
    <3>1. PICK new \in New : AddTab(t, new, SplitHorizontally(new))
      BY <1>4, <2>4 DEF OpenFile
    <3>2. Len(splits) = 0
      <4>1. Len(splits) > 0 => cur \in Split
        BY <1>1, <1>4 DEF RInv, RestoredAsSaved
      <4> QED
        BY <1>1, <2>4, <4>1, SplitAssumption
    <3>3. saved = layout /\ Len(layout) \in Nat /\ Len(layout) > 0
      BY <1>1, <1>4, <3>2 DEF RInv, RestoredAsSaved
    <3> DEFINE row == SplitHorizontally(new)
    <3>4. row \in Seq(Split) /\ Distinct(row) /\ Range(splits) \subseteq Range(row)
      BY <1>1, NewRow
    <3>5. Len(row) = 1 /\ row[1] = new
      <4>1. new \in Split /\ At(splits, cur) = 0
        BY <1>1, <3>2 DEF At, New
      <4> DEFINE k == At(splits, cur) + 1
      <4>2. k \in Nat /\ k = 1 /\ k = Len(splits) + 1 /\ row = InsertAt(splits, k, new)
        BY <3>2, <4>1 DEF SplitHorizontally
      <4> HIDE DEF k, row
      <4>3. splits \in Seq(Split) /\ new \in Split /\ k \in Nat /\ k = Len(splits) + 1
        BY <1>1, <4>1, <4>2
      <4>4. /\ Len(InsertAt(splits, k, new)) = k
            /\ \A j \in 1..k : InsertAt(splits, k, new)[j] = IF j < k THEN splits[j] ELSE new
        BY <4>3, InsertAtEnd
      <4> QED
        BY <4>2, <4>4
    <3>6. Cardinality(In(new)) = 0
      <4>1. In(new) = {}
        BY <1>1, Placed DEF New, In, Opened
      <4> QED
        BY <4>1, FS_EmptySet
    <3> HIDE DEF row
    <3>7. Filled(row)
      <4>1. 0 < layout[1]
        BY <1>1, <3>3 DEF RInv, Positive
      <4> QED
        BY <1>4, <3>3, <3>5, <3>6, <4>1 DEF Filled
    <3>8. AddTab(t, row[Len(row)], row)
      BY <3>1, <3>5 DEF row
    <3> QED
      BY <1>1, <1>4, <2>1, <2>2, <3>4, <3>7, <3>8, AddTabFills DEF RInv
  <2> QED
    BY <2>3, <2>4
<1>5. ASSUME Restart PROVE RestoredAsSaved' /\ Positive'
  <2>1. /\ saved' = layout' /\ splits' = <<>>
        /\ layout' = <<>> \/ (layout' = Counts /\ 0 \notin Range(Counts))
    BY <1>5 DEF Restart
  <2>2. RestoredAsSaved'
    BY <2>1 DEF RestoredAsSaved
  <2>3. ASSUME layout' = Counts, 0 \notin Range(Counts) PROVE Positive'
    BY <2>3 DEF Positive, Range, Counts
  <2> QED
    BY <1>2, <2>1, <2>2, <2>3
<1>6. CASE UNCHANGED vars
  BY <1>3, <1>6 DEF vars
<1>7. CASE Next
  <2>1. \/ layout' = <<>>
        \/ \E t \in Tab : OpenFile(t)
        \/ PageIsShown \/ Restart
    BY <1>7 DEF Next, SplitTab, CloseTab, ShowTab, SetCurrentClientIndex, DropWithin, DropAlone,
                OpenIn, OpenAt, DropOnSplit, MoveClient, Rehome, Delete, Focus, MoveTabToNewSplit
  <2>2. CASE PageIsShown
    BY <1>3, <2>2 DEF PageIsShown
  <2>3. ASSUME NEW t \in Tab, OpenFile(t), layout = <<>> PROVE layout' = <<>>
    BY <2>3 DEF OpenFile
  <2> QED
    BY <1>2, <1>4, <1>5, <2>1, <2>2, <2>3
<1> QED
  BY <1>6, <1>7

\* While the files of the last session are opened, the splits fill up from the
\* left as they were saved, however many tabs and splits there were.
THEOREM RestoreSafety == Spec => []RestoredAsSaved
PROOF
<1>1. Init => RInv
  <2>1. Init => RestoredAsSaved /\ Positive
    BY DEF Init, RestoredAsSaved, Positive
  <2> QED
    BY <2>1, InitIInv DEF RInv
<1>2. RInv => RestoredAsSaved
  BY DEF RInv
<1> QED
  BY <1>1, <1>2, StepRestores, PTL DEF Spec

-----------------------------------------------------------------------------
(* The one way to lose a tab                                               *)

\* The tab lies in a split that is to be deleted.
Doomed(t) == home[t] \in dying

\* A tab goes because it is closed, with the program, or with a doomed split; and it
\* gets into a doomed split only by being dropped on its own bar as the only tab.
LostByDropOnly ==
    \A t \in Tab :
        /\ home[t] # NoSplit /\ home'[t] = NoSplit => CloseTab(t) \/ Restart \/ Doomed(t)
        /\ Doomed(t)' => Doomed(t) \/ DropAlone(t)

\* A tab that leaves its split for good leaves no tab in a doomed one.
LEMMA LeavingDoomsNone ==
    ASSUME IInv, Settled, NEW t \in Opened, NEW s \in Split \cup {NoSplit}, s # home[t],
           NEW T \in SUBSET Tab, Opened \ {t} \subseteq T, NEW m, MenuOf(m, T),
           NEW left \in Leaves(t, m),
           home' = [home EXCEPT ![t] = s], dying' = left.dying
    PROVE  \A u \in Tab : ~Doomed(u)'
PROOF
<1>1. IF In(home[t]) = {t} THEN dying' = {home[t]} ELSE dying' = {}
  <2>1. IF In(home[t]) = {t}
        THEN left.dying = {home[t]} /\ left.shown = NoTab
        ELSE left.dying = {} /\ left.shown \in In(home[t]) \ {t}
    BY Left
  <2> QED
    BY <2>1
<1>2. ASSUME NEW u \in Tab, In(home[t]) = {t} PROVE home'[u] # home[t]
  <2>1. u # t => home[u] # home[t]
    BY <1>2 DEF In
  <2>2. home'[u] = IF u = t THEN s ELSE home[u]
    BY DEF IInv, TypeOK
  <2> QED
    BY <2>1, <2>2
<1>3. ASSUME NEW u \in Tab PROVE ~Doomed(u)'
  BY <1>1, <1>2 DEF Doomed
<1> QED
  BY <1>3

\* No step dooms or loses a tab in another way.
LEMMA StepLoses == IInv /\ [Next]_vars => LostByDropOnly
PROOF
<1> SUFFICES ASSUME IInv, [Next]_vars PROVE LostByDropOnly
  OBVIOUS
<1>1. ASSUME home' = home, dying' = dying PROVE LostByDropOnly
  BY <1>1 DEF LostByDropOnly, Doomed
<1>2. ASSUME NEW t \in Tab, Opening(t) PROVE LostByDropOnly
  <2>1. dying' = {}
    BY <1>2 DEF Opening, OpenFile, OpenIn, SplitTab, OpenAt, AddTab, Settled
  <2>2. Opened' = Opened \cup {t}
    BY <1>2, OpeningOpens DEF Area!Open
  <2>3. \A u \in Tab : home[u] # NoSplit => home'[u] # NoSplit
    BY <2>2 DEF Opened
  <2> QED
    BY <2>1, <2>3 DEF LostByDropOnly, Doomed
<1>3. ASSUME NEW t \in Tab, CloseTab(t) PROVE LostByDropOnly
  <2>1. Settled /\ t \in Opened /\ home' = [home EXCEPT ![t] = NoSplit] /\ home[t] # NoSplit
    BY <1>3 DEF CloseTab, Opened
  <2>2. PICK left \in Leaves(t, DeleteClient(menu, t)) : dying' = left.dying
    BY <1>3 DEF CloseTab
  <2>3. Opened \ {t} \in SUBSET Tab /\ MenuOf(DeleteClient(menu, t), Opened \ {t})
    BY MenuIsOf, DeletedMenu
  <2>4. \A u \in Tab : ~Doomed(u)'
    BY <2>1, <2>2, <2>3, LeavingDoomsNone
  <2>5. \A u \in Tab : u # t => home'[u] = home[u]
    BY <2>1 DEF IInv, TypeOK
  <2> QED
    BY <1>3, <2>4, <2>5 DEF LostByDropOnly
<1>4. ASSUME NEW t \in Tab, NEW s \in Split, DropOnSplit(t, s) \/ MoveClient(t, s)
      PROVE  LostByDropOnly
  <2>1. Settled /\ t \in Opened /\ s # home[t] /\ home' = [home EXCEPT ![t] = s]
    BY <1>4 DEF DropOnSplit, MoveClient, Rehome, Opened
  <2>2. PICK left \in Leaves(t, menu) : dying' = left.dying
    BY <1>4 DEF DropOnSplit, MoveClient, Rehome
  <2>3. Opened \in SUBSET Tab /\ MenuOf(menu, Opened)
    BY MenuIsOf
  <2>4. \A u \in Tab : ~Doomed(u)'
    BY <2>1, <2>2, <2>3, LeavingDoomsNone
  <2>5. \A u \in Tab : home[u] # NoSplit => home'[u] # NoSplit
    BY <1>4, MoveKeepsIInv DEF Opened
  <2> QED
    BY <2>4, <2>5 DEF LostByDropOnly
<1>5. ASSUME MoveTabToNewSplit PROVE LostByDropOnly
  <2>1. \A u \in Tab : home[u] # NoSplit => home'[u] # NoSplit
    BY <1>5, NewSplitKeepsIInv DEF Opened
  <2>2. dying' = {}
    BY <1>5 DEF MoveTabToNewSplit, Settled
  <2> QED
    BY <2>1, <2>2 DEF LostByDropOnly, Doomed
<1>6. ASSUME NEW s \in Split, Delete(s) PROVE LostByDropOnly
  <2>1. /\ s \in dying /\ dying' = dying \ {s} /\ dying \subseteq Split
        /\ home' = [t \in Tab |-> IF home[t] = s THEN NoSplit ELSE home[t]]
    BY <1>6 DEF Delete, IInv, TypeOK
  <2>2. ASSUME NEW t \in Tab, home[t] # NoSplit, home'[t] = NoSplit PROVE Doomed(t)
    BY <2>1, <2>2 DEF Doomed
  <2>3. ASSUME NEW t \in Tab, Doomed(t)' PROVE Doomed(t)
    BY <2>1, <2>3, SplitAssumption DEF Doomed
  <2> QED
    BY <2>2, <2>3 DEF LostByDropOnly
<1>7. ASSUME Restart PROVE LostByDropOnly
  BY <1>7 DEF Restart, Settled, LostByDropOnly, Doomed
<1>8. ASSUME NEW t \in Tab, DropAlone(t) PROVE LostByDropOnly
  <2>1. PICK left \in Leaves(t, menu) : dying' = left.dying
    BY <1>8 DEF DropAlone
  <2>2. Settled /\ t \in Opened /\ In(home[t]) = {t} /\ home' = home
    BY <1>8 DEF DropAlone, Opened
  <2>3. Opened \in SUBSET Tab /\ MenuOf(menu, Opened)
    BY MenuIsOf
  <2>4. dying' = {home[t]}
    BY <2>1, <2>2, <2>3, Left
  <2>5. ASSUME NEW u \in Tab, Doomed(u)' PROVE u = t
    BY <2>2, <2>4, <2>5 DEF Doomed, In
  <2> QED
    BY <1>8, <2>2, <2>5 DEF LostByDropOnly
<1>9. CASE Showing
  <2>1. home' = home /\ dying' = dying
    BY <1>9 DEF Showing, ShowTab, SetCurrentClientIndex, DropWithin, Focus, PageIsShown
  <2> QED
    BY <1>1, <2>1
<1>10. CASE Moving
  BY <1>4, <1>5, <1>10 DEF Moving
<1>11. CASE UNCHANGED vars
  BY <1>1, <1>11 DEF vars
<1>12. CASE Next
  BY <1>2, <1>3, <1>6, <1>7, <1>8, <1>9, <1>10, <1>12, Steps
<1> QED
  BY <1>11, <1>12

\* TabsGoOnlyWhenClosed fails for one reason alone: a tab that is neither closed
\* nor gone with the program was the only one of its split and was dropped back
\* on it.  Moving, splitting and closing other tabs loses none.
THEOREM OnlyTheDropLoses == Spec => [][LostByDropOnly]_vars
PROOF
<1>1. IInv /\ [Next]_vars => [LostByDropOnly]_vars
  BY StepLoses
<1> QED
  BY <1>1, AlwaysIInv, PTL DEF Spec
=============================================================================
