------------------------- MODULE TextRanges_proofs -------------------------
(***************************************************************************)
(* Lemmas about the ranges of WorkspaceEdits: what an identifier is, and   *)
(* what the folds over the sorted ranges of a document compute, for any    *)
(* document and any number of ranges.                                      *)
(*                                                                         *)
(* The inductions are over sets: the numbers with a property, which are    *)
(* all numbers because the others would have a least one.                  *)
(***************************************************************************)
EXTENDS WorkspaceEdits, WellFoundedInduction, FiniteSetTheorems, FunctionTheorems,
        SequenceTheorems, TLAPS

-----------------------------------------------------------------------------
(* Numbers *)

\* A set of numbers has a least one.
LEMMA LeastNumber ==
    ASSUME NEW T, T \subseteq Nat, T # {}
    PROVE  \E x \in T : \A y \in T : x <= y
PROOF
<1> DEFINE R == {ss \in Nat \X Nat : ss[1] < ss[2]}
<1>1. IsWellFoundedOn(R, Nat)
  BY NatLessThanWellFounded DEF OpToRel
<1> HIDE DEF R
<1>2. PICK x \in T : \A y \in T : ~(<<y, x>> \in R)
  BY <1>1, WFMin
<1>3. ASSUME NEW y \in T PROVE x <= y
  <2>1. x \in Nat /\ y \in Nat
    OBVIOUS
  <2>2. ~(y < x)
    BY <1>2, <2>1 DEF R
  <2> QED
    BY <2>1, <2>2
<1> QED
  BY <1>3

\* A set of numbers up to n has a greatest one.
LEMMA GreatestNumber ==
    ASSUME NEW n \in Nat, NEW T, T \subseteq 0..n, T # {}
    PROVE  \E x \in T : \A y \in T : x >= y
PROOF
<1> DEFINE U == {n - x : x \in T}
<1>1. U \subseteq Nat /\ U # {}
  <2>1. PICK x : x \in T
    OBVIOUS
  <2>2. n - x \in U
    BY <2>1
  <2>3. \A y \in T : n - y \in Nat
    OBVIOUS
  <2> QED
    BY <2>2, <2>3
<1>2. PICK u \in U : \A v \in U : u <= v
  BY <1>1, LeastNumber
<1>3. PICK x \in T : u = n - x
  BY <1>2
<1>4. \A y \in T : n - x <= n - y
  BY <1>2, <1>3
<1> QED
  BY <1>3, <1>4

\* A set with 0, and with n + 1 when it has n, has all numbers.
LEMMA AllNumbers ==
    ASSUME NEW S, 0 \in S, \A n \in Nat : n \in S => n + 1 \in S
    PROVE  \A n \in Nat : n \in S
PROOF
<1> DEFINE T == Nat \ S
<1>1. SUFFICES ASSUME T # {} PROVE FALSE
  OBVIOUS
<1>2. PICK x \in T : \A y \in T : x <= y
  BY <1>1, LeastNumber
<1>3. x - 1 \in Nat /\ x - 1 \in S
  BY <1>2
<1> QED
  BY <1>2, <1>3

\* A set with the first and, with a number below the last, the next, has all.
LEMMA AllBetween ==
    ASSUME NEW a \in Nat, NEW b \in Nat, NEW S, a \in S,
           \A n \in a..b - 1 : n \in S => n + 1 \in S
    PROVE  \A n \in a..b : n \in S
PROOF
<1> DEFINE T == {n \in Nat : a + n <= b => a + n \in S}
<1>1. 0 \in T /\ \A n \in Nat : n \in T => n + 1 \in T
  OBVIOUS
<1> HIDE DEF T
<1>2. \A n \in Nat : n \in T
  BY <1>1, AllNumbers
<1>3. ASSUME NEW n \in a..b PROVE n \in S
  <2>1. n - a \in T
    BY <1>2
  <2> QED
    BY <2>1 DEF T
<1> QED
  BY <1>3

-----------------------------------------------------------------------------
(* Identifiers *)

\* Letters without a letter before or behind them.
IsRun(t, i, j) ==
    /\ i \in 0..j /\ j \in 0..Len(t)
    /\ \A k \in i + 1..j : t[k] \in Ident
    /\ i = 0 \/ t[i] \notin Ident
    /\ j = Len(t) \/ t[j + 1] \notin Ident

\* The identifier at a column is the run that the column is in or touches.
LEMMA IdentifierIsARun ==
    ASSUME NEW t, Len(t) \in Nat, NEW column \in 0..Len(t)
    PROVE  \E i \in 0..column, j \in column..Len(t) :
               IsRun(t, i, j) /\ IdentifierAt(t, column) = SubSeq(t, i + 1, j)
PROOF
<1> DEFINE Joined(i, j) == \A k \in i + 1..j : t[k] \in Ident
           IsStart(i) == Joined(i, column) /\ \A k \in 0..i : Joined(k, column) => k = i
           IsEnd(j) == Joined(column, j) /\ \A k \in j..Len(t) : Joined(column, k) => k = j
           start == CHOOSE i \in 0..column : IsStart(i)
           end == CHOOSE j \in column..Len(t) : IsEnd(j)
<1>1. IdentifierAt(t, column) = SubSeq(t, start + 1, end)
  BY DEF IdentifierAt
<1>2. start \in 0..column /\ IsStart(start)
  <2> DEFINE L == {i \in 0..column : Joined(i, column)}
  <2>1. L \subseteq Nat /\ column \in L
    OBVIOUS
  <2>2. PICK i \in L : \A k \in L : i <= k
    BY <2>1, LeastNumber
  <2>3. i \in 0..column /\ Joined(i, column)
    OBVIOUS
  <2>4. ASSUME NEW k \in 0..i, Joined(k, column) PROVE k = i
    BY <2>2, <2>3, <2>4
  <2> QED
    BY <2>3, <2>4
<1>3. end \in column..Len(t) /\ IsEnd(end)
  <2> DEFINE L == {j \in column..Len(t) : Joined(column, j)}
  <2>1. L \subseteq 0..Len(t) /\ column \in L
    OBVIOUS
  <2>2. PICK j \in L : \A k \in L : j >= k
    BY <2>1, GreatestNumber
  <2>3. j \in column..Len(t) /\ Joined(column, j)
    OBVIOUS
  <2>4. ASSUME NEW k \in j..Len(t), Joined(column, k) PROVE k = j
    BY <2>2, <2>3, <2>4
  <2> QED
    BY <2>3, <2>4
<1> HIDE DEF start, end
<1>4. start = 0 \/ t[start] \notin Ident
  <2> SUFFICES ASSUME start # 0, t[start] \in Ident PROVE FALSE
    OBVIOUS
  <2>1. Joined(start - 1, column)
    BY <1>2
  <2> QED
    BY <1>2, <2>1
<1>5. end = Len(t) \/ t[end + 1] \notin Ident
  <2> SUFFICES ASSUME end # Len(t), t[end + 1] \in Ident PROVE FALSE
    OBVIOUS
  <2>1. Joined(column, end + 1)
    BY <1>3
  <2> QED
    BY <1>3, <2>1
<1>6. IsRun(t, start, end)
  BY <1>2, <1>3, <1>4, <1>5 DEF IsRun
<1> QED
  BY <1>1, <1>2, <1>3, <1>6

\* Two runs are the same, or one ends before the other starts.
LEMMA RunsAreApart ==
    ASSUME NEW t, Len(t) \in Nat, NEW a, NEW b, NEW c, NEW d, IsRun(t, a, b), IsRun(t, c, d), c < d
    PROVE  (a = c /\ b = d) \/ b < c \/ d < a
PROOF
  BY DEF IsRun

\* Parts of a text.
LEMMA PartOfText ==
    ASSUME NEW t \in Seq(Char), NEW i \in Nat, NEW j \in Nat, j <= Len(t)
    PROVE  /\ SubSeq(t, i + 1, j) \in Seq(Char)
           /\ Len(SubSeq(t, i + 1, j)) = IF i < j THEN j - i ELSE 0
           /\ \A k \in 1..j - i : SubSeq(t, i + 1, j)[k] = t[i + k]
PROOF
<1>1. \A k \in i + 1..j : t[k] \in Char
  <2>1. \A k \in 1..Len(t) : t[k] \in Char
    BY ElementOfSeq
  <2>2. \A k \in i + 1..j : k \in 1..Len(t)
    OBVIOUS
  <2> QED
    BY <2>1, <2>2
<1> DEFINE m == i + 1
<1>2. /\ SubSeq(t, m, j) \in Seq(Char)
      /\ Len(SubSeq(t, m, j)) = IF m <= j THEN j - m + 1 ELSE 0
      /\ \A k \in 1..j - m + 1 : SubSeq(t, m, j)[k] = t[m + k - 1]
  <2>1. m \in Int /\ j \in Int /\ \A k \in m..j : t[k] \in Char
    BY <1>1
  <2> HIDE DEF m
  <2> QED
    BY <2>1, SubSeqProperties
<1>3. ASSUME NEW k \in 1..j - i PROVE SubSeq(t, i + 1, j)[k] = t[i + k]
  <2>1. k \in 1..j - m + 1 /\ m + k - 1 = i + k
    OBVIOUS
  <2> QED
    BY <1>2, <2>1
<1> QED
  BY <1>2, <1>3

\* The ranges of name are the runs that read name.
LEMMA OccurrencesAreRuns ==
    ASSUME NEW t \in Seq(Char), NEW name, name # <<>>, NEW e
    PROVE  e \in Occurrences(t, name) <=>
               /\ e \in [from : 0..Len(t), to : 0..Len(t)]
               /\ e.from < e.to /\ IsRun(t, e.from, e.to)
               /\ SubSeq(t, e.from + 1, e.to) = name
PROOF
<1>0. Len(t) \in Nat
  BY LenProperties
<1> SUFFICES ASSUME e \in [from : 0..Len(t), to : 0..Len(t)], e.from < e.to,
                    SubSeq(t, e.from + 1, e.to) = name
             PROVE  IdentifierAt(t, e.from) = name <=> IsRun(t, e.from, e.to)
  BY DEF Occurrences
<1> DEFINE a == e.from
           b == e.to
<1>1. a \in 0..Len(t) /\ b \in 0..Len(t) /\ a < b /\ SubSeq(t, a + 1, b) = name
  OBVIOUS
<1> HIDE DEF a, b
<1>2. PICK i \in 0..a, j \in a..Len(t) : IsRun(t, i, j) /\ IdentifierAt(t, a) = SubSeq(t, i + 1, j)
  BY <1>0, <1>1, IdentifierIsARun
<1>3. ASSUME IsRun(t, a, b) PROVE i = a /\ j = b
  <2>1. (i = a /\ j = b) \/ j < a \/ b < i
    BY <1>0, <1>1, <1>2, <1>3, RunsAreApart
  <2>2. i <= a /\ a <= j /\ a < b /\ i \in Int /\ j \in Int /\ a \in Int /\ b \in Int
    BY <1>0, <1>1
  <2> QED
    BY <2>1, <2>2
<1>4. ASSUME IdentifierAt(t, a) = name PROVE IsRun(t, a, b)
  <2>1. i \in Nat /\ j \in Nat /\ a \in Nat /\ b \in Nat /\ i <= a /\ a <= j /\ j <= Len(t) /\ b <= Len(t)
    BY <1>0, <1>1, <1>2
  <2>2. /\ Len(name) = b - a
        /\ \A k \in 1..b - a : name[k] = t[a + k]
    BY <1>1, <2>1, PartOfText
  <2>3. /\ Len(name) = IF i < j THEN j - i ELSE 0
        /\ \A k \in 1..j - i : name[k] = t[i + k]
    <3>1. name = SubSeq(t, i + 1, j)
      BY <1>2, <1>4
    <3>2. /\ Len(SubSeq(t, i + 1, j)) = IF i < j THEN j - i ELSE 0
          /\ \A k \in 1..j - i : SubSeq(t, i + 1, j)[k] = t[i + k]
      <4>1. i \in Nat /\ j \in Nat /\ j <= Len(t)
        BY <2>1
      <4> QED
        BY <4>1, PartOfText
    <3> QED
      BY <3>1, <3>2, Zenon
  <2>4. b - a = j - i
    BY <1>1, <2>1, <2>2, <2>3
  <2>5. ASSUME NEW k \in 1..b - a PROVE t[a + k] \in Ident
    <3>1. k \in 1..j - i /\ i + k \in i + 1..j
      BY <2>1, <2>4
    <3>2. t[a + k] = t[i + k]
      BY <2>2, <2>3, <3>1
    <3> QED
      BY <1>2, <3>1, <3>2 DEF IsRun
  <2>6. b <= j
    <3> SUFFICES ASSUME j < b PROVE FALSE
      BY <2>1
    <3>1. j + 1 - a \in 1..b - a /\ a + (j + 1 - a) = j + 1
      BY <2>1
    <3>2. t[j + 1] \in Ident
      BY <2>5, <3>1
    <3> QED
      BY <1>2, <2>1, <3>2 DEF IsRun
  <2>7. a = i /\ b = j
    BY <2>1, <2>4, <2>6
  <2> QED
    BY <1>2, <2>7
<1> QED
  BY <1>1, <1>2, <1>3, <1>4 DEF a, b

-----------------------------------------------------------------------------
(* The ranges of a document in their order *)

Span == [from : Nat, to : Nat]

StartApart(E) == \A d, e \in E : d # e => d.from # e.from

Descends(s) == \A i, j \in DOMAIN s : i < j => s[i].from >= s[j].from

\* Finitely many ranges, and at least one sequence that lists them from the
\* bottom to the top.
CanBeSorted(E) == IsFiniteSet(E) /\ \E s \in SetToSeqs(E) : Descends(s)

\* A range that starts behind all others goes in front of them.
LEMMA AddRangeBehind ==
    ASSUME NEW E, NEW e, CanBeSorted(E), E \subseteq Span, e \in Span, \A d \in E : d.from < e.from
    PROVE  CanBeSorted(E \cup {e})
PROOF
<1> DEFINE N == Cardinality(E)
           F == E \cup {e}
<1>1. PICK s \in SetToSeqs(E) : Descends(s)
  BY DEF CanBeSorted
<1>2. N \in Nat /\ IsFiniteSet(E)
  BY FS_CardinalityType DEF CanBeSorted
<1>3. e \notin E
  BY DEF Span
<1>4. IsFiniteSet(F) /\ Cardinality(F) = N + 1
  BY <1>2, <1>3, FS_AddElement
<1>5. s \in [1..N -> E] /\ \A i, j \in 1..N : i # j => s[i] # s[j]
  BY <1>1 DEF SetToSeqs
<1> HIDE DEF N
<1> DEFINE z == [i \in 1..N + 1 |-> IF i = 1 THEN e ELSE s[i - 1]]
<1>6. z \in [1..N + 1 -> F]
  <2> SUFFICES ASSUME NEW i \in 1..N + 1 PROVE (IF i = 1 THEN e ELSE s[i - 1]) \in F
    OBVIOUS
  <2>1. i # 1 => i - 1 \in 1..N
    BY <1>2
  <2> QED
    BY <1>5, <2>1
<1>7. /\ z[1] = e
      /\ \A i \in 2..N + 1 : i - 1 \in 1..N /\ z[i] = s[i - 1] /\ z[i] \in E
  BY <1>2, <1>5
<1>8. DOMAIN z = 1..N + 1
  OBVIOUS
<1> HIDE DEF z, F
<1>9. ASSUME NEW i \in 1..N + 1, NEW j \in 1..N + 1, i # j PROVE z[i] # z[j]
  <2>1. CASE i = 1
    <3>1. z[i] = e /\ z[j] \in E
      BY <1>2, <1>7, <1>9, <2>1
    <3> QED
      BY <1>3, <3>1
  <2>2. CASE j = 1
    <3>1. z[j] = e /\ z[i] \in E
      BY <1>2, <1>7, <1>9, <2>2
    <3> QED
      BY <1>3, <3>1
  <2>3. CASE i # 1 /\ j # 1
    BY <1>2, <1>5, <1>7, <1>9, <2>3
  <2> QED
    BY <2>1, <2>2, <2>3
<1>10. z \in SetToSeqs(F)
  BY <1>4, <1>6, <1>9 DEF SetToSeqs
<1>11. ASSUME NEW i \in 1..N + 1, NEW j \in 1..N + 1, i < j PROVE z[i].from >= z[j].from
  <2>1. j \in 2..N + 1 /\ z[j] \in E /\ z[j] = s[j - 1] /\ j - 1 \in 1..N
    BY <1>2, <1>7, <1>11
  <2>2. CASE i = 1
    BY <1>7, <2>1, <2>2 DEF Span
  <2>3. CASE i # 1
    <3>1. z[i] = s[i - 1] /\ i - 1 \in 1..N /\ i - 1 < j - 1
      BY <1>2, <1>7, <1>11, <2>3
    <3> QED
      BY <1>1, <1>5, <2>1, <3>1 DEF Descends
  <2> QED
    BY <2>2, <2>3
<1>12. Descends(z)
  BY <1>8, <1>11 DEF Descends
<1> QED
  BY <1>4, <1>10, <1>12 DEF CanBeSorted, F

\* Ranges that start at different places can be listed from the bottom.
LEMMA RangesCanBeSorted ==
    ASSUME NEW n \in Nat, NEW E, E \subseteq Span, StartApart(E), \A e \in E : e.from < n
    PROVE  CanBeSorted(E)
PROOF
<1> DEFINE S == {m \in Nat : \A D \in SUBSET Span :
                    StartApart(D) /\ (\A e \in D : e.from < m) => CanBeSorted(D)}
<1>1. 0 \in S
  <2> SUFFICES ASSUME NEW D \in SUBSET Span, \A e \in D : e.from < 0 PROVE CanBeSorted(D)
    OBVIOUS
  <2>1. D = {}
    <3> SUFFICES ASSUME NEW e \in D PROVE FALSE
      OBVIOUS
    <3> QED
      BY DEF Span
  <2> DEFINE s == [i \in 1..0 |-> 0]
  <2>2. 1..0 = {} /\ s \in [1..0 -> {}] /\ DOMAIN s = {}
    OBVIOUS
  <2>3. IsFiniteSet({}) /\ Cardinality({}) = 0
    BY FS_EmptySet
  <2> HIDE DEF s
  <2>4. s \in SetToSeqs({}) /\ Descends(s)
    BY <2>2, <2>3 DEF SetToSeqs, Descends
  <2> QED
    BY <2>1, <2>3, <2>4 DEF CanBeSorted
<1>2. ASSUME NEW m \in Nat, m \in S PROVE m + 1 \in S
  <2> SUFFICES ASSUME NEW D \in SUBSET Span, StartApart(D), \A e \in D : e.from < m + 1
               PROVE  CanBeSorted(D)
    OBVIOUS
  <2>1. CASE \A e \in D : e.from # m
    <3>1. \A e \in D : e.from < m
      BY <2>1 DEF Span
    <3> QED
      BY <1>2, <3>1
  <2>2. CASE \E e \in D : e.from = m
    <3>1. PICK e \in D : e.from = m
      BY <2>2
    <3> DEFINE B == D \ {e}
    <3>2. B \in SUBSET Span /\ StartApart(B) /\ e \in Span /\ B \cup {e} = D
      BY DEF StartApart
    <3>3. ASSUME NEW d \in B PROVE d.from < m
      <4>1. d.from # m /\ d.from < m + 1 /\ d.from \in Nat
        BY <3>1 DEF StartApart, Span
      <4> QED
        BY <4>1
    <3>4. CanBeSorted(B)
      BY <1>2, <3>2, <3>3
    <3> HIDE DEF B
    <3>5. CanBeSorted(B \cup {e})
      BY <3>1, <3>2, <3>3, <3>4, AddRangeBehind
    <3> QED
      BY <3>2, <3>5
  <2> QED
    BY <2>1, <2>2
<1> HIDE DEF S
<1>3. n \in S
  BY <1>1, <1>2, AllNumbers
<1> QED
  BY <1>3 DEF S

\* s lists the n ranges of E from the bottom to the top.
Lists(s, n, E) ==
    /\ n \in Nat /\ s \in [1..n -> E]
    /\ \A e \in E : \E i \in 1..n : s[i] = e
    /\ \A i, j \in 1..n : i < j => s[i].from > s[j].from

\* BottomUp lists every range once.
LEMMA BottomUpLists ==
    ASSUME NEW m \in Nat, NEW E, E \subseteq Span, StartApart(E), \A e \in E : e.from < m
    PROVE  \E n : Lists(BottomUp(E), n, E)
PROOF
<1> DEFINE n == Cardinality(E)
           s == BottomUp(E)
<1>1. CanBeSorted(E)
  BY RangesCanBeSorted
<1>2. n \in Nat /\ IsFiniteSet(E)
  BY <1>1, FS_CardinalityType DEF CanBeSorted
<1>3. s \in SetToSeqs(E) /\ Descends(s)
  BY <1>1 DEF CanBeSorted, BottomUp, Descends
<1>4. s \in [1..n -> E] /\ \A i, j \in 1..n : i # j => s[i] # s[j]
  BY <1>3 DEF SetToSeqs
<1> HIDE DEF s
<1>5. \A e \in E : \E i \in 1..n : s[i] = e
  <2>1. IsFiniteSet(1..n) /\ Cardinality(1..n) = n
    BY <1>2, FS_Interval
  <2>2. s \in Injection(1..n, E)
    BY <1>4, Fun_IsInj
  <2>3. s \in Surjection(1..n, E)
    BY <1>2, <2>1, <2>2, FS_Injection
  <2> QED
    BY <2>3 DEF Surjection
<1> HIDE DEF n
<1>6. ASSUME NEW i \in 1..n, NEW j \in 1..n, i < j PROVE s[i].from > s[j].from
  <2>1. s[i] \in E /\ s[j] \in E /\ s[i] # s[j]
    BY <1>2, <1>4, <1>6
  <2>2. s[i].from # s[j].from /\ s[i].from \in Nat /\ s[j].from \in Nat
    BY <2>1 DEF StartApart, Span
  <2>3. s[i].from >= s[j].from
    BY <1>3, <1>4, <1>6 DEF Descends
  <2> QED
    BY <2>2, <2>3
<1>7. Lists(s, n, E)
  BY <1>2, <1>4, <1>5, <1>6 DEF Lists
<1> QED
  BY <1>7 DEF s

-----------------------------------------------------------------------------
(* What a fold over the ranges does, one range after the other *)

\* One edit, refused or not when it does not lie in the text.
ReplaceWhen(guarded, u, e) == IF guarded = "checked" /\ ~IsPlaced(u, e) THEN u ELSE Replace(u, e)

\* g is the function that a fold over n ranges is computed with.
Unfolds(g, guarded, t, s, n) ==
    g = [S \in SUBSET (1..n) |->
            IF S = {} THEN t ELSE ReplaceWhen(guarded, g[S \ {Max(S)}], s[Max(S)])]

\* Max is a greatest element.
LEMMA MaxOfNumbers ==
    ASSUME NEW n \in Nat, NEW S, S \subseteq 1..n, S # {}
    PROVE  Max(S) \in S /\ \A x \in S : Max(S) >= x
PROOF
<1>1. \E x \in S : \A y \in S : x >= y
  <2>1. S \subseteq 0..n
    OBVIOUS
  <2> QED
    BY <2>1, GreatestNumber
<1> QED
  BY <1>1 DEF Max

LEMMA GreatestIsMax ==
    ASSUME NEW S, S \subseteq Nat, NEW x \in S, \A y \in S : x >= y
    PROVE  Max(S) = x
PROOF
<1>1. Max(S) \in S /\ \A y \in S : Max(S) >= y
  BY DEF Max
<1>2. x \in Nat /\ Max(S) \in Nat /\ x >= Max(S) /\ Max(S) >= x
  BY <1>1
<1> QED
  BY <1>2

\* There is such a function for any number of ranges.
LEMMA FoldsUnfold ==
    ASSUME NEW n \in Nat, NEW guarded, NEW t, NEW s
    PROVE  \E g : Unfolds(g, guarded, t, s, n)
PROOF
<1> DEFINE T == {m \in Nat : \E g : Unfolds(g, guarded, t, s, m)}
<1>1. 0 \in T
  <2> DEFINE g == [S \in SUBSET (1..0) |-> t]
  <2>1. \A S \in SUBSET (1..0) : S = {}
    OBVIOUS
  <2>2. g = [S \in SUBSET (1..0) |->
               IF S = {} THEN t ELSE ReplaceWhen(guarded, g[S \ {Max(S)}], s[Max(S)])]
    BY <2>1
  <2> HIDE DEF g
  <2> QED
    BY <2>2 DEF Unfolds
<1>2. ASSUME NEW m \in Nat, m \in T PROVE m + 1 \in T
  <2>1. PICK g : Unfolds(g, guarded, t, s, m)
    BY <1>2
  <2> DEFINE h == [S \in SUBSET (1..m + 1) |->
                     IF m + 1 \in S THEN ReplaceWhen(guarded, g[S \ {m + 1}], s[m + 1]) ELSE g[S]]
             hUnfolded(S) == IF S = {} THEN t ELSE ReplaceWhen(guarded, h[S \ {Max(S)}], s[Max(S)])
  <2>2. ASSUME NEW S \in SUBSET (1..m) PROVE h[S] = g[S]
    <3>1. m + 1 \notin S /\ S \in SUBSET (1..m + 1)
      OBVIOUS
    <3> QED
      BY <3>1
  <2>3. ASSUME NEW S \in SUBSET (1..m + 1), m + 1 \in S
        PROVE  h[S] = ReplaceWhen(guarded, g[S \ {m + 1}], s[m + 1])
    BY <2>3
  <2>4. h = [S \in SUBSET (1..m + 1) |-> h[S]]
    OBVIOUS
  <2> HIDE DEF h
  <2>5. ASSUME NEW S \in SUBSET (1..m + 1) PROVE h[S] = hUnfolded(S)
    <3>1. CASE m + 1 \in S
      <4>1. Max(S) = m + 1
        <5>1. S \subseteq Nat /\ \A y \in S : m + 1 >= y
          OBVIOUS
        <5> QED
          BY <3>1, <5>1, GreatestIsMax
      <4>2. S # {} /\ S \ {m + 1} \in SUBSET (1..m)
        BY <3>1
      <4> QED
        BY <2>2, <2>3, <3>1, <4>1, <4>2
    <3>2. CASE m + 1 \notin S
      <4>1. S \in SUBSET (1..m)
        BY <3>2
      <4>2. h[S] = g[S]
        BY <2>2, <4>1
      <4>3. g[S] = IF S = {} THEN t ELSE ReplaceWhen(guarded, g[S \ {Max(S)}], s[Max(S)])
        BY <2>1, <4>1 DEF Unfolds
      <4>4. h[S \ {Max(S)}] = g[S \ {Max(S)}]
        BY <2>2, <4>1
      <4> QED
        BY <4>2, <4>3, <4>4
    <3> QED
      BY <3>1, <3>2
  <2>6. h = [S \in SUBSET (1..m + 1) |-> hUnfolded(S)]
    BY <2>4, <2>5
  <2>7. Unfolds(h, guarded, t, s, m + 1)
    BY <2>6 DEF Unfolds
  <2> QED
    BY <2>7
<1> HIDE DEF T
<1>3. n \in T
  BY <1>1, <1>2, AllNumbers
<1> QED
  BY <1>3 DEF T

\* F[k] is the text after the first k edits.
StepsOf(F, guarded, t, s, n) ==
    F[0] = t /\ \A k \in 1..n : F[k] = ReplaceWhen(guarded, F[k - 1], s[k])

\* The value of such a function for the first k ranges is the text after k edits.
LEMMA UnfoldedSteps ==
    ASSUME NEW n \in Nat, NEW guarded, NEW t, NEW s, NEW g, Unfolds(g, guarded, t, s, n)
    PROVE  \E F : StepsOf(F, guarded, t, s, n) /\ F[n] = g[1..n]
PROOF
<1> DEFINE F == [k \in 0..n |-> g[1..k]]
<1>1. F[0] = t
  <2>1. 1..0 = {} /\ {} \in SUBSET (1..n)
    OBVIOUS
  <2>2. g[{}] = t
    BY <2>1 DEF Unfolds
  <2> QED
    BY <2>1, <2>2
<1>2. ASSUME NEW k \in 1..n PROVE F[k] = ReplaceWhen(guarded, F[k - 1], s[k])
  <2>1. 1..k \in SUBSET (1..n) /\ 1..k # {} /\ k \in Nat /\ k - 1 \in 0..n
    OBVIOUS
  <2>2. g[1..k] = ReplaceWhen(guarded, g[(1..k) \ {Max(1..k)}], s[Max(1..k)])
    BY <2>1 DEF Unfolds
  <2>3. Max(1..k) = k
    <3>1. 1..k \subseteq Nat /\ k \in 1..k /\ \A y \in 1..k : k >= y
      BY <2>1
    <3> QED
      BY <3>1, GreatestIsMax
  <2>4. (1..k) \ {k} = 1..k - 1
    BY <2>1
  <2>5. F[k] = g[1..k] /\ F[k - 1] = g[1..k - 1]
    BY <2>1
  <2> HIDE DEF F
  <2> QED
    BY <2>2, <2>3, <2>4, <2>5
<1>3. F[n] = g[1..n]
  OBVIOUS
<1> HIDE DEF F
<1> QED
  BY <1>1, <1>2, <1>3 DEF StepsOf

\* The fold of ApplyRenameEdits.
LEMMA FoldOfReplace ==
    ASSUME NEW n \in Nat, NEW t, NEW s, DOMAIN s = 1..n
    PROVE  \E F : StepsOf(F, "unchecked", t, s, n) /\ FoldLeft(Replace, t, s) = F[n]
PROOF
<1> DEFINE IsIter(g) == g = [S \in SUBSET (1..n) |->
                               IF S = {} THEN t ELSE Replace(g[S \ {Max(S)}], s[Max(S)])]
           g == CHOOSE h : IsIter(h)
<1>1. FoldLeft(Replace, t, s) = g[1..n]
  BY DEF FoldLeft, MapThenFoldSet
<1>2. \A h : Unfolds(h, "unchecked", t, s, n) <=> IsIter(h)
  BY DEF Unfolds, ReplaceWhen
<1>3. \E h : IsIter(h)
  BY <1>2, FoldsUnfold
<1>4. IsIter(g)
  BY <1>3
<1> HIDE DEF g, IsIter
<1>5. Unfolds(g, "unchecked", t, s, n)
  BY <1>2, <1>4
<1>6. PICK F : StepsOf(F, "unchecked", t, s, n) /\ F[n] = g[1..n]
  BY <1>5, UnfoldedSteps
<1> QED
  BY <1>1, <1>6

\* The fold of ApplyEdits.
LEMMA FoldOfPlaced ==
    ASSUME NEW n \in Nat, NEW t, NEW edits, DOMAIN BottomUp(edits) = 1..n
    PROVE  \E F : StepsOf(F, "checked", t, BottomUp(edits), n) /\ ApplyEdits(t, edits) = F[n]
PROOF
<1> DEFINE s == BottomUp(edits)
           IsIter(g) == g = [S \in SUBSET (1..n) |->
                               IF S = {} THEN t
                               ELSE IF IsPlaced(g[S \ {Max(S)}], s[Max(S)])
                                    THEN Replace(g[S \ {Max(S)}], s[Max(S)])
                                    ELSE g[S \ {Max(S)}]]
           g == CHOOSE h : IsIter(h)
<1> HIDE DEF s
<1>0. DOMAIN s = 1..n
  BY DEF s
<1>1. ApplyEdits(t, edits) = g[1..n]
  BY <1>0 DEF ApplyEdits, FoldLeft, MapThenFoldSet, s
<1>2. \A h : Unfolds(h, "checked", t, s, n) <=> IsIter(h)
  <2> SUFFICES ASSUME NEW h PROVE Unfolds(h, "checked", t, s, n) <=> IsIter(h)
    OBVIOUS
  <2> DEFINE U(S) == IF S = {} THEN t ELSE ReplaceWhen("checked", h[S \ {Max(S)}], s[Max(S)])
             V(S) == IF S = {} THEN t
                     ELSE IF IsPlaced(h[S \ {Max(S)}], s[Max(S)])
                          THEN Replace(h[S \ {Max(S)}], s[Max(S)])
                          ELSE h[S \ {Max(S)}]
  <2>1. \A S : U(S) = V(S)
    BY DEF ReplaceWhen
  <2> HIDE DEF U, V
  <2>2. [S \in SUBSET (1..n) |-> U(S)] = [S \in SUBSET (1..n) |-> V(S)]
    BY <2>1
  <2> QED
    BY <2>2 DEF Unfolds, U, V
<1>3. \E h : IsIter(h)
  BY <1>2, FoldsUnfold
<1>4. IsIter(g)
  BY <1>3
<1> HIDE DEF g, IsIter
<1>5. Unfolds(g, "checked", t, s, n)
  BY <1>2, <1>4
<1>6. PICK F : StepsOf(F, "checked", t, s, n) /\ F[n] = g[1..n]
  BY <1>5, UnfoldedSteps
<1> QED
  BY <1>1, <1>6 DEF s

-----------------------------------------------------------------------------
(* All ranges at once *)

\* A range starts before the i-th character; the i-th character goes.
StartsAt(E, i) == \E e \in E : e.from = i - 1
IsGone(t, E, i) == i > Len(t) \/ \E e \in E : e.from < i /\ i <= e.to

\* What AtOnce makes of the i-th character, and of the end of the text.
Piece(t, E, i) ==
    (IF StartsAt(E, i) THEN NewName ELSE <<>>) \o
    (IF IsGone(t, E, i) THEN <<>> ELSE <<t[i]>>)

\* H[i] is what the first i characters become.
GrowsTo(H, t, E) ==
    H[0] = <<>> /\ \A i \in 1..Len(t) + 1 : H[i] = H[i - 1] \o Piece(t, E, i)

\* g is the function that n sequences are flattened with.
Flattens(g, z, n) ==
    g = [i \in 1..n |-> IF i = 1 THEN z[i] ELSE g[i - 1] \o z[i]]

\* The sequences are joined one after the other.
Joins(G, z, n) ==
    G[1] = z[1] /\ \A i \in 2..n : G[i] = G[i - 1] \o z[i]

LEMMA FlattensExists ==
    ASSUME NEW n \in Nat, NEW z
    PROVE  \E g : Flattens(g, z, n)
PROOF
<1> DEFINE T == {m \in Nat : \E g : Flattens(g, z, m)}
<1>1. 0 \in T
  <2> DEFINE h == [i \in 1..0 |-> <<>>]
  <2>1. h = [i \in 1..0 |-> IF i = 1 THEN z[i] ELSE h[i - 1] \o z[i]]
    OBVIOUS
  <2> HIDE DEF h
  <2> QED
    BY <2>1 DEF Flattens
<1>2. ASSUME NEW m \in Nat, m \in T PROVE m + 1 \in T
  <2>1. PICK h : Flattens(h, z, m)
    BY <1>2
  <2> DEFINE w(i) == IF i = 1 THEN z[i] ELSE h[i - 1] \o z[i]
             k == [i \in 1..m + 1 |-> w(i)]
  <2>2. ASSUME NEW i \in 1..m PROVE k[i] = h[i]
    <3>1. h[i] = w(i)
      BY <2>1 DEF Flattens
    <3>2. k[i] = w(i)
      OBVIOUS
    <3> QED
      BY <3>1, <3>2
  <2>3. ASSUME NEW i \in 1..m + 1 PROVE k[i] = IF i = 1 THEN z[i] ELSE k[i - 1] \o z[i]
    <3>1. i = 1 \/ i - 1 \in 1..m
      OBVIOUS
    <3>2. k[i] = w(i)
      OBVIOUS
    <3> HIDE DEF k
    <3> QED
      BY <2>2, <3>1, <3>2
  <2>4. k = [i \in 1..m + 1 |-> k[i]]
    OBVIOUS
  <2> HIDE DEF k
  <2>5. Flattens(k, z, m + 1)
    BY <2>3, <2>4 DEF Flattens
  <2> QED
    BY <2>5
<1> HIDE DEF T
<1>3. n \in T
  BY <1>1, <1>2, AllNumbers
<1> QED
  BY <1>3 DEF T

\* A sequence of sequences is flattened one after the other.
LEMMA FlattenSteps ==
    ASSUME NEW n \in Nat, n # 0, NEW z, Len(z) = n
    PROVE  \E G : Joins(G, z, n) /\ FlattenSeq(z) = G[n]
PROOF
<1> DEFINE g == CHOOSE h : Flattens(h, z, n)
<1>1. Flattens(g, z, n)
  BY FlattensExists
<1>2. FlattenSeq(z) = g[n]
  BY DEF FlattenSeq, Flattens
<1> HIDE DEF g
<1>3. g[1] = z[1]
  BY <1>1 DEF Flattens
<1>4. ASSUME NEW i \in 2..n PROVE g[i] = g[i - 1] \o z[i]
  <2>1. i \in 1..n /\ i # 1
    OBVIOUS
  <2> QED
    BY <1>1, <2>1 DEF Flattens
<1> QED
  BY <1>2, <1>3, <1>4 DEF Joins

\* A piece is a text.
LEMMA PieceIsText ==
    ASSUME NEW t \in Seq(Char), NEW E, NEW i \in 1..Len(t) + 1
    PROVE  /\ Piece(t, E, i) \in Seq(Char)
           /\ NewName \in Seq(Char)
PROOF
<1>1. NewName \in Seq(Char) /\ <<>> \in Seq(Char)
  BY TextsAssumption, EmptySeq
<1>2. i <= Len(t) => <<t[i]>> \in Seq(Char)
  <2>1. Len(t) \in Nat
    BY LenProperties
  <2>2. i <= Len(t) => t[i] \in Char
    BY <2>1, ElementOfSeq
  <2> QED
    BY <2>2
<1>3. ASSUME NEW a \in Seq(Char), NEW b \in Seq(Char) PROVE a \o b \in Seq(Char)
  BY ConcatProperties
<1>4. ~IsGone(t, E, i) => i <= Len(t)
  BY LenProperties DEF IsGone
<1> QED
  BY <1>1, <1>2, <1>3, <1>4 DEF Piece

\* The four kinds of pieces.
LEMMA Pieces ==
    ASSUME NEW t \in Seq(Char), NEW E, NEW i \in 1..Len(t) + 1
    PROVE  /\ ~StartsAt(E, i) /\ IsGone(t, E, i) => Piece(t, E, i) = <<>>
           /\ ~StartsAt(E, i) /\ ~IsGone(t, E, i) => Piece(t, E, i) = <<t[i]>>
           /\ StartsAt(E, i) /\ IsGone(t, E, i) => Piece(t, E, i) = NewName
           /\ StartsAt(E, i) /\ ~IsGone(t, E, i) => Piece(t, E, i) = NewName \o <<t[i]>>
PROOF
<1>1. <<>> \o <<>> = <<>>
  BY ConcatEmptySeq, EmptySeq
<1>2. NewName \o <<>> = NewName
  BY PieceIsText, ConcatEmptySeq
<1>3. ~IsGone(t, E, i) => <<>> \o <<t[i]>> = <<t[i]>>
  <2> SUFFICES ASSUME ~IsGone(t, E, i) PROVE <<>> \o <<t[i]>> = <<t[i]>>
    OBVIOUS
  <2>1. i \in 1..Len(t)
    BY LenProperties DEF IsGone
  <2>2. t[i] \in Char
    BY <2>1, ElementOfSeq
  <2>3. <<t[i]>> \in Seq(Char)
    BY <2>2
  <2> QED
    BY <2>3, ConcatEmptySeq
<1> QED
  BY <1>1, <1>2, <1>3 DEF Piece

\* AtOnce joins the pieces from the left.
LEMMA AtOnceJoins ==
    ASSUME NEW t \in Seq(Char), NEW E
    PROVE  \E H : GrowsTo(H, t, E) /\ AtOnce(t, E) = H[Len(t) + 1]
PROOF
<1> DEFINE n == Len(t) + 1
           z == [i \in 1..n |-> Piece(t, E, i)]
<1>1. n \in Nat /\ n # 0
  BY LenProperties
<1>2. AtOnce(t, E) = FlattenSeq(z)
  BY DEF AtOnce, Piece, StartsAt, IsGone
<1>3. DOMAIN z = 1..n /\ Len(z) = n /\ \A i \in 1..n : z[i] = Piece(t, E, i)
  BY <1>1
<1> HIDE DEF n, z
<1>4. PICK G : Joins(G, z, n) /\ FlattenSeq(z) = G[n]
  BY <1>1, <1>3, FlattenSteps
<1> DEFINE H == [i \in 0..n |-> IF i = 0 THEN <<>> ELSE G[i]]
<1>5. H[0] = <<>> /\ \A i \in 1..n : H[i] = G[i]
  BY <1>1
<1> HIDE DEF H
<1>6. ASSUME NEW i \in 1..n PROVE H[i] = H[i - 1] \o Piece(t, E, i)
  <2>1. CASE i = 1
    <3>1. z[1] \in Seq(Char)
      BY <1>1, <1>3, PieceIsText DEF n
    <3>2. <<>> \o z[1] = z[1]
      BY <3>1, ConcatEmptySeq
    <3>3. H[i] = z[1] /\ H[i - 1] = <<>> /\ z[1] = Piece(t, E, i)
      BY <1>1, <1>3, <1>4, <1>5, <2>1 DEF Joins
    <3> QED
      BY <3>2, <3>3
  <2>2. CASE i # 1
    <3>1. i \in 2..n /\ i - 1 \in 1..n
      BY <1>1, <2>2
    <3> QED
      BY <1>3, <1>4, <1>5, <3>1 DEF Joins
  <2> QED
    BY <2>1, <2>2
<1>7. GrowsTo(H, t, E)
  BY <1>5, <1>6 DEF GrowsTo, n
<1>8. AtOnce(t, E) = H[n]
  BY <1>1, <1>2, <1>4, <1>5
<1> QED
  BY <1>7, <1>8 DEF n

\* All prefixes are texts.
LEMMA PrefixesAreTexts ==
    ASSUME NEW t \in Seq(Char), NEW E, NEW H, GrowsTo(H, t, E)
    PROVE  \A i \in 0..Len(t) + 1 : H[i] \in Seq(Char)
PROOF
<1> DEFINE n == Len(t) + 1
           T == {i \in 0..n : H[i] \in Seq(Char)}
<1>1. n \in Nat
  BY LenProperties
<1>2. 0 \in T
  <2>1. H[0] = <<>> /\ <<>> \in Seq(Char)
    BY EmptySeq DEF GrowsTo
  <2>2. 0 \in 0..n
    BY <1>1
  <2> QED
    BY <2>1, <2>2, Zenon
<1>3. ASSUME NEW i \in 0..n - 1, i \in T PROVE i + 1 \in T
  <2>1. i + 1 \in 1..n /\ (i + 1) - 1 = i
    BY <1>1
  <2>2. H[i + 1] = H[i] \o Piece(t, E, i + 1)
    BY <2>1 DEF GrowsTo
  <2>3. Piece(t, E, i + 1) \in Seq(Char)
    BY <2>1, PieceIsText
  <2>4. H[i + 1] \in Seq(Char)
    BY <1>3, <2>2, <2>3, ConcatProperties
  <2> QED
    BY <1>1, <2>1, <2>4
<1> HIDE DEF T, n
<1>4. \A i \in 0..n : i \in T
  BY <1>1, <1>2, <1>3, AllBetween
<1> QED
  BY <1>4 DEF T, n

\* One more character.
LEMMA OneMore ==
    ASSUME NEW t \in Seq(Char), NEW i \in Nat, i < Len(t)
    PROVE  SubSeq(t, 1, i) \o <<t[i + 1]>> = SubSeq(t, 1, i + 1)
PROOF
<1>1. Len(t) \in Nat
  BY LenProperties
<1>2. 1 \in 1..Len(t) /\ i + 1 \in 1..Len(t) /\ (i + 1) - 1 = i
  BY <1>1
<1>3. SubSeq(t, 1, i + 1) = SubSeq(t, 1, (i + 1) - 1) \o <<t[i + 1]>>
  BY <1>2, SubSeqRecursiveSecond
<1> QED
  BY <1>2, <1>3

\* What lies before all ranges stays as it is.
LEMMA PrefixBelow ==
    ASSUME NEW t \in Seq(Char), NEW E \in SUBSET Span, NEW H, GrowsTo(H, t, E),
           NEW c \in 0..Len(t), \A e \in E : c <= e.from
    PROVE  \A i \in 0..c : H[i] = SubSeq(t, 1, i)
PROOF
<1> DEFINE T == {i \in 0..c : H[i] = SubSeq(t, 1, i)}
<1>1. Len(t) \in Nat /\ c \in Nat /\ c <= Len(t)
  BY LenProperties
<1>2. 0 \in T
  <2>1. SubSeq(t, 1, 0) = <<>>
    BY SubSeqEmpty
  <2>2. H[0] = <<>>
    BY DEF GrowsTo
  <2>3. 0 \in 0..c
    BY <1>1
  <2> QED
    BY <2>1, <2>2, <2>3, Zenon
<1>3. ASSUME NEW i \in 0..c - 1, i \in T PROVE i + 1 \in T
  <2>1. i + 1 \in 1..Len(t) + 1 /\ (i + 1) - 1 = i /\ i < Len(t) /\ i \in Nat
    BY <1>1
  <2>2. H[i + 1] = H[i] \o Piece(t, E, i + 1)
    BY <2>1 DEF GrowsTo
  <2>3. \A e \in E : e.from \in Nat /\ i < e.from
    BY <1>1 DEF Span
  <2>4. ~StartsAt(E, i + 1) /\ ~IsGone(t, E, i + 1)
    BY <1>1, <2>1, <2>3 DEF StartsAt, IsGone
  <2>5. Piece(t, E, i + 1) = <<t[i + 1]>>
    BY <2>1, <2>4, Pieces
  <2>6. H[i + 1] = SubSeq(t, 1, i + 1)
    BY <1>3, <2>1, <2>2, <2>5, OneMore
  <2> QED
    BY <1>1, <2>6
<1> HIDE DEF T
<1>4. \A i \in 0..c : i \in T
  <2>1. 0 \in Nat /\ c \in Nat
    BY <1>1
  <2> QED
    BY <2>1, <1>2, <1>3, AllBetween
<1> QED
  BY <1>4 DEF T

\* Without ranges the text stays as it is.
LEMMA AtOnceNothing ==
    ASSUME NEW t \in Seq(Char)
    PROVE  AtOnce(t, {}) = t
PROOF
<1>1. PICK H : GrowsTo(H, t, {}) /\ AtOnce(t, {}) = H[Len(t) + 1]
  BY AtOnceJoins
<1> DEFINE n == Len(t)
<1>2. n \in Nat
  BY LenProperties
<1>3. H[n] = t
  <2>1. {} \in SUBSET Span /\ n \in 0..Len(t) /\ n \in 0..n
    BY <1>2
  <2>2. H[n] = SubSeq(t, 1, n)
    BY <1>1, <2>1, PrefixBelow
  <2> QED
    BY <2>2, SubSeqFull
<1>4. H[n + 1] = H[n] \o Piece(t, {}, n + 1)
  <2>1. n + 1 \in 1..n + 1 /\ (n + 1) - 1 = n
    BY <1>2
  <2> QED
    BY <1>1, <2>1 DEF GrowsTo
<1>5. Piece(t, {}, n + 1) = <<>>
  <2>1. ~StartsAt({}, n + 1) /\ IsGone(t, {}, n + 1) /\ n + 1 \in 1..Len(t) + 1
    BY <1>2 DEF StartsAt, IsGone
  <2> QED
    BY <2>1, Pieces
<1>6. t \o <<>> = t
  BY ConcatEmptySeq
<1> QED
  BY <1>1, <1>3, <1>4, <1>5, <1>6

LEMMA JoinedInAnyOrder ==
    ASSUME NEW a \in Seq(Char), NEW b \in Seq(Char), NEW c \in Seq(Char)
    PROVE  (a \o b) \o c = a \o (b \o c)
PROOF
  BY ConcatAssociative

\* The parts of two joined texts.
LEMMA PartsOfJoined ==
    ASSUME NEW a \in Seq(Char), NEW g \in Seq(Char), NEW k \in 0..Len(a)
    PROVE  /\ a \o g \in Seq(Char) /\ Len(a \o g) = Len(a) + Len(g)
           /\ SubSeq(a \o g, 1, k) = SubSeq(a, 1, k)
           /\ SubSeq(a \o g, Len(a) + 1, Len(a \o g)) = g
PROOF
<1>1. a \o g \in Seq(Char) /\ Len(a \o g) = Len(a) + Len(g)
  BY ConcatProperties
<1>2. Len(a) \in Nat /\ Len(g) \in Nat
  BY LenProperties
<1>3. SubSeq(a \o g, 1, k) = SubSeq(a, 1, k)
  <2>1. CASE k = 0
    BY <2>1, SubSeqEmpty
  <2>2. CASE k # 0
    <3>1. 1 \in 1..Len(a) /\ k \in 1..Len(a)
      BY <1>2, <2>2
    <3> QED
      BY <3>1, SubSeqOfConcat1
  <2> QED
    BY <2>1, <2>2
<1>4. SubSeq(a \o g, Len(a) + 1, Len(a) + Len(g)) = g
  <2> DEFINE m == Len(a) + 1
             n == Len(a) + Len(g)
  <2>1. CASE Len(g) = 0
    <3>1. m \in Int /\ n \in Int /\ n < m /\ g = <<>>
      BY <1>2, <2>1, EmptySeq
    <3> QED
      BY <3>1, SubSeqEmpty
  <2>2. CASE Len(g) # 0
    <3>1. m \in Len(a) + 1..Len(a) + Len(g) /\ n \in Len(a) + 1..Len(a) + Len(g)
      BY <1>2, <2>2
    <3>2. m - Len(a) = 1 /\ n - Len(a) = Len(g)
      BY <1>2
    <3> HIDE DEF m, n
    <3>3. SubSeq(a \o g, m, n) = SubSeq(g, m - Len(a), n - Len(a))
      BY <3>1, SubSeqOfConcat2
    <3>4. SubSeq(a \o g, m, n) = g
      BY <3>2, <3>3, SubSeqFull
    <3> QED
      BY <3>4 DEF m, n
  <2> QED
    BY <2>1, <2>2
<1> QED
  BY <1>1, <1>3, <1>4

\* e ends before the ranges of E start.
IsBelow(e, E) == e.from <= e.to /\ \A d \in E : e.from < d.from /\ e.to <= d.from

\* The first character that e leaves in its place behind the new name.
FirstBehind(e) == IF e.from = e.to THEN e.to + 1 ELSE e.to

\* x and y are a and b with the same text behind them.
Differ(x, y, a, b) == \E g \in Seq(Char) : x = a \o g /\ y = b \o g

\* The same text put behind two that differ leaves them as different.
LEMMA DifferStill ==
    ASSUME NEW a \in Seq(Char), NEW b \in Seq(Char), NEW x, NEW y, NEW p \in Seq(Char), Differ(x, y, a, b)
    PROVE  Differ(x \o p, y \o p, a, b)
PROOF
<1>1. PICK g \in Seq(Char) : x = a \o g /\ y = b \o g
  BY DEF Differ
<1>2. g \o p \in Seq(Char)
  BY ConcatProperties
<1>3. (a \o g) \o p = a \o (g \o p)
  BY JoinedInAnyOrder
<1>4. (b \o g) \o p = b \o (g \o p)
  BY JoinedInAnyOrder
<1> QED
  BY <1>1, <1>2, <1>3, <1>4 DEF Differ

\* Where e ends, the two texts have come to differ by e and the new name.
LEMMA DifferAtFirst ==
    ASSUME NEW t \in Seq(Char), NEW E \in SUBSET Span, NEW e \in Span, e.to <= Len(t), IsBelow(e, E),
           NEW H, GrowsTo(H, t, E), NEW K, GrowsTo(K, t, E \cup {e})
    PROVE  Differ(H[FirstBehind(e)], K[FirstBehind(e)],
                  SubSeq(t, 1, e.to), SubSeq(t, 1, e.from) \o NewName)
PROOF
<1> DEFINE a == e.from
           b == e.to
           D == E \cup {e}
<1>1. Len(t) \in Nat /\ a \in Nat /\ b \in Nat /\ a <= b /\ b <= Len(t)
  BY LenProperties DEF IsBelow, Span
<1>2. \A d \in E : d.from \in Nat /\ a < d.from /\ b <= d.from
  BY DEF IsBelow, Span
<1>3. /\ D \in SUBSET Span /\ E \subseteq D /\ e \in D /\ \A d \in D : d \in E \/ d = e
      /\ GrowsTo(K, t, D)
  OBVIOUS
<1> HIDE DEF D
<1>4. H[b] = SubSeq(t, 1, b)
  <2>1. b \in 0..Len(t) /\ b \in 0..b
    BY <1>1
  <2>2. \A d \in E : b <= d.from
    BY <1>2
  <2>3. \A i \in 0..b : H[i] = SubSeq(t, 1, i)
    <3> HIDE DEF b
    <3> QED
      BY <2>1, <2>2, PrefixBelow
  <2> QED
    BY <2>1, <2>3, Zenon
<1>5. K[a] = SubSeq(t, 1, a)
  <2>1. a \in 0..Len(t) /\ a \in 0..a /\ \A d \in D : a <= d.from
    BY <1>1, <1>2, <1>3
  <2>2. \A i \in 0..a : K[i] = SubSeq(t, 1, i)
    <3>1. D \in SUBSET Span /\ GrowsTo(K, t, D)
      BY <1>3
    <3> HIDE DEF a
    <3> QED
      BY <2>1, <3>1, PrefixBelow
  <2> QED
    BY <2>1, <2>2, Zenon
<1>6. /\ SubSeq(t, 1, a) \in Seq(Char) /\ SubSeq(t, 1, b) \in Seq(Char)
      /\ NewName \in Seq(Char) /\ <<>> \in Seq(Char)
  <2>1. a \in 0..Len(t) /\ b \in 0..Len(t) /\ 0 + 1 = 1 /\ 0 \in Nat
    BY <1>1
  <2>2. SubSeq(t, 0 + 1, a) \in Seq(Char) /\ SubSeq(t, 0 + 1, b) \in Seq(Char)
    BY <1>1, <2>1, PartOfText
  <2>3. 1 \in 1..Len(t) + 1
    BY <1>1
  <2> QED
    BY <2>1, <2>2, <2>3, PieceIsText, EmptySeq
<1>7. K[a + 1] = K[a] \o Piece(t, D, a + 1) /\ H[a + 1] = H[a] \o Piece(t, E, a + 1)
  <2>1. a + 1 \in 1..Len(t) + 1 /\ (a + 1) - 1 = a
    BY <1>1
  <2> QED
    BY <1>3, <2>1 DEF GrowsTo
<1>8. StartsAt(D, a + 1) /\ ~StartsAt(E, a + 1)
  BY <1>1, <1>2, <1>3 DEF StartsAt
<1>9. a + 1 \in 1..Len(t) + 1
  BY <1>1
<1>10. CASE a = b
  <2> DEFINE X == IF a + 1 > Len(t) THEN <<>> ELSE <<t[a + 1]>>
  <2>1. FirstBehind(e) = a + 1
    BY <1>10 DEF FirstBehind
  <2>2. X \in Seq(Char)
    <3>1. CASE a + 1 > Len(t)
      BY <1>6, <3>1
    <3>2. CASE ~(a + 1 > Len(t))
      <4>1. t[a + 1] \in Char
        BY <1>1, <3>2, ElementOfSeq
      <4> QED
        BY <3>2, <4>1
    <3> QED
      BY <3>1, <3>2
  <2>3. IsGone(t, D, a + 1) <=> a + 1 > Len(t)
    BY <1>1, <1>2, <1>3, <1>10 DEF IsGone
  <2>4. IsGone(t, E, a + 1) <=> a + 1 > Len(t)
    BY <1>1, <1>2 DEF IsGone
  <2>5. Piece(t, E, a + 1) = X
    BY <1>8, <1>9, <2>4, Pieces
  <2>6. Piece(t, D, a + 1) = NewName \o X
    <3>1. CASE a + 1 > Len(t)
      BY <1>6, <1>8, <1>9, <2>3, <3>1, Pieces, ConcatEmptySeq
    <3>2. CASE ~(a + 1 > Len(t))
      BY <1>8, <1>9, <2>3, <3>2, Pieces
    <3> QED
      BY <3>1, <3>2
  <2> HIDE DEF X
  <2>7. (SubSeq(t, 1, a) \o NewName) \o X = SubSeq(t, 1, a) \o (NewName \o X)
    <3> DEFINE P == SubSeq(t, 1, a)
    <3>1. P \in Seq(Char) /\ NewName \in Seq(Char)
      BY <1>6
    <3> HIDE DEF P
    <3>2. (P \o NewName) \o X = P \o (NewName \o X)
      BY <2>2, <3>1, JoinedInAnyOrder
    <3> QED
      BY <3>2 DEF P
  <2>8. H[a + 1] = SubSeq(t, 1, b) \o X
    BY <1>4, <1>7, <1>10, <2>5
  <2>9. K[a + 1] = (SubSeq(t, 1, a) \o NewName) \o X
    BY <1>5, <1>7, <2>6, <2>7
  <2> QED
    BY <2>1, <2>2, <2>8, <2>9 DEF Differ
<1>11. CASE a # b
  <2> DEFINE B == SubSeq(t, 1, a) \o NewName
             c == a + 1
             T == {i \in c..b : K[i] = B}
  <2>1. FirstBehind(e) = b /\ a + 1 <= b
    BY <1>1, <1>11 DEF FirstBehind
  <2>2. B \in Seq(Char)
    BY <1>6, ConcatProperties
  <2>3. K[a + 1] = B
    <3>1. IsGone(t, D, a + 1)
      BY <1>1, <1>3, <2>1 DEF IsGone
    <3>2. Piece(t, D, a + 1) = NewName
      BY <1>8, <1>9, <3>1, Pieces
    <3> QED
      BY <1>5, <1>7, <3>2
  <2>4. ASSUME NEW i \in c..b - 1, i \in T PROVE i + 1 \in T
    <3>1. i + 1 \in 1..Len(t) + 1 /\ (i + 1) - 1 = i /\ i + 1 \in c..b /\ a < i
      BY <1>1
    <3>2. K[i + 1] = K[i] \o Piece(t, D, i + 1)
      BY <1>3, <3>1 DEF GrowsTo
    <3>3. ~StartsAt(D, i + 1) /\ IsGone(t, D, i + 1)
      BY <1>1, <1>2, <1>3, <3>1 DEF StartsAt, IsGone
    <3>4. Piece(t, D, i + 1) = <<>>
      BY <3>1, <3>3, Pieces
    <3>5. K[i + 1] = B
      BY <2>2, <2>4, <3>2, <3>4, ConcatEmptySeq
    <3> QED
      BY <3>1, <3>5
  <2> HIDE DEF B
  <2>5. c \in T /\ c \in Nat /\ b \in c..b
    BY <1>1, <2>1, <2>3
  <2> HIDE DEF T, c
  <2>6. \A i \in c..b : i \in T
    BY <1>1, <2>4, <2>5, AllBetween
  <2>7. K[b] = B
    BY <2>5, <2>6 DEF T
  <2>8. B \o <<>> = B /\ SubSeq(t, 1, b) \o <<>> = SubSeq(t, 1, b)
    BY <1>6, <2>2, ConcatEmptySeq
  <2> QED
    BY <1>4, <1>6, <2>1, <2>7, <2>8 DEF B, Differ
<1> QED
  BY <1>10, <1>11

\* Behind e the two texts go on alike.
LEMMA GrowAlike ==
    ASSUME NEW t \in Seq(Char), NEW E \in SUBSET Span, NEW e \in Span, e.to <= Len(t), IsBelow(e, E),
           NEW H, GrowsTo(H, t, E), NEW K, GrowsTo(K, t, E \cup {e}),
           NEW a \in Seq(Char), NEW b \in Seq(Char),
           Differ(H[FirstBehind(e)], K[FirstBehind(e)], a, b)
    PROVE  Differ(H[Len(t) + 1], K[Len(t) + 1], a, b)
PROOF
<1> DEFINE n == Len(t) + 1
           c == FirstBehind(e)
           D == E \cup {e}
           T == {i \in c..n : Differ(H[i], K[i], a, b)}
<1>1. Len(t) \in Nat /\ e.from \in Nat /\ e.to \in Nat /\ e.from <= e.to /\ e.to <= Len(t)
  BY LenProperties DEF IsBelow, Span
<1>2. c \in Nat /\ n \in Nat /\ c <= n /\ c > e.from /\ c >= e.to
  BY <1>1 DEF FirstBehind
<1>3. \A d \in D : d \in E \/ d = e
  OBVIOUS
<1>4. GrowsTo(K, t, D) /\ E \subseteq D
  OBVIOUS
<1> HIDE DEF D
<1>5. c \in T
  <2>1. c \in c..n
    BY <1>2
  <2> QED
    BY <2>1
<1>6. ASSUME NEW i \in c..n - 1, i \in T PROVE i + 1 \in T
  <2>1. i + 1 \in 1..n /\ (i + 1) - 1 = i /\ i + 1 \in c..n /\ i >= c /\ i \in Nat
    BY <1>2
  <2> DEFINE p == Piece(t, E, i + 1)
  <2>3. p \in Seq(Char)
    BY <2>1, PieceIsText
  <2>4. StartsAt(D, i + 1) <=> StartsAt(E, i + 1)
    BY <1>1, <1>2, <1>3, <1>4, <2>1 DEF StartsAt
  <2>5. IsGone(t, D, i + 1) <=> IsGone(t, E, i + 1)
    BY <1>1, <1>2, <1>3, <1>4, <2>1 DEF IsGone
  <2>6. Piece(t, D, i + 1) = p
    BY <2>4, <2>5 DEF Piece
  <2>7. H[i + 1] = H[i] \o p /\ K[i + 1] = K[i] \o p
    BY <1>4, <2>1, <2>6 DEF GrowsTo
  <2> HIDE DEF p
  <2>8. Differ(H[i], K[i], a, b)
    BY <1>6
  <2>9. Differ(H[i] \o p, K[i] \o p, a, b)
    BY <2>3, <2>8, DifferStill
  <2>10. Differ(H[i + 1], K[i + 1], a, b)
    BY <2>7, <2>9
  <2> QED
    BY <2>1, <2>10
<1> HIDE DEF T, c, n
<1>7. \A i \in c..n : i \in T
  BY <1>2, <1>5, <1>6, AllBetween
<1>8. n \in T
  BY <1>2, <1>7
<1> QED
  BY <1>8 DEF T, n

\* AtOnce for a range more, in front of the others, is the replacement of that
\* range in AtOnce for the others; it still lies in the text there.
LEMMA OneRangeMore ==
    ASSUME NEW t \in Seq(Char), NEW E \in SUBSET Span, NEW e \in Span, e.to <= Len(t), IsBelow(e, E)
    PROVE  /\ AtOnce(t, E) \in Seq(Char)
           /\ IsPlaced(AtOnce(t, E), e)
           /\ Replace(AtOnce(t, E), e) = AtOnce(t, E \cup {e})
           /\ SubSeq(AtOnce(t, E), 1, e.to) = SubSeq(t, 1, e.to)
PROOF
<1> DEFINE p == SubSeq(t, 1, e.from)
           q == SubSeq(t, 1, e.to)
           u == AtOnce(t, E)
<1>1. Len(t) \in Nat /\ e.from \in Nat /\ e.to \in Nat /\ e.from <= e.to /\ e.to <= Len(t)
  BY LenProperties DEF IsBelow, Span
<1>2. PICK H : GrowsTo(H, t, E) /\ u = H[Len(t) + 1]
  BY AtOnceJoins
<1>3. PICK K : GrowsTo(K, t, E \cup {e}) /\ AtOnce(t, E \cup {e}) = K[Len(t) + 1]
  BY AtOnceJoins
<1>4. NewName \in Seq(Char)
  BY TextsAssumption
<1>5. p \in Seq(Char) /\ q \in Seq(Char) /\ Len(q) = e.to
  <2>1. 0 \in Nat /\ 0 + 1 = 1
    OBVIOUS
  <2>2. SubSeq(t, 0 + 1, e.from) \in Seq(Char)
    BY <1>1, PartOfText
  <2>3. /\ SubSeq(t, 0 + 1, e.to) \in Seq(Char)
        /\ Len(SubSeq(t, 0 + 1, e.to)) = IF 0 < e.to THEN e.to - 0 ELSE 0
    BY <1>1, PartOfText
  <2> QED
    BY <1>1, <2>1, <2>2, <2>3
<1>6. Differ(H[FirstBehind(e)], K[FirstBehind(e)], q, p \o NewName)
  BY <1>2, <1>3, DifferAtFirst
<1>7. p \o NewName \in Seq(Char)
  BY <1>4, <1>5, ConcatProperties
<1> HIDE DEF p, q, u
<1>8. PICK g \in Seq(Char) : u = q \o g /\ AtOnce(t, E \cup {e}) = (p \o NewName) \o g
  <2> DEFINE r == p \o NewName
  <2>1. r \in Seq(Char) /\ Differ(H[FirstBehind(e)], K[FirstBehind(e)], q, r)
    BY <1>6, <1>7
  <2> HIDE DEF r
  <2>2. Differ(H[Len(t) + 1], K[Len(t) + 1], q, r)
    BY <1>2, <1>3, <1>5, <2>1, GrowAlike
  <2> QED
    BY <1>2, <1>3, <2>2 DEF Differ, r
<1>9. e.from \in 0..Len(q) /\ e.to \in 0..Len(q)
  BY <1>1, <1>5
<1>10. /\ u \in Seq(Char) /\ Len(u) = Len(q) + Len(g)
       /\ SubSeq(u, 1, e.from) = SubSeq(q, 1, e.from)
       /\ SubSeq(u, 1, e.to) = SubSeq(q, 1, e.to)
       /\ SubSeq(u, e.to + 1, Len(u)) = g
  <2>1. /\ q \o g \in Seq(Char) /\ Len(q \o g) = Len(q) + Len(g)
        /\ SubSeq(q \o g, 1, e.from) = SubSeq(q, 1, e.from)
    BY <1>5, <1>9, PartsOfJoined
  <2>2. /\ SubSeq(q \o g, 1, e.to) = SubSeq(q, 1, e.to)
        /\ SubSeq(q \o g, Len(q) + 1, Len(q \o g)) = g
    BY <1>5, <1>9, PartsOfJoined
  <2> QED
    BY <1>5, <1>8, <2>1, <2>2
<1>11. SubSeq(q, 1, e.to) = q
  BY <1>5, SubSeqFull
<1>12. SubSeq(q, 1, e.from) = p
  <2>1. CASE e.from = 0
    BY <2>1, SubSeqEmpty DEF p
  <2>2. CASE e.from # 0
    <3>1. 1 \in 1..Len(t) /\ e.to \in 1..Len(t) /\ 1 \in 1..e.to - 1 + 1 /\ e.from \in 1..e.to - 1 + 1
      BY <1>1, <2>2
    <3>2. SubSeq(SubSeq(t, 1, e.to), 1, e.from) = SubSeq(t, 1 + 1 - 1, 1 + e.from - 1)
      BY <3>1, SubSeqOfSubSeq
    <3> QED
      BY <1>1, <3>2 DEF p, q
  <2> QED
    BY <2>1, <2>2
<1>13. IsPlaced(u, e)
  BY <1>1, <1>5, <1>8, <1>10, LenProperties DEF IsPlaced
<1>14. Replace(u, e) = AtOnce(t, E \cup {e})
  BY <1>8, <1>10, <1>12 DEF Replace
<1> QED
  BY <1>10, <1>11, <1>13, <1>14 DEF u, q

\* Ranges that lie in t, apart.
AreApart(t, E) ==
    /\ E \subseteq Span
    /\ \A e \in E : IsPlaced(t, e)
    /\ \A d, e \in E : d # e => d.from # e.from /\ (d.to <= e.from \/ e.to <= d.from)

\* The first k ranges that s lists.
FirstOf(s, k) == {s[i] : i \in 1..k}

\* The next range that s lists is below those before.
LEMMA NextIsBelow ==
    ASSUME NEW t, NEW E, AreApart(t, E), NEW s, NEW n, Lists(s, n, E), NEW k \in 1..n
    PROVE  /\ FirstOf(s, k - 1) \in SUBSET Span /\ s[k] \in Span /\ s[k].to <= Len(t)
           /\ IsBelow(s[k], FirstOf(s, k - 1))
           /\ FirstOf(s, k) = FirstOf(s, k - 1) \cup {s[k]}
PROOF
<1>1. n \in Nat /\ s \in [1..n -> E] /\ k \in Nat /\ k <= n
  BY DEF Lists
<1>2. s[k] \in E /\ s[k] \in Span /\ s[k].from <= s[k].to /\ s[k].to <= Len(t)
  BY <1>1 DEF AreApart, IsPlaced
<1>3. ASSUME NEW i \in 1..k - 1 PROVE s[i] \in E /\ s[k].from < s[i].from /\ s[k].to <= s[i].from
  <2>1. i \in 1..n /\ i < k
    BY <1>1
  <2>2. s[i] \in E /\ s[i].from > s[k].from
    BY <1>1, <2>1 DEF Lists
  <2>3. /\ s[i].from \in Nat /\ s[i].to \in Nat /\ s[k].from \in Nat /\ s[k].to \in Nat
        /\ s[i].from <= s[i].to
    BY <1>2, <2>2 DEF AreApart, IsPlaced, Span
  <2>4. s[i] # s[k]
    BY <2>2, <2>3
  <2>5. s[i].to <= s[k].from \/ s[k].to <= s[i].from
    BY <1>2, <2>2, <2>4 DEF AreApart
  <2> QED
    BY <2>2, <2>3, <2>5
<1>4. FirstOf(s, k - 1) \subseteq E
  BY <1>3 DEF FirstOf
<1>5. IsBelow(s[k], FirstOf(s, k - 1))
  BY <1>2, <1>3 DEF IsBelow, FirstOf
<1>6. FirstOf(s, k) = FirstOf(s, k - 1) \cup {s[k]}
  <2>1. 1..k = (1..k - 1) \cup {k}
    BY <1>1
  <2> QED
    BY <2>1 DEF FirstOf
<1> QED
  BY <1>2, <1>4, <1>5, <1>6 DEF AreApart

\* After k edits from the bottom the text is what the first k make of it at once.
LEMMA StepsAreAtOnce ==
    ASSUME NEW t \in Seq(Char), NEW E, AreApart(t, E), NEW s, NEW n, Lists(s, n, E),
           NEW guarded, NEW F, StepsOf(F, guarded, t, s, n)
    PROVE  \A k \in 0..n : F[k] = AtOnce(t, FirstOf(s, k))
PROOF
<1> DEFINE T == {k \in 0..n : F[k] = AtOnce(t, FirstOf(s, k))}
<1>1. n \in Nat
  BY DEF Lists
<1>2. 0 \in T
  <2>1. FirstOf(s, 0) = {}
    BY DEF FirstOf
  <2>2. F[0] = AtOnce(t, FirstOf(s, 0))
    BY <2>1, AtOnceNothing DEF StepsOf
  <2> QED
    BY <1>1, <2>2
<1>3. ASSUME NEW k \in 0..n - 1, k \in T PROVE k + 1 \in T
  <2>1. k + 1 \in 1..n /\ (k + 1) - 1 = k /\ k + 1 \in 0..n
    BY <1>1
  <2> DEFINE e == s[k + 1]
             D == FirstOf(s, k)
  <2>2. D \in SUBSET Span /\ e \in Span /\ e.to <= Len(t) /\ IsBelow(e, D) /\ FirstOf(s, k + 1) = D \cup {e}
    BY <2>1, NextIsBelow
  <2>3. F[k + 1] = ReplaceWhen(guarded, F[k], e)
    BY <2>1 DEF StepsOf
  <2>4. F[k] = AtOnce(t, D)
    BY <1>3
  <2> HIDE DEF e, D
  <2>5. IsPlaced(AtOnce(t, D), e) /\ Replace(AtOnce(t, D), e) = AtOnce(t, D \cup {e})
    BY <2>2, OneRangeMore
  <2>6. F[k + 1] = AtOnce(t, FirstOf(s, k + 1))
    BY <2>2, <2>3, <2>4, <2>5 DEF ReplaceWhen
  <2> QED
    BY <2>1, <2>6
<1> HIDE DEF T
<1>4. \A k \in 0..n : k \in T
  <2>1. 0 \in Nat
    OBVIOUS
  <2> QED
    BY <1>1, <1>2, <1>3, <2>1, AllBetween
<1> QED
  BY <1>4 DEF T

\* Applied from the bottom to the top, ranges that lie in the text apart are
\* replaced as they lie there, none of them skipped or displaced.
THEOREM AppliedAtOnce ==
    ASSUME NEW t \in Seq(Char), NEW E, AreApart(t, E)
    PROVE  ApplyEdits(t, E) = AtOnce(t, E) /\ FoldLeft(Replace, t, BottomUp(E)) = AtOnce(t, E)
PROOF
<1>1. PICK n : Lists(BottomUp(E), n, E)
  <2> DEFINE m == Len(t) + 1
  <2>1. m \in Nat /\ \A e \in E : e.from < m
    BY LenProperties DEF AreApart, IsPlaced, Span
  <2>2. E \subseteq Span /\ StartApart(E)
    BY DEF AreApart, StartApart
  <2> HIDE DEF m
  <2> QED
    BY <2>1, <2>2, BottomUpLists
<1> DEFINE s == BottomUp(E)
<1>2. n \in Nat /\ DOMAIN s = 1..n
  BY <1>1 DEF Lists
<1>3. FirstOf(s, n) = E
  BY <1>1 DEF Lists, FirstOf
<1>4. PICK F : StepsOf(F, "checked", t, s, n) /\ ApplyEdits(t, E) = F[n]
  BY <1>2, FoldOfPlaced
<1>5. PICK G : StepsOf(G, "unchecked", t, s, n) /\ FoldLeft(Replace, t, s) = G[n]
  BY <1>2, FoldOfReplace
<1>6. n \in 0..n
  BY <1>2
<1>7. F[n] = AtOnce(t, E)
  BY <1>1, <1>3, <1>4, <1>6, StepsAreAtOnce
<1>8. G[n] = AtOnce(t, E)
  BY <1>1, <1>3, <1>5, <1>6, StepsAreAtOnce
<1> QED
  BY <1>4, <1>5, <1>7, <1>8

\* The ranges of a name are apart, in the text they were found in and in
\* every other text that they lie in.
LEMMA OccurrencesAreApart ==
    ASSUME NEW u \in Seq(Char), NEW name, name # <<>>,
           NEW t, \A e \in Occurrences(u, name) : IsPlaced(t, e)
    PROVE  AreApart(t, Occurrences(u, name))
PROOF
<1> DEFINE E == Occurrences(u, name)
<1>1. Len(u) \in Nat
  BY LenProperties
<1>2. \A e \in E : /\ e \in [from : 0..Len(u), to : 0..Len(u)]
                   /\ e.from < e.to /\ IsRun(u, e.from, e.to)
  BY OccurrencesAreRuns
<1> HIDE DEF E
<1>3. E \subseteq Span
  BY <1>1, <1>2 DEF Span
<1>4. ASSUME NEW d \in E, NEW e \in E, d # e
      PROVE  d.from # e.from /\ (d.to <= e.from \/ e.to <= d.from)
  <2>1. (d.from = e.from /\ d.to = e.to) \/ d.to < e.from \/ e.to < d.from
    BY <1>1, <1>2, RunsAreApart
  <2>2. ~(d.from = e.from /\ d.to = e.to)
    BY <1>2, <1>4
  <2>3. /\ d.from \in Nat /\ d.to \in Nat /\ e.from \in Nat /\ e.to \in Nat
        /\ d.from < d.to /\ e.from < e.to
    BY <1>2, <1>3 DEF Span
  <2> QED
    BY <2>1, <2>2, <2>3
<1> QED
  BY <1>3, <1>4 DEF AreApart, E

-----------------------------------------------------------------------------
(* A rename leaves no place of the old name *)

\* The characters of a text with one range replaced.
LEMMA Replaced ==
    ASSUME NEW u \in Seq(Char), NEW e \in Span, IsPlaced(u, e)
    PROVE  LET v == Replace(u, e)
           IN  /\ v \in Seq(Char) /\ Len(v) = e.from + Len(NewName) + (Len(u) - e.to)
               /\ \A i \in 1..e.from : v[i] = u[i]
               /\ \A i \in 1..Len(NewName) : v[e.from + i] = NewName[i]
               /\ \A i \in 1..Len(u) - e.to : v[e.from + Len(NewName) + i] = u[e.to + i]
PROOF
<1> DEFINE a == SubSeq(u, 1, e.from)
           c == SubSeq(u, e.to + 1, Len(u))
           v == Replace(u, e)
<1>1. /\ Len(u) \in Nat /\ e.from \in Nat /\ e.to \in Nat /\ e.from <= e.to /\ e.to <= Len(u)
      /\ NewName \in Seq(Char) /\ Len(NewName) \in Nat
  BY TextsAssumption, LenProperties DEF IsPlaced, Span
<1>2. /\ a \in Seq(Char) /\ Len(a) = e.from
      /\ \A i \in 1..e.from : a[i] = u[i]
  <2>1. 0 \in Nat /\ 0 + 1 = 1 /\ e.from - 0 = e.from
    BY <1>1
  <2>2. /\ SubSeq(u, 0 + 1, e.from) \in Seq(Char)
        /\ Len(SubSeq(u, 0 + 1, e.from)) = IF 0 < e.from THEN e.from - 0 ELSE 0
        /\ \A i \in 1..e.from - 0 : SubSeq(u, 0 + 1, e.from)[i] = u[0 + i]
    BY <1>1, <2>1, PartOfText
  <2>3. SubSeq(u, 0 + 1, e.from) = a
    BY <2>1
  <2>4. a \in Seq(Char) /\ Len(a) = e.from
    BY <1>1, <2>2, <2>3
  <2>5. ASSUME NEW i \in 1..e.from PROVE a[i] = u[i]
    <3>1. i \in 1..e.from - 0 /\ 0 + i = i
      BY <1>1
    <3> QED
      BY <2>2, <2>3, <3>1
  <2> QED
    BY <2>4, <2>5
<1>3. /\ c \in Seq(Char) /\ Len(c) = Len(u) - e.to
      /\ \A i \in 1..Len(u) - e.to : c[i] = u[e.to + i]
  <2>1. /\ c \in Seq(Char) /\ Len(c) = IF e.to < Len(u) THEN Len(u) - e.to ELSE 0
        /\ \A i \in 1..Len(u) - e.to : c[i] = u[e.to + i]
    <3> DEFINE j == Len(u)
    <3>1. j \in Nat /\ j <= Len(u) /\ e.to \in Nat
      BY <1>1
    <3> HIDE DEF j
    <3>2. /\ SubSeq(u, e.to + 1, j) \in Seq(Char)
          /\ Len(SubSeq(u, e.to + 1, j)) = IF e.to < j THEN j - e.to ELSE 0
          /\ \A i \in 1..j - e.to : SubSeq(u, e.to + 1, j)[i] = u[e.to + i]
      BY <3>1, PartOfText
    <3> QED
      BY <3>2 DEF j
  <2> QED
    BY <1>1, <2>1
<1>4. v = (a \o NewName) \o c
  BY DEF Replace
<1> HIDE DEF a, c, v
<1> DEFINE b == a \o NewName
<1>5. /\ b \in Seq(Char) /\ Len(b) = e.from + Len(NewName)
      /\ \A i \in 1..e.from + Len(NewName) : b[i] = IF i <= e.from THEN a[i] ELSE NewName[i - e.from]
  <2>1. b = a \o NewName
    OBVIOUS
  <2> HIDE DEF b
  <2>2. /\ b \in Seq(Char) /\ Len(b) = Len(a) + Len(NewName)
        /\ \A i \in 1..Len(a) + Len(NewName) : b[i] = IF i <= Len(a) THEN a[i] ELSE NewName[i - Len(a)]
    BY <1>1, <1>2, <2>1, ConcatProperties
  <2>3. Len(a) = e.from
    BY <1>2
  <2> QED
    BY <2>2, <2>3
<1>6. /\ v \in Seq(Char) /\ Len(v) = Len(b) + Len(c)
      /\ \A i \in 1..Len(b) + Len(c) : v[i] = IF i <= Len(b) THEN b[i] ELSE c[i - Len(b)]
  <2>1. v = b \o c
    BY <1>4
  <2> HIDE DEF b
  <2> QED
    BY <1>3, <1>5, <2>1, ConcatProperties
<1> HIDE DEF b
<1> DEFINE m == Len(NewName)
           n == Len(u) - e.to
           k == e.from
<1>7. m \in Nat /\ n \in Nat /\ k \in Nat /\ Len(b) = k + m /\ Len(c) = n
  BY <1>1, <1>3, <1>5
<1>8. /\ \A i \in 1..k : a[i] = u[i]
      /\ \A i \in 1..n : c[i] = u[e.to + i]
      /\ \A i \in 1..k + m : b[i] = IF i <= k THEN a[i] ELSE NewName[i - k]
  BY <1>2, <1>3, <1>5
<1>9. \A i \in 1..(k + m) + n : v[i] = IF i <= k + m THEN b[i] ELSE c[i - (k + m)]
  BY <1>6, <1>7
<1>10. Len(v) = k + m + n
  BY <1>6, <1>7
<1> HIDE DEF m, n, k
<1>11. ASSUME NEW i \in 1..k PROVE v[i] = u[i]
  <2>1. i \in 1..(k + m) + n /\ i \in 1..k + m /\ i <= k + m /\ i <= k
    BY <1>7
  <2>2. v[i] = b[i]
    BY <1>9, <2>1
  <2>3. b[i] = a[i]
    BY <1>8, <2>1
  <2> QED
    BY <1>8, <2>2, <2>3
<1>12. ASSUME NEW i \in 1..m PROVE v[k + i] = NewName[i]
  <2>1. /\ k + i \in 1..(k + m) + n /\ k + i \in 1..k + m /\ k + i <= k + m /\ ~(k + i <= k)
        /\ (k + i) - k = i
    BY <1>7
  <2>2. v[k + i] = b[k + i]
    BY <1>9, <2>1
  <2>3. b[k + i] = NewName[(k + i) - k]
    BY <1>8, <2>1
  <2> QED
    BY <2>1, <2>2, <2>3
<1>13. ASSUME NEW i \in 1..n PROVE v[k + m + i] = u[e.to + i]
  <2>1. /\ k + m + i \in 1..(k + m) + n /\ ~(k + m + i <= k + m)
        /\ (k + m + i) - (k + m) = i
    BY <1>7
  <2>2. v[k + m + i] = c[(k + m + i) - (k + m)]
    BY <1>9, <2>1
  <2> QED
    BY <1>8, <2>1, <2>2
<1> QED
  BY <1>6, <1>10, <1>11, <1>12, <1>13 DEF v, m, n, k

\* The n characters behind i in u are those behind a in v.
Alike(u, i, v, a, n) == \A k \in 1..n : u[i + k] = v[a + k]

\* Two parts that agree in every character are the same.
LEMMA PartsAgree ==
    ASSUME NEW u \in Seq(Char), NEW v \in Seq(Char),
           NEW i \in Nat, NEW j \in Nat, i < j, j <= Len(u),
           NEW a \in Nat, NEW b \in Nat, b <= Len(v), j - i = b - a, Alike(u, i, v, a, j - i)
    PROVE  SubSeq(u, i + 1, j) = SubSeq(v, a + 1, b)
PROOF
<1> DEFINE x == SubSeq(u, i + 1, j)
           y == SubSeq(v, a + 1, b)
<1>1. /\ x \in Seq(Char) /\ Len(x) = IF i < j THEN j - i ELSE 0
      /\ \A k \in 1..j - i : x[k] = u[i + k]
  BY PartOfText
<1>2. /\ y \in Seq(Char) /\ Len(y) = IF a < b THEN b - a ELSE 0
      /\ \A k \in 1..b - a : y[k] = v[a + k]
  BY PartOfText
<1> HIDE DEF x, y
<1>3. Len(x) = j - i /\ Len(y) = j - i
  BY <1>1, <1>2
<1>4. \A k \in 1..Len(x) : x[k] = y[k]
  BY <1>1, <1>2, <1>3 DEF Alike
<1>5. x = y
  BY <1>1, <1>2, <1>3, <1>4, SeqEqual
<1> QED
  BY <1>5 DEF x, y

\* Two texts that start alike have the same runs there.
LEMMA RunBelow ==
    ASSUME NEW u \in Seq(Char), NEW v \in Seq(Char),
           NEW k \in Nat, k <= Len(u), k <= Len(v), \A i \in 1..k : u[i] = v[i],
           NEW a \in Nat, NEW b \in Nat, a < b, b < k, IsRun(u, a, b)
    PROVE  IsRun(v, a, b) /\ SubSeq(v, a + 1, b) = SubSeq(u, a + 1, b)
PROOF
<1>1. Len(u) \in Nat /\ Len(v) \in Nat
  BY LenProperties
<1>2. ASSUME NEW i \in a + 1..b PROVE v[i] \in Ident
  <2>1. i \in 1..k
    OBVIOUS
  <2> QED
    BY <2>1 DEF IsRun
<1>3. a = 0 \/ v[a] \notin Ident
  <2>1. a = 0 \/ a \in 1..k
    OBVIOUS
  <2> QED
    BY <2>1 DEF IsRun
<1>4. v[b + 1] \notin Ident
  <2>1. b + 1 \in 1..k /\ b # Len(u)
    BY <1>1
  <2> QED
    BY <2>1 DEF IsRun
<1>5. a \in 0..b /\ b \in 0..Len(v)
  BY <1>1
<1>6. IsRun(v, a, b)
  BY <1>2, <1>3, <1>4, <1>5 DEF IsRun
<1>7. ASSUME NEW i \in 1..b - a PROVE v[a + i] = u[a + i]
  <2>1. a + i \in 1..k
    OBVIOUS
  <2> QED
    BY <2>1
<1>8. b <= Len(u) /\ b <= Len(v)
  BY <1>1
<1>9. SubSeq(v, a + 1, b) = SubSeq(u, a + 1, b)
  <2>1. Alike(v, a, u, a, b - a)
    BY <1>7 DEF Alike
  <2> QED
    BY <1>8, <2>1, PartsAgree
<1> QED
  BY <1>6, <1>9

\* The runs behind x in u are runs behind y in v.
SameRuns(u, x, v, y) ==
    \A a, b \in Nat : 0 < a /\ a < b /\ IsRun(u, x + a, x + b) =>
        IsRun(v, y + a, y + b) /\ SubSeq(v, y + a + 1, y + b) = SubSeq(u, x + a + 1, x + b)

\* Two texts that end alike have the same runs there.
LEMMA RunBehind ==
    ASSUME NEW u \in Seq(Char), NEW v \in Seq(Char),
           NEW x \in Nat, NEW y \in Nat, x <= Len(u), y <= Len(v), Len(u) - x = Len(v) - y,
           Alike(u, x, v, y, Len(u) - x)
    PROVE  SameRuns(u, x, v, y)
PROOF
<1> SUFFICES ASSUME NEW a \in Nat, NEW b \in Nat, 0 < a, a < b, IsRun(u, x + a, x + b)
             PROVE  IsRun(v, y + a, y + b) /\ SubSeq(v, y + a + 1, y + b) = SubSeq(u, x + a + 1, x + b)
  BY DEF SameRuns
<1>1. Len(u) \in Nat /\ Len(v) \in Nat
  BY LenProperties
<1> DEFINE n == Len(u) - x
<1>2. n \in Nat /\ Len(u) = x + n /\ Len(v) = y + n /\ b <= n
  BY <1>1 DEF IsRun
<1>3. \A i \in 1..n : u[x + i] = v[y + i]
  BY DEF Alike
<1> HIDE DEF n
<1>4. ASSUME NEW i \in y + a + 1..y + b PROVE v[i] \in Ident
  <2>1. i - y \in 1..n /\ y + (i - y) = i /\ x + (i - y) \in x + a + 1..x + b
    BY <1>2
  <2>2. v[i] = u[x + (i - y)]
    BY <1>3, <2>1
  <2> QED
    BY <2>1, <2>2 DEF IsRun
<1>5. v[y + a] \notin Ident
  <2>1. a \in 1..n /\ x + a # 0
    BY <1>2
  <2> QED
    BY <1>3, <2>1 DEF IsRun
<1>6. y + b = Len(v) \/ v[y + b + 1] \notin Ident
  <2>1. CASE b = n
    BY <1>2, <2>1
  <2>2. CASE b # n
    <3>1. b + 1 \in 1..n /\ x + b # Len(u) /\ x + (b + 1) = x + b + 1 /\ y + (b + 1) = y + b + 1
      BY <1>2, <2>2
    <3>2. v[y + b + 1] = u[x + b + 1]
      BY <1>3, <3>1
    <3> QED
      BY <3>1, <3>2 DEF IsRun
  <2> QED
    BY <2>1, <2>2
<1>7. y + a \in 0..y + b /\ y + b \in 0..Len(v)
  BY <1>2
<1>8. IsRun(v, y + a, y + b)
  BY <1>4, <1>5, <1>6, <1>7 DEF IsRun
<1>9. ASSUME NEW i \in 1..(y + b) - (y + a) PROVE v[(y + a) + i] = u[(x + a) + i]
  <2>1. a + i \in 1..n /\ y + (a + i) = (y + a) + i /\ x + (a + i) = (x + a) + i
    BY <1>2
  <2> QED
    BY <1>3, <2>1
<1>10. /\ y + a \in Nat /\ y + b \in Nat /\ y + a < y + b /\ y + b <= Len(v)
       /\ x + a \in Nat /\ x + b \in Nat /\ x + b <= Len(u)
       /\ (y + b) - (y + a) = (x + b) - (x + a)
  BY <1>2
<1>11. SubSeq(v, y + a + 1, y + b) = SubSeq(u, x + a + 1, x + b)
  <2>1. Alike(v, y + a, u, x + a, (y + b) - (y + a))
    BY <1>9 DEF Alike
  <2> DEFINE i == y + a
             j == y + b
             c == x + a
             d == x + b
  <2>2. /\ u \in Seq(Char) /\ v \in Seq(Char)
        /\ i \in Nat /\ j \in Nat /\ i < j /\ j <= Len(v) /\ c \in Nat /\ d \in Nat /\ d <= Len(u)
        /\ j - i = d - c /\ Alike(v, i, u, c, j - i)
    BY <1>10, <2>1
  <2> HIDE DEF i, j, c, d
  <2>3. SubSeq(v, i + 1, j) = SubSeq(u, c + 1, d)
    BY ONLY <2>2, PartsAgree
  <2> QED
    BY <2>3 DEF i, j, c, d
<1> QED
  BY <1>8, <1>11

\* e is the last place of name in u.
LastPlace(u, name, e) ==
    /\ e \in Occurrences(u, name)
    /\ \A d \in Occurrences(u, name) : d # e => d.from < e.from

\* What a place of a name is, in numbers.
LEMMA PlaceOfName ==
    ASSUME NEW u \in Seq(Char), NEW name, name # <<>>, NEW e \in Occurrences(u, name)
    PROVE  /\ e = [from |-> e.from, to |-> e.to]
           /\ e \in Span /\ IsPlaced(u, e)
           /\ e.from \in Nat /\ e.to \in Nat /\ e.from < e.to /\ e.to <= Len(u) /\ Len(u) \in Nat
           /\ IsRun(u, e.from, e.to) /\ SubSeq(u, e.from + 1, e.to) = name
PROOF
<1>1. Len(u) \in Nat
  BY LenProperties
<1>2. /\ e \in [from : 0..Len(u), to : 0..Len(u)]
      /\ e.from < e.to /\ IsRun(u, e.from, e.to)
      /\ SubSeq(u, e.from + 1, e.to) = name
  BY OccurrencesAreRuns
<1> QED
  BY <1>1, <1>2 DEF Span, IsPlaced

\* A run that reads name is a place of it.
LEMMA RunIsPlace ==
    ASSUME NEW u \in Seq(Char), NEW name, name # <<>>, NEW a \in Nat, NEW b \in Nat, a < b,
           IsRun(u, a, b), SubSeq(u, a + 1, b) = name
    PROVE  [from |-> a, to |-> b] \in Occurrences(u, name)
PROOF
<1>1. Len(u) \in Nat
  BY LenProperties
<1> DEFINE e == [from |-> a, to |-> b]
<1>2. e.from = a /\ e.to = b
  OBVIOUS
<1>3. e \in [from : 0..Len(u), to : 0..Len(u)]
  BY <1>1 DEF IsRun
<1> HIDE DEF e
<1>4. e \in Occurrences(u, name)
  BY <1>2, <1>3, OccurrencesAreRuns
<1> QED
  BY <1>4 DEF e

\* The new name, in the place of the last run of name, is a run of its own.
LEMMA NewNameIsARun ==
    ASSUME NEW u \in Seq(Char), NEW name, name # <<>>, NEW e \in Occurrences(u, name),
           NewName \in Seq(Ident)
    PROVE  LET v == Replace(u, e)
               end == e.from + Len(NewName)
           IN  IsRun(v, e.from, end) /\ SubSeq(v, e.from + 1, end) = NewName /\ e.from < end
PROOF
<1> DEFINE v == Replace(u, e)
           m == Len(NewName)
           n == Len(u) - e.to
           end == e.from + m
<1>1. /\ e \in Span /\ IsPlaced(u, e)
      /\ e.from \in Nat /\ e.to \in Nat /\ e.from < e.to /\ e.to <= Len(u) /\ Len(u) \in Nat
      /\ IsRun(u, e.from, e.to)
  BY PlaceOfName
<1>2. /\ v \in Seq(Char) /\ Len(v) = end + n
      /\ \A i \in 1..e.from : v[i] = u[i]
      /\ \A i \in 1..m : v[e.from + i] = NewName[i]
      /\ \A i \in 1..n : v[end + i] = u[e.to + i]
  BY <1>1, Replaced
<1>3. NewName \in Seq(Char) /\ m \in Nat /\ m # 0
  <2>1. NewName \in Seq(Char)
    BY TextsAssumption
  <2>2. Len(NewName) # 0
    BY <2>1, EmptySeq, EditsAssumption
  <2> QED
    BY <2>1, <2>2, LenProperties
<1>4. n \in Nat /\ end \in Nat /\ e.from < end /\ end <= Len(v)
  BY <1>1, <1>2, <1>3
<1>5. \A i \in 1..m : NewName[i] \in Ident
  BY ElementOfSeq
<1> HIDE DEF v, m, n
<1>6. ASSUME NEW i \in e.from + 1..end PROVE v[i] \in Ident
  <2>1. i - e.from \in 1..m /\ e.from + (i - e.from) = i
    BY <1>1, <1>3
  <2> QED
    BY <1>2, <1>5, <2>1
<1>7. e.from = 0 \/ v[e.from] \notin Ident
  <2>1. e.from = 0 \/ e.from \in 1..e.from
    BY <1>1
  <2> QED
    BY <1>1, <1>2, <2>1 DEF IsRun
<1>8. end = Len(v) \/ v[end + 1] \notin Ident
  <2>1. CASE n = 0
    BY <1>2, <1>4, <2>1
  <2>2. CASE n # 0
    <3>1. 1 \in 1..n /\ e.to # Len(u)
      BY <1>1, <1>4, <2>2 DEF n
    <3> QED
      BY <1>1, <1>2, <3>1 DEF IsRun
  <2> QED
    BY <2>1, <2>2
<1>9. e.from \in 0..end /\ end \in 0..Len(v)
  BY <1>1, <1>2, <1>4
<1>10. IsRun(v, e.from, end)
  BY <1>6, <1>7, <1>8, <1>9 DEF IsRun
<1>11. SubSeq(v, e.from + 1, end) = NewName
  <2> DEFINE x == SubSeq(v, e.from + 1, end)
  <2>1. /\ x \in Seq(Char) /\ Len(x) = IF e.from < end THEN end - e.from ELSE 0
        /\ \A k \in 1..end - e.from : x[k] = v[e.from + k]
    BY <1>1, <1>2, <1>4, PartOfText
  <2> HIDE DEF x
  <2>2. end - e.from = m /\ Len(x) = m
    BY <1>1, <1>3, <1>4, <2>1
  <2>3. \A k \in 1..Len(x) : x[k] = NewName[k]
    BY <1>2, <2>1, <2>2
  <2>4. x = NewName
    BY <1>3, <2>1, <2>2, <2>3, SeqEqual DEF m
  <2> QED
    BY <2>4 DEF x
<1> QED
  BY <1>4, <1>10, <1>11 DEF v, m

\* Replacing the last place of a name leaves the others, and makes none.
LEMMA OnePlaceLess ==
    ASSUME NEW u \in Seq(Char), NEW name, name # <<>>, name # NewName, NewName \in Seq(Ident),
           NEW e, LastPlace(u, name, e)
    PROVE  Occurrences(Replace(u, e), name) = Occurrences(u, name) \ {e}
PROOF
<1> DEFINE v == Replace(u, e)
           m == Len(NewName)
           p == e.from
           q == e.to
           n == Len(u) - q
           end == p + m
<1>0. e \in Occurrences(u, name)
  BY DEF LastPlace
<1>1. /\ e \in Span /\ IsPlaced(u, e)
      /\ p \in Nat /\ q \in Nat /\ p < q /\ q <= Len(u) /\ Len(u) \in Nat
      /\ IsRun(u, p, q)
  BY <1>0, PlaceOfName
<1>2. /\ v \in Seq(Char) /\ Len(v) = end + n
      /\ \A i \in 1..p : v[i] = u[i]
      /\ \A i \in 1..n : v[end + i] = u[q + i]
  BY <1>1, Replaced
<1>3. IsRun(v, p, end) /\ SubSeq(v, p + 1, end) = NewName /\ p < end
  BY <1>0, NewNameIsARun
<1>4. /\ n \in Nat /\ m \in Nat /\ end \in Nat /\ Len(u) = q + n /\ Len(v) \in Nat
      /\ p <= Len(u) /\ p <= Len(v) /\ end <= Len(v)
  <2>1. m \in Nat
    BY TextsAssumption, LenProperties
  <2> HIDE DEF v, m, p, q
  <2>2. n \in Nat /\ end \in Nat /\ Len(u) = q + n /\ p <= Len(u) /\ p <= end
    BY <1>1, <2>1
  <2> HIDE DEF n, end
  <2> QED
    BY <1>1, <1>2, <2>1, <2>2
<1> HIDE DEF v, m, n, p, q, end
<1>5. ASSUME NEW d \in Occurrences(u, name), d # e PROVE d \in Occurrences(v, name)
  <2>1. /\ d = [from |-> d.from, to |-> d.to]
        /\ d.from \in Nat /\ d.to \in Nat /\ d.from < d.to
        /\ IsRun(u, d.from, d.to) /\ SubSeq(u, d.from + 1, d.to) = name
    BY PlaceOfName
  <2>2. d.from < p
    BY <1>5 DEF LastPlace, p
  <2>3. (d.from = p /\ d.to = q) \/ d.to < p \/ q < d.from
    BY <1>1, <2>1, RunsAreApart
  <2>4. d.to < p
    BY <1>1, <2>1, <2>2, <2>3
  <2>5. \A i \in 1..p : u[i] = v[i]
    BY <1>2
  <2> DEFINE a == d.from
             b == d.to
  <2>6. /\ u \in Seq(Char) /\ v \in Seq(Char) /\ a \in Nat /\ b \in Nat /\ a < b /\ IsRun(u, a, b)
        /\ p \in Nat /\ p <= Len(u) /\ p <= Len(v) /\ b < p
    BY <1>1, <1>2, <1>4, <2>1, <2>4
  <2> HIDE DEF a, b
  <2>7. IsRun(v, a, b) /\ SubSeq(v, a + 1, b) = SubSeq(u, a + 1, b)
    BY ONLY <2>5, <2>6, RunBelow
  <2>8. IsRun(v, d.from, d.to) /\ SubSeq(v, d.from + 1, d.to) = name
    BY <2>1, <2>7 DEF a, b
  <2> QED
    BY <1>2, <2>1, <2>8, RunIsPlace
<1>6. ASSUME NEW d \in Occurrences(v, name) PROVE d \in Occurrences(u, name) \ {e}
  <2>1. /\ d = [from |-> d.from, to |-> d.to]
        /\ d.from \in Nat /\ d.to \in Nat /\ d.from < d.to /\ d.to <= Len(v)
        /\ IsRun(v, d.from, d.to) /\ SubSeq(v, d.from + 1, d.to) = name
    BY <1>2, PlaceOfName
  <2>2. (d.from = p /\ d.to = end) \/ d.to < p \/ end < d.from
    BY <1>3, <1>4, <2>1, RunsAreApart
  <2>3. CASE d.from = p /\ d.to = end
    BY <1>3, <2>1, <2>3
  <2>4. CASE d.to < p
    <3> DEFINE a == d.from
               b == d.to
    <3>4. /\ u \in Seq(Char) /\ v \in Seq(Char) /\ a \in Nat /\ b \in Nat /\ a < b /\ IsRun(v, a, b)
          /\ p \in Nat /\ p <= Len(u) /\ p <= Len(v) /\ b < p
      BY <1>1, <1>2, <1>4, <2>1, <2>4
    <3> HIDE DEF a, b
    <3>5. IsRun(u, a, b) /\ SubSeq(u, a + 1, b) = SubSeq(v, a + 1, b)
      BY ONLY <1>2, <3>4, RunBelow
    <3>1. IsRun(u, d.from, d.to) /\ SubSeq(u, d.from + 1, d.to) = name
      BY <2>1, <3>5 DEF a, b
    <3>2. d \in Occurrences(u, name)
      BY <2>1, <3>1, RunIsPlace
    <3>3. d # e
      BY <1>1, <2>1, <2>4 DEF p
    <3> QED
      BY <3>2, <3>3
  <2>5. CASE end < d.from
    <3> DEFINE x == d.from
               y == d.to
               a == x - end
               b == y - end
    <3>0. x \in Nat /\ y \in Nat /\ x < y /\ end < x /\ end \in Nat
      BY <1>4, <2>1, <2>5
    <3> HIDE DEF x, y
    <3>1. a \in Nat /\ b \in Nat /\ 0 < a /\ a < b /\ end + a = x /\ end + b = y
      BY <3>0
    <3> HIDE DEF a, b
    <3>2. Len(v) - end = n /\ Len(u) - q = n
      BY <1>2, <1>4, <1>1
    <3>3. Alike(v, end, u, q, Len(v) - end)
      BY <1>2, <3>2 DEF Alike
    <3>4. IsRun(u, q + a, q + b) /\ SubSeq(u, q + a + 1, q + b) = SubSeq(v, end + a + 1, end + b)
      <4>1. IsRun(v, end + a, end + b)
        BY <2>1, <3>1 DEF x, y
      <4>2. /\ u \in Seq(Char) /\ v \in Seq(Char) /\ a \in Nat /\ b \in Nat /\ 0 < a /\ a < b
            /\ end \in Nat /\ q \in Nat /\ end <= Len(v) /\ q <= Len(u) /\ Len(v) - end = Len(u) - q
        BY <1>1, <1>2, <1>4, <3>1, <3>2
      <4> QED
        <5>1. SameRuns(v, end, u, q)
          BY ONLY <3>3, <4>2, RunBehind
        <5> QED
          BY <4>1, <4>2, <5>1 DEF SameRuns
    <3>5. SubSeq(u, q + a + 1, q + b) = name
      BY <2>1, <3>1, <3>4 DEF x, y
    <3> DEFINE f == [from |-> q + a, to |-> q + b]
    <3>6. f \in Occurrences(u, name)
      BY <1>1, <3>1, <3>4, <3>5, RunIsPlace
    <3>7. f.from = q + a
      OBVIOUS
    <3> HIDE DEF f
    <3>8. f = e \/ f.from < p
      BY <3>6 DEF LastPlace, p
    <3> QED
      BY <1>1, <3>1, <3>7, <3>8 DEF p
  <2> QED
    BY <2>2, <2>3, <2>4, <2>5
<1> QED
  BY <1>5, <1>6 DEF v

\* The ranges that s lists behind the first k.
Behind(s, k, n) == {s[i] : i \in k + 1..n}

\* After k edits the places of the name that are left are those still to come.
LEMMA PlacesLeft ==
    ASSUME NEW t \in Seq(Char), NEW name, name # <<>>, name # NewName, NewName \in Seq(Ident),
           NEW s, NEW n, Lists(s, n, Occurrences(t, name)),
           NEW F, StepsOf(F, "checked", t, s, n)
    PROVE  \A k \in 0..n : F[k] \in Seq(Char) /\ Occurrences(F[k], name) = Behind(s, k, n)
PROOF
<1> DEFINE S == {k \in 0..n : F[k] \in Seq(Char) /\ Occurrences(F[k], name) = Behind(s, k, n)}
<1>1. n \in Nat /\ 0 \in 0..n
  BY DEF Lists
<1>2. 0 \in S
  <2>1. F[0] = t
    BY DEF StepsOf
  <2>2. Behind(s, 0, n) = Occurrences(t, name)
    BY <1>1 DEF Behind, Lists
  <2> QED
    BY <1>1, <2>1, <2>2
<1>3. ASSUME NEW k \in 0..n - 1, k \in S PROVE k + 1 \in S
  <2> DEFINE u == F[k]
             e == s[k + 1]
  <2>1. k \in Nat /\ k + 1 \in 1..n /\ k + 1 \in 0..n /\ (k + 1) - 1 = k
    BY <1>1
  <2>2. u \in Seq(Char) /\ Occurrences(u, name) = Behind(s, k, n)
    BY <1>3
  <2>3. F[k + 1] = ReplaceWhen("checked", u, e)
    BY <2>1 DEF StepsOf
  <2> HIDE DEF u, e
  <2>4. e \in Occurrences(u, name)
    BY <2>1, <2>2 DEF Behind, e
  <2>5. /\ \A d \in Behind(s, k, n) : d # e => d.from < e.from /\ d \in Behind(s, k + 1, n)
        /\ \A d \in Behind(s, k + 1, n) : d \in Behind(s, k, n) /\ d # e
    <3>1. ASSUME NEW i \in k + 1..n, s[i] # e PROVE s[i].from < e.from /\ s[i] \in Behind(s, k + 1, n)
      <4>1. i \in (k + 1) + 1..n /\ i \in 1..n /\ k + 1 < i
        BY <1>1, <2>1, <3>1 DEF e
      <4>2. e.from > s[i].from
        BY <2>1, <4>1 DEF Lists, e
      <4>3. s[i].from \in Nat /\ e.from \in Nat
        <5>1. s[i] \in Occurrences(u, name)
          BY <2>2 DEF Behind
        <5> QED
          BY <2>2, <2>4, <5>1, PlaceOfName
      <4> QED
        BY <4>1, <4>2, <4>3 DEF Behind
    <3>2. ASSUME NEW i \in (k + 1) + 1..n PROVE s[i] \in Behind(s, k, n) /\ s[i] # e
      <4>1. i \in k + 1..n /\ i \in 1..n /\ k + 1 < i
        BY <1>1, <2>1
      <4>2. e.from > s[i].from
        BY <2>1, <4>1 DEF Lists, e
      <4>3. e.from \in Nat
        BY <2>2, <2>4, PlaceOfName
      <4> QED
        BY <4>1, <4>2, <4>3 DEF Behind
    <3> QED
      BY <3>1, <3>2 DEF Behind
  <2>6. LastPlace(u, name, e)
    BY <2>2, <2>4, <2>5 DEF LastPlace
  <2>7. e \in Span /\ IsPlaced(u, e)
    BY <2>2, <2>4, PlaceOfName
  <2>8. F[k + 1] = Replace(u, e)
    BY <2>3, <2>7 DEF ReplaceWhen
  <2>9. Replace(u, e) \in Seq(Char)
    BY <2>2, <2>7, Replaced
  <2>10. Occurrences(Replace(u, e), name) = Occurrences(u, name) \ {e}
    BY <2>2, <2>6, OnePlaceLess
  <2>11. Occurrences(u, name) \ {e} = Behind(s, k + 1, n)
    BY <2>2, <2>5
  <2> QED
    BY <2>1, <2>8, <2>9, <2>10, <2>11
<1> HIDE DEF S
<1>4. \A k \in 0..n : k \in S
  BY <1>1, <1>2, <1>3, AllBetween
<1> QED
  BY <1>4 DEF S

\* With every place of a name replaced, by a new name that is made of letters,
\* none is left and none has come up.
THEOREM NoPlaceLeft ==
    ASSUME NEW t \in Seq(Char), NEW name, name # <<>>, name # NewName, NewName \in Seq(Ident)
    PROVE  Occurrences(AtOnce(t, Occurrences(t, name)), name) = {}
PROOF
<1> DEFINE E == Occurrences(t, name)
<1>1. AreApart(t, E)
  <2>1. \A e \in E : IsPlaced(t, e)
    BY PlaceOfName
  <2> QED
    BY <2>1, OccurrencesAreApart
<1>2. PICK n : Lists(BottomUp(E), n, E)
  <2> DEFINE m == Len(t) + 1
  <2>1. m \in Nat /\ \A e \in E : e.from < m
    BY <1>1, LenProperties DEF AreApart, IsPlaced, Span
  <2>2. E \subseteq Span /\ StartApart(E)
    BY <1>1 DEF AreApart, StartApart
  <2> HIDE DEF m, E
  <2> QED
    BY <2>1, <2>2, BottomUpLists
<1> DEFINE s == BottomUp(E)
<1>3. n \in Nat /\ DOMAIN s = 1..n
  BY <1>2 DEF Lists
<1>4. PICK F : StepsOf(F, "checked", t, s, n) /\ ApplyEdits(t, E) = F[n]
  BY <1>3, FoldOfPlaced
<1>5. F[n] = AtOnce(t, E)
  BY <1>1, <1>4, AppliedAtOnce
<1>6. n \in 0..n /\ Behind(s, n, n) = {}
  BY <1>3 DEF Behind
<1>7. Occurrences(F[n], name) = Behind(s, n, n)
  BY <1>2, <1>4, <1>6, PlacesLeft
<1> QED
  BY <1>5, <1>6, <1>7

-----------------------------------------------------------------------------
(* Edited texts *)

\* Ranges that no two edits of which touch the same place, wherever they lie.
CanBeApplied(E) ==
    /\ E \subseteq Span
    /\ \E m \in Nat : \A e \in E : e.from < m
    /\ \A d, e \in E : d # e => d.from # e.from /\ (d.to <= e.from \/ e.to <= d.from)

\* Ranges that lie in some text apart can be applied to any.
LEMMA ApartCanBeApplied ==
    ASSUME NEW u \in Seq(Char), NEW E, AreApart(u, E)
    PROVE  CanBeApplied(E)
PROOF
<1>1. Len(u) + 1 \in Nat /\ \A e \in E : e.from < Len(u) + 1
  BY LenProperties DEF AreApart, IsPlaced, Span
<1> QED
  BY <1>1 DEF AreApart, CanBeApplied

\* Replacing ranges one after the other, a text stays a text.
LEMMA StepsAreTexts ==
    ASSUME NEW t \in Seq(Char), NEW E, E \subseteq Span, NEW s, NEW n, Lists(s, n, E),
           NEW F, StepsOf(F, "checked", t, s, n)
    PROVE  \A k \in 0..n : F[k] \in Seq(Char)
PROOF
<1> DEFINE S == {k \in 0..n : F[k] \in Seq(Char)}
<1>1. n \in Nat /\ 0 \in 0..n
  BY DEF Lists
<1>2. 0 \in S
  BY <1>1 DEF StepsOf
<1>3. ASSUME NEW k \in 0..n - 1, k \in S PROVE k + 1 \in S
  <2>1. k \in Nat /\ k + 1 \in 1..n /\ k + 1 \in 0..n /\ (k + 1) - 1 = k
    BY <1>1
  <2>2. F[k + 1] = ReplaceWhen("checked", F[k], s[k + 1])
    BY <2>1 DEF StepsOf
  <2>3. F[k] \in Seq(Char) /\ s[k + 1] \in Span
    BY <1>3, <2>1 DEF Lists
  <2>4. CASE IsPlaced(F[k], s[k + 1])
    <3>1. Replace(F[k], s[k + 1]) \in Seq(Char)
      BY <2>3, <2>4, Replaced
    <3> QED
      BY <2>1, <2>2, <2>4, <3>1 DEF ReplaceWhen
  <2>5. CASE ~IsPlaced(F[k], s[k + 1])
    BY <2>1, <2>2, <2>3, <2>5 DEF ReplaceWhen
  <2> QED
    BY <2>4, <2>5
<1> HIDE DEF S
<1>4. \A k \in 0..n : k \in S
  BY <1>1, <1>2, <1>3, AllBetween
<1> QED
  BY <1>4 DEF S

\* What AtOnce makes of a text is a text.
LEMMA AtOnceIsText ==
    ASSUME NEW t \in Seq(Char), NEW E
    PROVE  AtOnce(t, E) \in Seq(Char)
PROOF
<1>1. PICK H : GrowsTo(H, t, E) /\ AtOnce(t, E) = H[Len(t) + 1]
  BY AtOnceJoins
<1>2. Len(t) + 1 \in 0..Len(t) + 1
  BY LenProperties
<1> QED
  BY <1>1, <1>2, PrefixesAreTexts

\* The checked rename, written at once: all of the ranges or none.
LEMMA RenameIsAllOrNothing ==
    ASSUME NEW t \in Seq(Char), NEW E, CanBeApplied(E), NEW name
    PROVE  /\ ApplyRenameEdits(t, E, name) =
                  IF \A e \in E : Covers(t, e, name) THEN AtOnce(t, E) ELSE t
           /\ ApplyRenameEdits(t, E, name) \in Seq(Char)
PROOF
<1>1. CASE \A e \in E : Covers(t, e, name)
  <2>1. AreApart(t, E)
    BY <1>1 DEF CanBeApplied, AreApart, Covers
  <2>2. FoldLeft(Replace, t, BottomUp(E)) = AtOnce(t, E)
    BY <2>1, AppliedAtOnce
  <2>3. ApplyRenameEdits(t, E, name) = AtOnce(t, E)
    BY <1>1, <2>2 DEF ApplyRenameEdits
  <2> QED
    BY <1>1, <2>3, AtOnceIsText
<1>2. CASE ~\A e \in E : Covers(t, e, name)
  BY <1>2 DEF ApplyRenameEdits
<1> QED
  BY <1>1, <1>2

\* The plain path, whatever the ranges were computed for.
LEMMA PlainlyEditedIsText ==
    ASSUME NEW t \in Seq(Char), NEW E, CanBeApplied(E)
    PROVE  ApplyEdits(t, E) \in Seq(Char)
PROOF
<1>1. PICK m \in Nat : \A e \in E : e.from < m
  BY DEF CanBeApplied
<1>2. E \subseteq Span /\ StartApart(E)
  BY DEF CanBeApplied, StartApart
<1>3. PICK n : Lists(BottomUp(E), n, E)
  BY <1>1, <1>2, BottomUpLists
<1>4. n \in Nat /\ n \in 0..n /\ DOMAIN BottomUp(E) = 1..n
  BY <1>3 DEF Lists
<1>5. PICK F : StepsOf(F, "checked", t, BottomUp(E), n) /\ ApplyEdits(t, E) = F[n]
  BY <1>4, FoldOfPlaced
<1>6. F[n] \in Seq(Char)
  BY <1>2, <1>3, <1>4, <1>5, StepsAreTexts
<1> QED
  BY <1>5, <1>6

\* Either way, an edited text is a text.
LEMMA EditedIsText ==
    ASSUME NEW t \in Seq(Char), NEW E, CanBeApplied(E), NEW name
    PROVE  EditedText(t, E, name) \in Seq(Char)
PROOF
  BY RenameIsAllOrNothing, PlainlyEditedIsText DEF EditedText
=============================================================================
