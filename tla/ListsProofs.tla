---------------------------- MODULE ListsProofs -----------------------------
(***************************************************************************)
(* What a list that was filtered has of the list that it was made of, the  *)
(* pages of a list, the sum of a list, and lists put one after the other.  *)
(***************************************************************************)
EXTENDS Lists, Integers, WellFoundedInduction, TLAPS

\* Induction over numbers, with a set in the place of a predicate.
LEMMA SetInduction ==
  ASSUME NEW S, 0 \in S, \A n \in Nat : n \in S => n + 1 \in S
  PROVE  Nat \subseteq S
<1> SUFFICES ASSUME Nat \ S # {} PROVE FALSE
  OBVIOUS
<1> DEFINE T == Nat \ S
           Less == {ss \in Nat \X Nat : ss[1] < ss[2]}
<1>1. IsWellFoundedOn(Less, Nat)
  BY NatLessThanWellFounded, Zenon DEF OpToRel
<1> HIDE DEF Less
<1>2. PICK x \in T : \A y \in T : ~ (<<y, x>> \in Less)
  BY <1>1, WFMin, Zenon
<1>3. x \in Nat /\ x # 0
  OBVIOUS
<1>4. x - 1 \in Nat /\ x - 1 < x /\ (x - 1) + 1 = x
  BY <1>3
<1>5. x - 1 \notin T
  BY <1>2, <1>3, <1>4 DEF Less
<1> QED
  BY <1>4, <1>5

\* How a selection is made, element by element.
Step(s, kept, f, n) ==
    IF n = 0 THEN <<>>
    ELSE IF s[n] \in kept THEN Append(f[n - 1], s[n]) ELSE f[n - 1]

LEMMA SelectionSteps ==
  ASSUME NEW U, NEW s \in Seq(U), NEW kept
  PROVE  \E f : f = [n \in 0..Len(s) |-> Step(s, kept, f, n)] /\ Selection(s, kept) = f[Len(s)]
<1> DEFINE S == {m \in Nat : \E f : f = [n \in 0..m |-> Step(s, kept, f, n)]}
<1>1. 0 \in S
  <2> DEFINE f == [n \in 0..0 |-> <<>>]
  <2>1. f = [n \in 0..0 |-> Step(s, kept, f, n)]
    BY DEF Step
  <2> QED
    BY <2>1
<1>2. ASSUME NEW m \in Nat, m \in S PROVE m + 1 \in S
  <2>1. PICK f : f = [n \in 0..m |-> Step(s, kept, f, n)]
    BY <1>2
  <2> DEFINE g == [n \in 0..(m + 1) |-> IF n = m + 1 THEN Step(s, kept, f, n) ELSE f[n]]
  <2>2. \A n \in 0..(m + 1) : g[n] = Step(s, kept, g, n)
    <3> SUFFICES ASSUME NEW n \in 0..(m + 1) PROVE g[n] = Step(s, kept, g, n)
      OBVIOUS
    <3>1. n # 0 => n - 1 \in 0..m /\ n - 1 # m + 1 /\ n - 1 \in 0..(m + 1)
      OBVIOUS
    <3>2. n # 0 => g[n - 1] = f[n - 1]
      BY <3>1
    <3>3. Step(s, kept, g, n) = Step(s, kept, f, n)
      BY <3>2 DEF Step
    <3>4. n # m + 1 => n \in 0..m
      OBVIOUS
    <3>5. n # m + 1 => f[n] = Step(s, kept, f, n)
      BY <2>1, <3>4
    <3> QED
      BY <3>3, <3>5
  <2>3. g = [n \in 0..(m + 1) |-> Step(s, kept, g, n)]
    BY <2>2
  <2> HIDE DEF g
  <2> QED
    BY <2>3
<1>3. Nat \subseteq S
  <2> HIDE DEF S
  <2> QED
    BY <1>1, <1>2, SetInduction
<1> DEFINE f == CHOOSE f : f = [n \in 0..Len(s) |-> Step(s, kept, f, n)]
<1>4. \E g : g = [n \in 0..Len(s) |-> Step(s, kept, g, n)]
  BY <1>3
<1>5. f = [n \in 0..Len(s) |-> Step(s, kept, f, n)]
  BY <1>4
<1>6. Selection(s, kept) = f[Len(s)]
  BY Zenon DEF Selection, Step
<1> HIDE DEF f
<1> QED
  BY <1>5, <1>6

\* The elements of t are those of the first n of s that are kept, by the places at.
Picks(s, kept, n, t, at) ==
    /\ at \in [1..Len(t) -> 1..n]
    /\ \A i, j \in 1..Len(t) : i < j => at[i] < at[j]
    /\ \A i \in 1..Len(t) : t[i] = s[at[i]] /\ t[i] \in kept
    /\ \A k \in 1..n : s[k] \in kept => \E i \in 1..Len(t) : at[i] = k

LEMMA PickOne ==
  ASSUME NEW U, NEW s \in Seq(U), NEW kept, NEW n \in Nat, n + 1 <= Len(s),
         NEW t \in Seq(U), NEW at, Picks(s, kept, n, t, at), s[n + 1] \in kept
  PROVE  \E next : Picks(s, kept, n + 1, Append(t, s[n + 1]), next)
<1> DEFINE e == Append(t, s[n + 1])
           next == [i \in 1..Len(e) |-> IF i = Len(e) THEN n + 1 ELSE at[i]]
<1>1. s[n + 1] \in U /\ Len(e) = Len(t) + 1 /\ Len(t) \in Nat
  OBVIOUS
<1>2. e[Len(e)] = s[n + 1] /\ \A i \in 1..Len(t) : e[i] = t[i]
  BY <1>1
<1>3. \A i \in 1..Len(e) : i # Len(e) => i \in 1..Len(t) /\ next[i] = at[i] /\ at[i] \in 1..n
  <2> SUFFICES ASSUME NEW i \in 1..Len(e), i # Len(e)
               PROVE  i \in 1..Len(t) /\ next[i] = at[i] /\ at[i] \in 1..n
    OBVIOUS
  <2>1. next[i] = at[i]
    OBVIOUS
  <2> HIDE DEF e, next
  <2>2. i \in 1..Len(t)
    BY <1>1
  <2> QED
    BY <2>1, <2>2 DEF Picks
<1>4. next[Len(e)] = n + 1
  BY <1>1
<1>5. \A i \in 1..Len(t) : i \in 1..Len(e) /\ next[i] = at[i]
  BY <1>1
<1> HIDE DEF e
<1>6. next \in [1..Len(e) -> 1..(n + 1)]
  BY <1>3, <1>4
<1> HIDE DEF next
<1>7. \A i, j \in 1..Len(e) : i < j => next[i] < next[j]
  <2> SUFFICES ASSUME NEW i \in 1..Len(e), NEW j \in 1..Len(e), i < j PROVE next[i] < next[j]
    OBVIOUS
  <2>1. i # Len(e)
    BY <1>1
  <2>2. i \in 1..Len(t) /\ next[i] = at[i] /\ at[i] \in 1..n
    BY <1>3, <2>1
  <2>3. CASE j = Len(e)
    BY <1>4, <2>2, <2>3
  <2>4. CASE j # Len(e)
    BY <1>3, <2>2, <2>4 DEF Picks
  <2> QED
    BY <2>3, <2>4
<1>8. \A i \in 1..Len(e) : e[i] = s[next[i]] /\ e[i] \in kept
  <2> SUFFICES ASSUME NEW i \in 1..Len(e) PROVE e[i] = s[next[i]] /\ e[i] \in kept
    OBVIOUS
  <2>1. CASE i = Len(e)
    BY <1>2, <1>4, <2>1
  <2>2. CASE i # Len(e)
    BY <1>2, <1>3, <2>2 DEF Picks
  <2> QED
    BY <2>1, <2>2
<1>9. \A k \in 1..(n + 1) : s[k] \in kept => \E i \in 1..Len(e) : next[i] = k
  <2> SUFFICES ASSUME NEW k \in 1..(n + 1), s[k] \in kept PROVE \E i \in 1..Len(e) : next[i] = k
    OBVIOUS
  <2>1. CASE k = n + 1
    BY <1>1, <1>4, <2>1
  <2>2. CASE k # n + 1
    <3>1. k \in 1..n
      BY <2>2
    <3>2. PICK i \in 1..Len(t) : at[i] = k
      BY <3>1 DEF Picks
    <3> QED
      BY <1>5, <3>2
  <2> QED
    BY <2>1, <2>2
<1>10. Picks(s, kept, n + 1, e, next)
  BY <1>6, <1>7, <1>8, <1>9 DEF Picks
<1> QED
  BY <1>10 DEF e

\* The selection is the elements that are kept, in their order.
LEMMA SelectionPicks ==
  ASSUME NEW U, NEW s \in Seq(U), NEW kept
  PROVE  /\ Selection(s, kept) \in Seq(U)
         /\ \E at : Picks(s, kept, Len(s), Selection(s, kept), at)
<1>1. PICK f : f = [n \in 0..Len(s) |-> Step(s, kept, f, n)] /\ Selection(s, kept) = f[Len(s)]
  BY SelectionSteps
<1> DEFINE S == {n \in Nat : n <= Len(s) => f[n] \in Seq(U) /\ \E at : Picks(s, kept, n, f[n], at)}
<1>2. 0 \in S
  <2>1. f[0] = <<>>
    BY <1>1 DEF Step
  <2>2. Picks(s, kept, 0, f[0], <<>>) /\ f[0] \in Seq(U)
    BY <2>1 DEF Picks
  <2> QED
    BY <2>2
<1>3. ASSUME NEW n \in Nat, n \in S PROVE n + 1 \in S
  <2> SUFFICES ASSUME n + 1 <= Len(s)
               PROVE  f[n + 1] \in Seq(U) /\ \E at : Picks(s, kept, n + 1, f[n + 1], at)
    OBVIOUS
  <2>1. n <= Len(s) /\ n + 1 \in 0..Len(s) /\ (n + 1) - 1 = n /\ n + 1 # 0 /\ n + 1 \in 1..Len(s)
    OBVIOUS
  <2>2. f[n + 1] = IF s[n + 1] \in kept THEN Append(f[n], s[n + 1]) ELSE f[n]
    <3>1. f[n + 1] = Step(s, kept, f, n + 1)
      BY <1>1, <2>1
    <3> QED
      BY <2>1, <3>1 DEF Step
  <2>3. f[n] \in Seq(U) /\ s[n + 1] \in U
    BY <1>3, <2>1
  <2>4. PICK at : Picks(s, kept, n, f[n], at)
    BY <1>3, <2>1
  <2>5. CASE s[n + 1] \in kept
    BY <2>2, <2>3, <2>4, <2>5, PickOne
  <2>6. CASE s[n + 1] \notin kept
    <3>1. f[n + 1] = f[n] /\ \A k \in 1..(n + 1) : s[k] \in kept => k \in 1..n
      BY <2>2, <2>6
    <3>2. Picks(s, kept, n + 1, f[n], at)
      BY <2>4, <3>1 DEF Picks
    <3> QED
      BY <2>3, <3>1, <3>2
  <2> QED
    BY <2>5, <2>6
<1>4. Nat \subseteq S
  <2> HIDE DEF S
  <2> QED
    BY <1>2, <1>3, SetInduction
<1>5. Len(s) \in Nat
  OBVIOUS
<1> QED
  BY <1>1, <1>4, <1>5

\* What is in a selection.
LEMMA SelectionMembers ==
  ASSUME NEW U, NEW s \in Seq(U), NEW kept
  PROVE  /\ Selection(s, kept) \in Seq(U)
         /\ \A i \in DOMAIN Selection(s, kept) :
               /\ Selection(s, kept)[i] \in kept
               /\ \E k \in DOMAIN s : Selection(s, kept)[i] = s[k]
<1> DEFINE t == Selection(s, kept)
<1>1. t \in Seq(U)
  BY SelectionPicks
<1>2. PICK at : Picks(s, kept, Len(s), t, at)
  BY SelectionPicks
<1> HIDE DEF t
<1>3. DOMAIN t = 1..Len(t) /\ DOMAIN s = 1..Len(s)
  BY <1>1
<1>4. \A i \in DOMAIN t : t[i] \in kept /\ \E k \in DOMAIN s : t[i] = s[k]
  BY <1>2, <1>3 DEF Picks
<1> QED
  BY <1>1, <1>4 DEF t

\* What is kept is there.
LEMMA SelectionHas ==
  ASSUME NEW U, NEW s \in Seq(U), NEW kept, NEW k \in DOMAIN s, s[k] \in kept
  PROVE  \E i \in DOMAIN Selection(s, kept) : Selection(s, kept)[i] = s[k]
<1> DEFINE t == Selection(s, kept)
<1>1. t \in Seq(U)
  BY SelectionPicks
<1>2. PICK at : Picks(s, kept, Len(s), t, at)
  BY SelectionPicks
<1> HIDE DEF t
<1>3. DOMAIN t = 1..Len(t) /\ DOMAIN s = 1..Len(s)
  BY <1>1
<1>4. \E i \in DOMAIN t : t[i] = s[k]
  BY <1>2, <1>3 DEF Picks
<1> QED
  BY <1>4 DEF t

\* A selection has no element twice of a list that has none twice.
LEMMA SelectionIsInjective ==
  ASSUME NEW U, NEW s \in Seq(U), NEW kept,
         \A i, j \in DOMAIN s : s[i] = s[j] => i = j
  PROVE  \A i, j \in DOMAIN Selection(s, kept) : Selection(s, kept)[i] = Selection(s, kept)[j] => i = j
<1> DEFINE t == Selection(s, kept)
<1>1. t \in Seq(U)
  BY SelectionPicks
<1>2. PICK at : Picks(s, kept, Len(s), t, at)
  BY SelectionPicks
<1> HIDE DEF t
<1>3. DOMAIN t = 1..Len(t) /\ DOMAIN s = 1..Len(s)
  BY <1>1
<1>4. ASSUME NEW i \in DOMAIN t, NEW j \in DOMAIN t, t[i] = t[j] PROVE i = j
  <2>1. at[i] \in DOMAIN s /\ at[j] \in DOMAIN s /\ s[at[i]] = s[at[j]]
    BY <1>2, <1>3, <1>4 DEF Picks
  <2>2. at[i] = at[j]
    BY <2>1
  <2>3. ~ (i < j) /\ ~ (j < i)
    BY <1>2, <1>3, <2>1, <2>2 DEF Picks
  <2> QED
    BY <1>1, <1>3, <2>3
<1> QED
  BY <1>4 DEF t

\* Two lists of which the same places are kept have selections of one length.
LEMMA SelectionsAlike ==
  ASSUME NEW U, NEW V, NEW s \in Seq(U), NEW t \in Seq(V), NEW keptS, NEW keptT,
         Len(s) = Len(t), \A i \in 1..Len(s) : s[i] \in keptS <=> t[i] \in keptT
  PROVE  Len(Selection(s, keptS)) = Len(Selection(t, keptT))
<1>1. PICK f : f = [n \in 0..Len(s) |-> Step(s, keptS, f, n)] /\ Selection(s, keptS) = f[Len(s)]
  BY SelectionSteps
<1>2. PICK g : g = [n \in 0..Len(t) |-> Step(t, keptT, g, n)] /\ Selection(t, keptT) = g[Len(t)]
  BY SelectionSteps
<1> DEFINE S == {n \in Nat : n <= Len(s) => f[n] \in Seq(U) /\ g[n] \in Seq(V) /\ Len(f[n]) = Len(g[n])}
<1>3. 0 \in S
  BY <1>1, <1>2 DEF Step
<1>4. ASSUME NEW n \in Nat, n \in S PROVE n + 1 \in S
  <2> SUFFICES ASSUME n + 1 <= Len(s)
               PROVE  /\ f[n + 1] \in Seq(U) /\ g[n + 1] \in Seq(V)
                      /\ Len(f[n + 1]) = Len(g[n + 1])
    OBVIOUS
  <2>1. n <= Len(s) /\ n + 1 \in 0..Len(s) /\ (n + 1) - 1 = n /\ n + 1 # 0 /\ n + 1 \in 1..Len(s)
    OBVIOUS
  <2>2. f[n + 1] = IF s[n + 1] \in keptS THEN Append(f[n], s[n + 1]) ELSE f[n]
    <3>1. f[n + 1] = Step(s, keptS, f, n + 1)
      BY <1>1, <2>1
    <3> QED
      BY <2>1, <3>1 DEF Step
  <2>3. g[n + 1] = IF t[n + 1] \in keptT THEN Append(g[n], t[n + 1]) ELSE g[n]
    <3>1. g[n + 1] = Step(t, keptT, g, n + 1)
      BY <1>2, <2>1
    <3> QED
      BY <2>1, <3>1 DEF Step
  <2>4. f[n] \in Seq(U) /\ g[n] \in Seq(V) /\ Len(f[n]) = Len(g[n])
    BY <1>4, <2>1
  <2>5. s[n + 1] \in U /\ t[n + 1] \in V /\ (s[n + 1] \in keptS <=> t[n + 1] \in keptT)
    BY <2>1
  <2> QED
    BY <2>2, <2>3, <2>4, <2>5
<1>5. Nat \subseteq S
  <2> HIDE DEF S
  <2> QED
    BY <1>3, <1>4, SetInduction
<1>6. Len(s) \in S /\ Len(s) <= Len(s)
  BY <1>5
<1>7. Len(f[Len(s)]) = Len(g[Len(s)])
  BY <1>6
<1> QED
  BY <1>1, <1>2, <1>7

-----------------------------------------------------------------------------
(* The pages of a list *)

\* How many pages a list has, and that the last one begins in it.
LEMMA PagesOfRows ==
  ASSUME NEW n \in Nat \ {0}, NEW r \in Nat \ {0}, NEW p, p = (n + r - 1) \div r
  PROVE  p \in Nat \ {0} /\ (p - 1) * r + 1 <= n
  BY Z3

LEMMA EarlierPage ==
  ASSUME NEW c \in Nat \ {0}, NEW p \in Nat \ {0}, NEW r \in Nat, c <= p
  PROVE  (c - 1) * r <= (p - 1) * r /\ (c - 1) * r + r = c * r /\ (c - 1) * r \in Nat
  BY Z3

\* The page of the row at an index, from one.
LEMMA PageOfIndex ==
  ASSUME NEW i \in Nat \ {0}, NEW n \in Nat \ {0}, NEW r \in Nat \ {0}, NEW c, i <= n,
         c = ((i - 1) \div r) + 1
  PROVE  c \in Nat \ {0} /\ (c - 1) * r + 1 <= i /\ i <= c * r /\ c <= (n + r - 1) \div r
<1> DEFINE q == (i - 1) \div r
<1>1. q \in Nat /\ q * r <= i - 1 /\ i - 1 < q * r + r /\ c = q + 1
  BY Z3
<1> HIDE DEF q
<1>2. (c - 1) * r = q * r /\ c * r = q * r + r /\ c \in Nat \ {0}
  BY <1>1, Z3
<1>3. c <= (n + r - 1) \div r
  <2> DEFINE a == n + r - 1
             b == q * r
             d == a \div r
  <2>1. b + r <= a /\ a \in Nat /\ b \in Nat /\ b = q * r
    BY <1>1, Z3
  <2>2. d \in Nat /\ a < d * r + r
    BY <2>1, Z3
  <2> HIDE DEF a, b, d
  <2>3. q * r < d * r
    BY <2>1, <2>2
  <2>4. q < d
    BY <1>1, <2>2, <2>3, Z3
  <2> QED
    BY <1>1, <2>2, <2>4 DEF d, a
<1> QED
  BY <1>1, <1>2, <1>3, Z3

\* The range of a page of a list, up to the last one.
LEMMA PageRange ==
  ASSUME NEW n \in Nat \ {0}, NEW r \in Nat \ {0}, NEW c \in Nat \ {0}, NEW from, NEW to,
         c <= (n + r - 1) \div r,
         from = (c - 1) * r + 1, to = IF c * r > n THEN n ELSE c * r
  PROVE  from \in 1..n /\ to \in from..n /\ \A k \in 1..n : k <= c * r => k <= to
<1> DEFINE last == (n + r - 1) \div r
           before == (c - 1) * r
           end == c * r
           m == (last - 1) * r
<1>1. last \in Nat \ {0} /\ (last - 1) * r + 1 <= n
  BY PagesOfRows
<1>2. before <= (last - 1) * r /\ end = before + r /\ before \in Nat
  BY <1>1, EarlierPage
<1>3. m \in Int /\ m + 1 <= n /\ before <= m /\ before \in Nat /\ end = before + r
  BY <1>1, <1>2
<1> HIDE DEF m, last
<1>4. from = before + 1 /\ to = IF end > n THEN n ELSE end
  OBVIOUS
<1> HIDE DEF before, end
<1>5. from \in 1..n /\ to \in from..n /\ \A k \in 1..n : k <= end => k <= to
  BY <1>3, <1>4
<1> QED
  BY <1>5 DEF end

\* A range of a list has its elements.
LEMMA RangeHas ==
  ASSUME NEW U, NEW s \in Seq(U), NEW from \in 1..Len(s), NEW to \in from..Len(s),
         NEW k \in from..to
  PROVE  \E i \in DOMAIN SubSeq(s, from, to) : SubSeq(s, from, to)[i] = s[k]
<1> DEFINE place == k - from + 1
<1>1. place \in 1..(to - from + 1) /\ from + place - 1 = k
  OBVIOUS
<1>2. SubSeq(s, from, to) \in Seq(U) /\ Len(SubSeq(s, from, to)) = to - from + 1
  OBVIOUS
<1>3. DOMAIN SubSeq(s, from, to) = 1..(to - from + 1)
  BY <1>2
<1>4. \A j \in 1..(to - from + 1) : SubSeq(s, from, to)[j] = s[from + j - 1]
  OBVIOUS
<1> DEFINE onPage == SubSeq(s, from, to)
<1> HIDE DEF place, onPage
<1>5. onPage[place] = s[from + place - 1] /\ DOMAIN onPage = 1..(to - from + 1)
  BY <1>1, <1>3, <1>4 DEF onPage
<1>6. place \in DOMAIN SubSeq(s, from, to) /\ SubSeq(s, from, to)[place] = s[k]
  BY <1>1, <1>5, Zenon DEF onPage
<1> QED
  BY <1>6, Zenon

LEMMA RangeHasRows ==
  ASSUME NEW U, NEW s \in Seq(U), NEW from \in 1..Len(s), NEW to \in from..Len(s)
  PROVE  SubSeq(s, from, to) # <<>>
<1>1. from \in from..to
  OBVIOUS
<1>2. PICK i \in DOMAIN SubSeq(s, from, to) : SubSeq(s, from, to)[i] = s[from]
  BY <1>1, RangeHas
<1>3. \A xs : xs = <<>> => DOMAIN xs = {}
  OBVIOUS
<1> QED
  BY <1>2, <1>3, Zenon
-----------------------------------------------------------------------------
(* Sums, and lists one after the other *)

\* A function of an index, each value from the one before.
StepsIn(A, m) == [A \X (1..m) -> A]

Recurs(A, first, m, step) ==
    \E f \in [0..m -> A] : f[0] = first /\ \A n \in 1..m : f[n] = step[<<f[n - 1], n>>]

LEMMA UpToExists ==
  ASSUME NEW A, NEW first \in A, NEW m \in Nat, NEW step \in StepsIn(A, m)
  PROVE  Recurs(A, first, m, step)
<1> USE DEF StepsIn, Recurs
<1> DEFINE Upto(n, f) == /\ f \in [0..n -> A] /\ f[0] = first
                         /\ \A i \in 1..n : f[i] = step[<<f[i - 1], i>>]
           S == {n \in Nat : n <= m => \E f : Upto(n, f)}
<1>1. 0 \in S
  <2> DEFINE f == [n \in 0..0 |-> first]
  <2>1. Upto(0, f)
    OBVIOUS
  <2> QED
    BY <2>1
<1>2. ASSUME NEW n \in Nat, n \in S PROVE n + 1 \in S
  <2> SUFFICES ASSUME n + 1 <= m PROVE \E f : Upto(n + 1, f)
    OBVIOUS
  <2>1. PICK f : Upto(n, f)
    BY <1>2
  <2> DEFINE x == step[<<f[n], n + 1>>]
             g == [i \in 0..(n + 1) |-> IF i = n + 1 THEN x ELSE f[i]]
  <2>2. x \in A
    <3>1. f[n] \in A /\ n + 1 \in 1..m
      BY <2>1
    <3> QED
      BY <3>1
  <2>3. \A i \in 0..n : g[i] = f[i] /\ f[i] \in A
    BY <2>1
  <2>4. g[n + 1] = x
    OBVIOUS
  <2> HIDE DEF x
  <2>5. g \in [0..(n + 1) -> A]
    BY <2>1, <2>2
  <2> HIDE DEF g
  <2>6. \A i \in 1..(n + 1) : g[i] = step[<<g[i - 1], i>>]
    <3> SUFFICES ASSUME NEW i \in 1..(n + 1) PROVE g[i] = step[<<g[i - 1], i>>]
      OBVIOUS
    <3>1. CASE i = n + 1
      <4>1. i - 1 = n /\ n \in 0..n
        BY <3>1
      <4>2. g[i - 1] = f[n]
        BY <2>3, <4>1
      <4> QED
        BY <2>4, <3>1, <4>2 DEF x
    <3>2. CASE i # n + 1
      <4>1. i \in 1..n /\ i - 1 \in 0..n /\ i \in 0..n
        BY <3>2
      <4>2. f[i] = step[<<f[i - 1], i>>]
        BY <2>1, <4>1
      <4> QED
        BY <2>3, <4>1, <4>2
    <3> QED
      BY <3>1, <3>2
  <2>7. g[0] = first
    BY <2>1, <2>3
  <2> QED
    BY <2>5, <2>6, <2>7
<1>3. Nat \subseteq S
  <2> HIDE DEF S
  <2> QED
    BY <1>1, <1>2, SetInduction
<1>4. m \in S
  <2> HIDE DEF S
  <2> QED
    BY <1>3
<1>5. m <= m
  OBVIOUS
<1>6. \E f : Upto(m, f)
  BY <1>4, <1>5
<1> QED
  BY <1>6

\* How a sum is made.
LEMMA TotalSteps ==
  ASSUME NEW s \in Seq(Nat)
  PROVE  \E f \in [0..Len(s) -> Nat] :
            f[0] = 0 /\ (\A n \in 1..Len(s) : f[n] = f[n - 1] + s[n]) /\ Total(s) = f[Len(s)]
<1> DEFINE m == Len(s)
           step == [x \in Nat \X (1..m) |-> x[1] + s[x[2]]]
           Made(f) == f = [n \in 0..m |-> IF n = 0 THEN 0 ELSE f[n - 1] + s[n]]
<1>1. m \in Nat /\ \A n \in 1..m : s[n] \in Nat
  OBVIOUS
<1>2. step \in [Nat \X (1..m) -> Nat]
  BY <1>1
<1>3. PICK f \in [0..m -> Nat] : f[0] = 0 /\ \A n \in 1..m : f[n] = step[<<f[n - 1], n>>]
  <2> DEFINE first == 0
  <2>1. first \in Nat
    OBVIOUS
  <2> HIDE DEF step, m, first
  <2>2. m \in Nat
    BY <1>1
  <2>3. step \in StepsIn(Nat, m)
    BY <1>2 DEF StepsIn
  <2>4. Recurs(Nat, first, m, step)
    BY <2>1, <2>2, <2>3, UpToExists, Zenon
  <2> QED
    BY <2>4, Zenon DEF first, Recurs
<1>4. \A n \in 1..m : f[n] = f[n - 1] + s[n]
  <2> SUFFICES ASSUME NEW n \in 1..m PROVE f[n] = f[n - 1] + s[n]
    OBVIOUS
  <2>1. f[n - 1] \in Nat
    BY <1>1, <1>3
  <2> QED
    BY <1>3, <2>1
<1> HIDE DEF step
<1>5. Made(f)
  <2> HIDE DEF m
  <2> QED
    BY <1>1, <1>3, <1>4
<1>6. ASSUME NEW g, Made(g) PROVE g \in [0..m -> Nat] /\ g[0] = 0 /\ \A n \in 1..m : g[n] = g[n - 1] + s[n]
  <2> HIDE DEF m
  <2> DEFINE S == {n \in Nat : n <= m => g[n] \in Nat}
  <2>1. \A n \in 0..m : g[n] = IF n = 0 THEN 0 ELSE g[n - 1] + s[n]
    BY <1>1, <1>6
  <2>2. 0 \in S
    BY <1>1, <2>1
  <2>3. ASSUME NEW n \in Nat, n \in S PROVE n + 1 \in S
    <3> SUFFICES ASSUME n + 1 <= m PROVE g[n + 1] \in Nat
      OBVIOUS
    <3>1. n + 1 \in 0..m /\ n + 1 # 0 /\ (n + 1) - 1 = n /\ n + 1 \in 1..m /\ g[n] \in Nat
      BY <1>1, <2>3
    <3>2. g[n + 1] = g[n] + s[n + 1]
      BY <2>1, <3>1
    <3> QED
      BY <1>1, <3>1, <3>2
  <2>4. Nat \subseteq S
    <3> HIDE DEF S
    <3> QED
      BY <2>2, <2>3, SetInduction
  <2>5. \A n \in 0..m : n \in Nat /\ n <= m
    BY <1>1
  <2>6. \A n \in 0..m : g[n] \in Nat
    BY <2>4, <2>5
  <2>7. DOMAIN g = 0..m /\ g = [n \in 0..m |-> g[n]]
    BY <1>6
  <2>8. g \in [0..m -> Nat]
    BY <2>6, <2>7
  <2>9. \A n \in 1..m : n \in 0..m /\ n # 0
    BY <1>1
  <2>10. 0 \in 0..m
    BY <1>1
  <2> HIDE DEF Made, S
  <2> QED
    BY <2>1, <2>8, <2>9, <2>10
<1> DEFINE c == CHOOSE g : Made(g)
<1>7. Made(c)
  <2> HIDE DEF Made
  <2> QED
    BY <1>5
<1>8. Total(s) = c[m]
  BY Zenon DEF Total
<1> HIDE DEF c, Made
<1> QED
  BY <1>6, <1>7, <1>8

\* How the lists in a list are put one after the other.
LEMMA FlattenSteps ==
  ASSUME NEW A, NEW ss \in Seq(Seq(A))
  PROVE  \E f \in [0..Len(ss) -> Seq(A)] :
            /\ f[0] = <<>> /\ \A n \in 1..Len(ss) : f[n] = f[n - 1] \o ss[n]
            /\ Flatten(ss) = f[Len(ss)]
<1> DEFINE m == Len(ss)
           step == [x \in Seq(A) \X (1..m) |-> x[1] \o ss[x[2]]]
           Made(f) == f = [n \in 0..m |-> IF n = 0 THEN <<>> ELSE f[n - 1] \o ss[n]]
<1>1. m \in Nat /\ \A n \in 1..m : ss[n] \in Seq(A)
  OBVIOUS
<1>2. step \in [Seq(A) \X (1..m) -> Seq(A)]
  BY <1>1
<1>3. PICK f \in [0..m -> Seq(A)] : f[0] = <<>> /\ \A n \in 1..m : f[n] = step[<<f[n - 1], n>>]
  <2> DEFINE first == <<>>
  <2>1. first \in Seq(A)
    OBVIOUS
  <2> HIDE DEF step, m, first
  <2>2. m \in Nat
    BY <1>1
  <2>3. step \in StepsIn(Seq(A), m)
    BY <1>2 DEF StepsIn
  <2>4. Recurs(Seq(A), first, m, step)
    BY <2>1, <2>2, <2>3, UpToExists, Zenon
  <2> QED
    BY <2>4, Zenon DEF first, Recurs
<1>4. \A n \in 1..m : f[n] = f[n - 1] \o ss[n]
  <2> SUFFICES ASSUME NEW n \in 1..m PROVE f[n] = f[n - 1] \o ss[n]
    OBVIOUS
  <2>1. f[n - 1] \in Seq(A)
    <3>1. m \in Nat
      BY <1>1
    <3> HIDE DEF m, step, Made
    <3>2. n - 1 \in 0..m
      BY <3>1
    <3> QED
      BY <3>2
  <2> QED
    BY <1>3, <2>1
<1> HIDE DEF step
<1>5. Made(f)
  <2> HIDE DEF m
  <2>1. \A n \in 0..m : n # 0 => n \in 1..m
    BY <1>1
  <2>2. f = [n \in 0..m |-> f[n]]
    BY <1>3
  <2> QED
    BY <1>3, <1>4, <2>1, <2>2, Zenon
<1>6. ASSUME NEW g, Made(g)
      PROVE  g \in [0..m -> Seq(A)] /\ g[0] = <<>> /\ \A n \in 1..m : g[n] = g[n - 1] \o ss[n]
  <2> HIDE DEF m
  <2> DEFINE S == {n \in Nat : n <= m => g[n] \in Seq(A)}
  <2>1. \A n \in 0..m : g[n] = IF n = 0 THEN <<>> ELSE g[n - 1] \o ss[n]
    BY <1>1, <1>6
  <2>2. 0 \in S
    <3>1. 0 \in 0..m /\ <<>> \in Seq(A)
      BY <1>1
    <3>2. g[0] = <<>>
      BY <2>1, <3>1, Zenon
    <3> QED
      BY <3>1, <3>2
  <2>3. ASSUME NEW n \in Nat, n \in S PROVE n + 1 \in S
    <3> SUFFICES ASSUME n + 1 <= m PROVE g[n + 1] \in Seq(A)
      OBVIOUS
    <3>1. n + 1 \in 0..m /\ n + 1 # 0 /\ (n + 1) - 1 = n /\ n + 1 \in 1..m /\ g[n] \in Seq(A)
      BY <1>1, <2>3
    <3>2. g[n + 1] = g[n] \o ss[n + 1]
      BY <2>1, <3>1
    <3> QED
      BY <1>1, <3>1, <3>2
  <2>4. Nat \subseteq S
    <3> HIDE DEF S
    <3> QED
      BY <2>2, <2>3, SetInduction
  <2>5. \A n \in 0..m : n \in Nat /\ n <= m
    BY <1>1
  <2>6. \A n \in 0..m : g[n] \in Seq(A)
    BY <2>4, <2>5
  <2>7. DOMAIN g = 0..m /\ g = [n \in 0..m |-> g[n]]
    BY <1>6
  <2>8. g \in [0..m -> Seq(A)]
    BY <2>6, <2>7
  <2>9. \A n \in 1..m : n \in 0..m /\ n # 0
    BY <1>1
  <2>10. 0 \in 0..m
    BY <1>1
  <2> HIDE DEF Made, S
  <2> QED
    BY <2>1, <2>8, <2>9, <2>10
<1> DEFINE c == CHOOSE g : Made(g)
<1>7. Made(c)
  <2> HIDE DEF Made
  <2> QED
    BY <1>5
<1>8. Flatten(ss) = c[m]
  BY Zenon DEF Flatten
<1> HIDE DEF c, Made
<1> QED
  BY <1>6, <1>7, <1>8

\* A list of lists of members of A is put together to a list of members of A.
LEMMA FlattenType ==
  ASSUME NEW A, NEW ss \in Seq(Seq(A))
  PROVE  Flatten(ss) \in Seq(A)
<1>1. PICK f \in [0..Len(ss) -> Seq(A)] : Flatten(ss) = f[Len(ss)]
  BY FlattenSteps
<1>2. Len(ss) \in 0..Len(ss)
  OBVIOUS
<1> QED
  BY <1>1, <1>2

\* If lists put together have members of B only, each of them does.
LEMMA ConcatOnly ==
  ASSUME NEW A, NEW B, NEW s \in Seq(A), NEW t \in Seq(A), s \o t \in Seq(B)
  PROVE  s \in Seq(B) /\ t \in Seq(B)
<1> DEFINE st == s \o t
<1>1. /\ Len(st) = Len(s) + Len(t) /\ Len(s) \in Nat /\ Len(t) \in Nat
      /\ \A i \in 1..Len(s) : st[i] = s[i]
      /\ \A j \in 1..Len(t) : st[Len(s) + j] = t[j]
  OBVIOUS
<1>2. \A i \in 1..Len(st) : st[i] \in B
  OBVIOUS
<1> HIDE DEF st
<1>3. \A i \in 1..Len(s) : s[i] \in B
  <2> TAKE i \in 1..Len(s)
  <2>1. i \in 1..Len(st)
    BY <1>1
  <2> QED
    BY <1>1, <1>2, <2>1
<1>4. \A j \in 1..Len(t) : t[j] \in B
  <2> TAKE j \in 1..Len(t)
  <2>1. Len(s) + j \in 1..Len(st)
    BY <1>1
  <2> QED
    BY <1>1, <1>2, <2>1
<1> QED
  BY <1>1, <1>3, <1>4

LEMMA FlattenOnly ==
  ASSUME NEW A, NEW B, NEW ss \in Seq(Seq(A)), Flatten(ss) \in Seq(B)
  PROVE  \A k \in DOMAIN ss : ss[k] \in Seq(B)
<1> DEFINE m == Len(ss)
<1>1. PICK f \in [0..m -> Seq(A)] :
         f[0] = <<>> /\ (\A n \in 1..m : f[n] = f[n - 1] \o ss[n]) /\ Flatten(ss) = f[m]
  BY FlattenSteps
<1>2. m \in Nat /\ DOMAIN ss = 1..m /\ \A k \in 1..m : ss[k] \in Seq(A)
  OBVIOUS
<1> HIDE DEF m
<1> DEFINE S == {n \in Nat : n <= m => (f[n] \in Seq(B) => \A k \in 1..n : ss[k] \in Seq(B))}
<1>3. 0 \in S
  OBVIOUS
<1>4. ASSUME NEW n \in Nat, n \in S PROVE n + 1 \in S
  <2> SUFFICES ASSUME n + 1 <= m, f[n + 1] \in Seq(B) PROVE \A k \in 1..(n + 1) : ss[k] \in Seq(B)
    OBVIOUS
  <2>1. n + 1 \in 1..m /\ (n + 1) - 1 = n /\ n \in 0..m /\ n <= m
    BY <1>2
  <2>2. f[n + 1] = f[n] \o ss[n + 1] /\ f[n] \in Seq(A) /\ ss[n + 1] \in Seq(A)
    <3>1. f[n + 1] = f[(n + 1) - 1] \o ss[n + 1]
      BY <1>1, <2>1
    <3> QED
      BY <1>1, <1>2, <2>1, <3>1
  <2>3. f[n] \in Seq(B) /\ ss[n + 1] \in Seq(B)
    BY <2>2, ConcatOnly
  <2>4. \A k \in 1..n : ss[k] \in Seq(B)
    BY <1>4, <2>1, <2>3
  <2>5. \A k \in 1..(n + 1) : k = n + 1 \/ k \in 1..n
    OBVIOUS
  <2> QED
    BY <2>3, <2>4, <2>5
<1>5. Nat \subseteq S
  <2> HIDE DEF S
  <2> QED
    BY <1>3, <1>4, SetInduction
<1>6. m \in S /\ m <= m
  BY <1>2, <1>5
<1> QED
  BY <1>1, <1>2, <1>6

\* The length of lists put together is the sum of their lengths.
LEMMA FlattenLength ==
  ASSUME NEW A, NEW ss \in Seq(Seq(A))
  PROVE  Len(Flatten(ss)) = Total([k \in DOMAIN ss |-> Len(ss[k])])
<1> DEFINE m == Len(ss)
           lens == [k \in DOMAIN ss |-> Len(ss[k])]
<1>1. PICK f \in [0..m -> Seq(A)] :
         f[0] = <<>> /\ (\A n \in 1..m : f[n] = f[n - 1] \o ss[n]) /\ Flatten(ss) = f[m]
  BY FlattenSteps
<1>2. m \in Nat /\ DOMAIN ss = 1..m /\ \A k \in 1..m : ss[k] \in Seq(A)
  OBVIOUS
<1> HIDE DEF m
<1>3. lens \in Seq(Nat) /\ Len(lens) = m /\ \A k \in 1..m : lens[k] = Len(ss[k])
  BY <1>2
<1> HIDE DEF lens
<1>4. PICK g \in [0..m -> Nat] :
         g[0] = 0 /\ (\A n \in 1..m : g[n] = g[n - 1] + lens[n]) /\ Total(lens) = g[m]
  BY <1>3, TotalSteps
<1> DEFINE S == {n \in Nat : n <= m => Len(f[n]) = g[n]}
<1>5. 0 \in S
  BY <1>1, <1>4
<1>6. ASSUME NEW n \in Nat, n \in S PROVE n + 1 \in S
  <2> SUFFICES ASSUME n + 1 <= m PROVE Len(f[n + 1]) = g[n + 1]
    OBVIOUS
  <2>1. n + 1 \in 1..m /\ (n + 1) - 1 = n /\ n \in 0..m /\ n <= m
    BY <1>2
  <2>2. f[n + 1] = f[(n + 1) - 1] \o ss[n + 1] /\ g[n + 1] = g[(n + 1) - 1] + lens[n + 1]
    BY <1>1, <1>4, <2>1
  <2>3. f[n] \in Seq(A) /\ ss[n + 1] \in Seq(A) /\ Len(f[n]) = g[n]
    BY <1>1, <1>2, <1>6, <2>1
  <2>4. Len(f[n] \o ss[n + 1]) = Len(f[n]) + Len(ss[n + 1])
    <3>1. \A x, y \in Seq(A) : Len(x \o y) = Len(x) + Len(y)
      OBVIOUS
    <3> QED
      BY <2>3, <3>1, Zenon
  <2>5. Len(f[n + 1]) = g[n] + lens[n + 1]
    BY <1>3, <2>1, <2>2, <2>3, <2>4, Zenon
  <2> QED
    BY <2>1, <2>2, <2>5, Zenon
<1>7. Nat \subseteq S
  <2> HIDE DEF S
  <2> QED
    BY <1>5, <1>6, SetInduction
<1>8. m \in S /\ m <= m
  BY <1>2, <1>7
<1> QED
  BY <1>1, <1>4, <1>8 DEF lens

LEMMA ConcatParts ==
  ASSUME NEW A, NEW s \in Seq(A), NEW t \in Seq(A)
  PROVE  /\ s \o t \in Seq(A) /\ Len(s \o t) = Len(s) + Len(t)
         /\ \A i \in 1..Len(s) : (s \o t)[i] = s[i]
         /\ \A j \in 1..Len(t) : (s \o t)[Len(s) + j] = t[j]
  OBVIOUS

LEMMA SameList ==
  ASSUME NEW A, NEW s \in Seq(A), NEW t \in Seq(A), Len(s) = Len(t),
         \A i \in 1..Len(s) : s[i] = t[i]
  PROVE  s = t
  OBVIOUS

LEMMA ConcatAssoc ==
  ASSUME NEW A, NEW x \in Seq(A), NEW y \in Seq(A), NEW z \in Seq(A)
  PROVE  (x \o y) \o z = x \o (y \o z)
<1> DEFINE xy == x \o y
           yz == y \o z
           l == xy \o z
           r == x \o yz
           a == Len(x)
           b == Len(y)
           c == Len(z)
<1>0. \A u, v \in Seq(A) :
        /\ u \o v \in Seq(A) /\ Len(u \o v) = Len(u) + Len(v)
        /\ \A i \in 1..Len(u) : (u \o v)[i] = u[i]
        /\ \A i \in 1..Len(v) : (u \o v)[Len(u) + i] = v[i]
  BY ConcatParts
<1>1. a \in Nat /\ b \in Nat /\ c \in Nat
  OBVIOUS
<1>2. /\ xy \in Seq(A) /\ Len(xy) = a + b
      /\ \A i \in 1..a : xy[i] = x[i]
      /\ \A i \in 1..b : xy[a + i] = y[i]
  BY ConcatParts
<1>3. /\ yz \in Seq(A) /\ Len(yz) = b + c
      /\ \A i \in 1..b : yz[i] = y[i]
      /\ \A i \in 1..c : yz[b + i] = z[i]
  BY ConcatParts
<1> HIDE DEF xy, yz
<1>4. /\ l \in Seq(A) /\ Len(l) = Len(xy) + c
      /\ \A i \in 1..Len(xy) : l[i] = xy[i]
      /\ \A i \in 1..c : l[Len(xy) + i] = z[i]
  BY <1>0, <1>2, Zenon
<1>5. /\ r \in Seq(A) /\ Len(r) = a + Len(yz)
      /\ \A i \in 1..a : r[i] = x[i]
      /\ \A i \in 1..Len(yz) : r[a + i] = yz[i]
  BY <1>0, <1>3, Zenon
<1> HIDE DEF l, r, a, b, c
<1>6. Len(l) = (a + b) + c /\ Len(r) = (a + b) + c
  BY <1>1, <1>2, <1>3, <1>4, <1>5
<1>7. ASSUME NEW i \in 1..a PROVE l[i] = r[i]
  <2>1. i \in 1..(a + b)
    BY <1>1
  <2>2. l[i] = xy[i]
    BY <1>2, <1>4, <2>1
  <2>3. xy[i] = x[i] /\ r[i] = x[i]
    BY <1>2, <1>5
  <2> QED
    BY <2>2, <2>3
<1>8. ASSUME NEW i \in 1..b PROVE l[a + i] = r[a + i]
  <2>1. a + i \in 1..(a + b) /\ i \in 1..(b + c)
    BY <1>1
  <2>2. l[a + i] = xy[a + i] /\ r[a + i] = yz[i]
    BY <1>2, <1>3, <1>4, <1>5, <2>1
  <2>3. xy[a + i] = y[i] /\ yz[i] = y[i]
    BY <1>2, <1>3
  <2> QED
    BY <2>2, <2>3
<1>9. ASSUME NEW i \in 1..c PROVE l[(a + b) + i] = r[(a + b) + i]
  <2>1. b + i \in 1..(b + c) /\ a + (b + i) = (a + b) + i
    BY <1>1
  <2>2. r[(a + b) + i] = yz[b + i]
    BY <1>3, <1>5, <2>1
  <2>3. l[(a + b) + i] = z[i] /\ yz[b + i] = z[i]
    BY <1>2, <1>3, <1>4
  <2> QED
    BY <2>2, <2>3
<1>10. ASSUME NEW k \in 1..Len(l) PROVE l[k] = r[k]
  <2>0. k \in 1..((a + b) + c)
    BY <1>6
  <2>1. CASE k <= a
    <3>1. k \in 1..a
      BY <1>1, <2>0, <2>1
    <3> QED
      BY <1>7, <3>1
  <2>2. CASE a < k /\ k <= a + b
    <3>1. k - a \in 1..b /\ a + (k - a) = k
      BY <1>1, <2>0, <2>2
    <3>2. l[a + (k - a)] = r[a + (k - a)]
      BY <1>8, <3>1
    <3> QED
      BY <3>1, <3>2
  <2>3. CASE a + b < k
    <3>1. k - (a + b) \in 1..c /\ (a + b) + (k - (a + b)) = k
      BY <1>1, <2>0, <2>3
    <3>2. l[(a + b) + (k - (a + b))] = r[(a + b) + (k - (a + b))]
      BY <1>9, <3>1
    <3> QED
      BY <3>1, <3>2
  <2> QED
    BY <1>1, <2>0, <2>1, <2>2, <2>3
<1>11. l = r
  BY <1>4, <1>5, <1>6, <1>10, SameList
<1> QED
  BY <1>11 DEF l, r, xy, yz

\* Lists of lists are put together one after the other.
LEMMA FlattenConcat ==
  ASSUME NEW A, NEW ss \in Seq(Seq(A)), NEW tt \in Seq(Seq(A))
  PROVE  Flatten(ss \o tt) = Flatten(ss) \o Flatten(tt)
<1> DEFINE m == Len(ss)
           l == Len(tt)
           st == ss \o tt
<1>1. PICK f \in [0..m -> Seq(A)] :
         f[0] = <<>> /\ (\A n \in 1..m : f[n] = f[n - 1] \o ss[n]) /\ Flatten(ss) = f[m]
  BY FlattenSteps
<1>2. PICK g \in [0..l -> Seq(A)] :
         g[0] = <<>> /\ (\A n \in 1..l : g[n] = g[n - 1] \o tt[n]) /\ Flatten(tt) = g[l]
  BY FlattenSteps
<1>3. /\ st \in Seq(Seq(A)) /\ Len(st) = m + l /\ m \in Nat /\ l \in Nat
      /\ \A n \in 1..m : st[n] = ss[n] /\ ss[n] \in Seq(A)
      /\ \A n \in 1..l : st[m + n] = tt[n] /\ tt[n] \in Seq(A)
  OBVIOUS
<1> HIDE DEF m, l, st
<1>4. PICK h \in [0..(m + l) -> Seq(A)] :
         h[0] = <<>> /\ (\A n \in 1..(m + l) : h[n] = h[n - 1] \o st[n]) /\ Flatten(st) = h[m + l]
  <2>1. PICK h \in [0..Len(st) -> Seq(A)] :
           h[0] = <<>> /\ (\A n \in 1..Len(st) : h[n] = h[n - 1] \o st[n]) /\ Flatten(st) = h[Len(st)]
    BY <1>3, FlattenSteps
  <2> QED
    BY <1>3, <2>1
<1> DEFINE S == {n \in Nat : n <= m => h[n] = f[n]}
           T == {n \in Nat : n <= l => h[m + n] = f[m] \o g[n]}
<1>5. 0 \in S
  BY <1>1, <1>4
<1>6. ASSUME NEW n \in Nat, n \in S PROVE n + 1 \in S
  <2> SUFFICES ASSUME n + 1 <= m PROVE h[n + 1] = f[n + 1]
    OBVIOUS
  <2>1. n + 1 \in 1..m /\ n + 1 \in 1..(m + l) /\ (n + 1) - 1 = n /\ n <= m
    BY <1>3
  <2>2. h[n + 1] = h[(n + 1) - 1] \o st[n + 1] /\ f[n + 1] = f[(n + 1) - 1] \o ss[n + 1]
    BY <1>1, <1>4, <2>1
  <2>3. h[n] = f[n] /\ st[n + 1] = ss[n + 1]
    BY <1>3, <1>6, <2>1
  <2> QED
    BY <2>1, <2>2, <2>3
<1>7. Nat \subseteq S
  <2> HIDE DEF S
  <2> QED
    BY <1>5, <1>6, SetInduction
<1>8. h[m] = f[m] /\ f[m] \in Seq(A)
  <2>1. m \in S /\ m <= m /\ m \in 0..m
    BY <1>3, <1>7
  <2> QED
    BY <1>1, <2>1
<1>9. 0 \in T
  <2>1. m + 0 = m /\ f[m] \o <<>> = f[m]
    BY <1>3, <1>8
  <2> QED
    BY <1>2, <1>8, <2>1
<1>10. ASSUME NEW n \in Nat, n \in T PROVE n + 1 \in T
  <2>1. ASSUME n + 1 <= l PROVE h[m + (n + 1)] = f[m] \o g[n + 1]
    <3>1. /\ n + 1 \in 1..l /\ m + (n + 1) \in 1..(m + l) /\ (n + 1) - 1 = n
          /\ (m + (n + 1)) - 1 = m + n /\ n <= l /\ n \in 0..l
      <4>1. m \in Nat /\ l \in Nat /\ n \in Nat
        BY <1>3
      <4> HIDE DEF S, T
      <4>2. n + 1 \in 1..l /\ n <= l /\ n \in 0..l
        BY <2>1, <4>1
      <4>3. m + (n + 1) \in 1..(m + l)
        BY <2>1, <4>1
      <4>4. (n + 1) - 1 = n /\ (m + (n + 1)) - 1 = m + n
        BY <4>1
      <4> QED
        BY <4>2, <4>3, <4>4
    <3>2. /\ h[m + (n + 1)] = h[(m + (n + 1)) - 1] \o st[m + (n + 1)]
          /\ g[n + 1] = g[(n + 1) - 1] \o tt[n + 1]
      BY <1>2, <1>4, <3>1, Zenon
    <3>3. h[m + n] = f[m] \o g[n] /\ st[m + (n + 1)] = tt[n + 1]
      BY <1>3, <1>10, <3>1, Zenon
    <3>4. g[n] \in Seq(A) /\ tt[n + 1] \in Seq(A)
      BY <1>2, <1>3, <3>1
    <3>5. h[m + (n + 1)] = (f[m] \o g[n]) \o tt[n + 1] /\ g[n + 1] = g[n] \o tt[n + 1]
      BY <3>1, <3>2, <3>3, Zenon
    <3> DEFINE x == f[m]
               y == g[n]
               z == tt[n + 1]
    <3>6. x \in Seq(A) /\ y \in Seq(A) /\ z \in Seq(A)
      BY <1>8, <3>4
    <3> HIDE DEF x, y, z
    <3>7. (x \o y) \o z = x \o (y \o z)
      BY <3>6, ConcatAssoc
    <3> QED
      BY <3>5, <3>7, Zenon DEF x, y, z
  <2>2. n + 1 \in Nat
    OBVIOUS
  <2> QED
    BY <2>1, <2>2, Zenon
<1>11. Nat \subseteq T
  <2> HIDE DEF T
  <2> QED
    BY <1>9, <1>10, SetInduction
<1>12. l \in T
  <2> HIDE DEF T
  <2> QED
    BY <1>3, <1>11
<1>13. h[m + l] = f[m] \o g[l]
  <2>1. l <= l
    BY <1>3
  <2> QED
    BY <1>12, <2>1, Zenon
<1> QED
  BY <1>1, <1>2, <1>4, <1>13 DEF st

LEMMA FlattenNone ==
  Flatten(<<>>) = <<>>
<1> DEFINE ss == <<>>
<1>1. ss \in Seq(Seq({})) /\ Len(ss) = 0
  OBVIOUS
<1> HIDE DEF ss
<1>2. PICK f : f[0] = <<>> /\ Flatten(ss) = f[Len(ss)]
  BY <1>1, FlattenSteps
<1> QED
  BY <1>1, <1>2 DEF ss

LEMMA FlattenOne ==
  ASSUME NEW A, NEW x \in Seq(A)
  PROVE  Flatten(<<x>>) = x
<1> DEFINE ss == <<x>>
<1>1. ss \in Seq(Seq(A)) /\ Len(ss) = 1 /\ ss[1] = x
  OBVIOUS
<1> HIDE DEF ss
<1>2. PICK f \in [0..1 -> Seq(A)] :
         f[0] = <<>> /\ (\A n \in 1..1 : f[n] = f[n - 1] \o ss[n]) /\ Flatten(ss) = f[1]
  <2>1. PICK f \in [0..Len(ss) -> Seq(A)] :
           f[0] = <<>> /\ (\A n \in 1..Len(ss) : f[n] = f[n - 1] \o ss[n]) /\ Flatten(ss) = f[Len(ss)]
    BY <1>1, FlattenSteps
  <2> QED
    BY <1>1, <2>1
<1>3. f[1] = f[1 - 1] \o ss[1] /\ 1 - 1 = 0
  BY <1>2
<1>4. f[1] = <<>> \o x
  BY <1>1, <1>2, <1>3
<1>5. <<>> \o x = x
  OBVIOUS
<1> QED
  BY <1>2, <1>4, <1>5 DEF ss

\* Each element of a list, and what a function makes of it, one after the other.
Lister(A, B)  == [A -> Seq(B)]
FlatMap(h, s) == Flatten([k \in DOMAIN s |-> h[s[k]]])

LEMMA FlatMapType ==
  ASSUME NEW A, NEW B, NEW h \in Lister(A, B), NEW s \in Seq(A)
  PROVE  /\ [k \in DOMAIN s |-> h[s[k]]] \in Seq(Seq(B))
         /\ FlatMap(h, s) \in Seq(B)
<1> USE DEF Lister
<1>1. DOMAIN s = 1..Len(s) /\ Len(s) \in Nat /\ \A k \in 1..Len(s) : h[s[k]] \in Seq(B)
  OBVIOUS
<1>2. [k \in DOMAIN s |-> h[s[k]]] \in Seq(Seq(B))
  BY <1>1
<1> QED
  BY <1>2, FlattenType DEF FlatMap

LEMMA FlatMapNone ==
  ASSUME NEW h
  PROVE  FlatMap(h, <<>>) = <<>>
<1>1. [k \in DOMAIN <<>> |-> h[<<>>[k]]] = <<>>
  OBVIOUS
<1> QED
  BY <1>1, FlattenNone DEF FlatMap

LEMMA FlatMapOne ==
  ASSUME NEW A, NEW B, NEW h \in Lister(A, B), NEW x \in A
  PROVE  FlatMap(h, <<x>>) = h[x]
<1> USE DEF Lister
<1>1. [k \in DOMAIN <<x>> |-> h[<<x>>[k]]] = <<h[x]>> /\ h[x] \in Seq(B)
  OBVIOUS
<1> QED
  BY <1>1, FlattenOne DEF FlatMap

LEMMA FlatMapConcat ==
  ASSUME NEW A, NEW B, NEW h \in Lister(A, B), NEW s \in Seq(A), NEW t \in Seq(A)
  PROVE  FlatMap(h, s \o t) = FlatMap(h, s) \o FlatMap(h, t)
<1> DEFINE Map(x) == [k \in DOMAIN x |-> h[x[k]]]
           st == s \o t
<1>1. /\ st \in Seq(A) /\ Len(st) = Len(s) + Len(t) /\ Len(s) \in Nat /\ Len(t) \in Nat
      /\ DOMAIN s = 1..Len(s) /\ DOMAIN t = 1..Len(t) /\ DOMAIN st = 1..(Len(s) + Len(t))
      /\ \A i \in 1..Len(s) : st[i] = s[i]
      /\ \A j \in 1..Len(t) : st[Len(s) + j] = t[j]
  OBVIOUS
<1>2. Map(s) \in Seq(Seq(B)) /\ Map(t) \in Seq(Seq(B)) /\ Map(st) \in Seq(Seq(B))
  <2>1. ASSUME NEW x \in Seq(A) PROVE Map(x) \in Seq(Seq(B))
    BY FlatMapType
  <2> HIDE DEF Map, st
  <2> QED
    BY <1>1, <2>1
<1>3. Map(st) = Map(s) \o Map(t)
  <2> DEFINE u == Map(s)
             v == Map(t)
             w == Map(st)
  <2> HIDE DEF st
  <2>1. Len(u) = Len(s) /\ Len(v) = Len(t) /\ Len(w) = Len(s) + Len(t)
    BY <1>1, <1>2
  <2>2. \A i \in 1..Len(s) : w[i] = u[i]
    BY <1>1
  <2>3. \A j \in 1..Len(t) : w[Len(s) + j] = v[j]
    <3> TAKE j \in 1..Len(t)
    <3>1. Len(s) + j \in DOMAIN st
      BY <1>1
    <3> QED
      BY <1>1, <3>1
  <2>4. u \in Seq(Seq(B)) /\ v \in Seq(Seq(B)) /\ w \in Seq(Seq(B))
    BY <1>2
  <2> HIDE DEF u, v, w, Map
  <2>5. /\ Len(u \o v) = Len(s) + Len(t) /\ u \o v \in Seq(Seq(B))
        /\ \A i \in 1..Len(s) : (u \o v)[i] = u[i]
        /\ \A j \in 1..Len(t) : (u \o v)[Len(s) + j] = v[j]
    <3>1. /\ u \o v \in Seq(Seq(B)) /\ Len(u \o v) = Len(u) + Len(v)
          /\ \A i \in 1..Len(u) : (u \o v)[i] = u[i]
          /\ \A j \in 1..Len(v) : (u \o v)[Len(u) + j] = v[j]
      <4>1. \A x, y \in Seq(Seq(B)) :
               /\ x \o y \in Seq(Seq(B)) /\ Len(x \o y) = Len(x) + Len(y)
               /\ \A i \in 1..Len(x) : (x \o y)[i] = x[i]
               /\ \A j \in 1..Len(y) : (x \o y)[Len(x) + j] = y[j]
        BY ConcatParts
      <4> QED
        BY <2>4, <4>1, Zenon
    <3> QED
      BY <2>1, <3>1, Zenon
  <2>6. \A i \in 1..(Len(s) + Len(t)) : w[i] = (u \o v)[i]
    <3> TAKE i \in 1..(Len(s) + Len(t))
    <3>1. CASE i <= Len(s)
      BY <1>1, <2>2, <2>5, <3>1
    <3>2. CASE ~ (i <= Len(s))
      <4> DEFINE j == i - Len(s)
      <4>1. j \in 1..Len(t) /\ Len(s) + j = i
        BY <1>1, <3>2
      <4> HIDE DEF j
      <4> QED
        BY <2>3, <2>5, <4>1
    <3> QED
      BY <3>1, <3>2
  <2>7. w = u \o v
    BY <2>1, <2>4, <2>5, <2>6, SameList, Zenon
  <2> QED
    BY <2>7 DEF u, v, w
<1> HIDE DEF Map, st
<1>4. Flatten(Map(st)) = Flatten(Map(s)) \o Flatten(Map(t))
  BY <1>2, <1>3, FlattenConcat
<1> QED
  BY <1>4 DEF FlatMap, Map, st

\* What is made of lists put together is what is made of each, put together.
LEMMA FlatMapFlatten ==
  ASSUME NEW A, NEW B, NEW h \in Lister(A, B), NEW ss \in Seq(Seq(A))
  PROVE  FlatMap(h, Flatten(ss)) = Flatten([k \in DOMAIN ss |-> FlatMap(h, ss[k])])
<1>0. ASSUME NEW s \in Seq(A), NEW t \in Seq(A)
      PROVE  FlatMap(h, s \o t) = FlatMap(h, s) \o FlatMap(h, t)
  BY FlatMapConcat, SMT
<1> DEFINE m == Len(ss)
           made == [k \in DOMAIN ss |-> FlatMap(h, ss[k])]
<1>1. PICK f \in [0..m -> Seq(A)] :
         f[0] = <<>> /\ (\A n \in 1..m : f[n] = f[n - 1] \o ss[n]) /\ Flatten(ss) = f[m]
  BY FlattenSteps
<1>2. m \in Nat /\ DOMAIN ss = 1..m /\ \A k \in 1..m : ss[k] \in Seq(A)
  OBVIOUS
<1>3. \A k \in 1..m : FlatMap(h, ss[k]) \in Seq(B)
  BY <1>2, FlatMapType
<1> HIDE DEF m
<1>4. made \in Seq(Seq(B)) /\ Len(made) = m /\ \A k \in 1..m : made[k] = FlatMap(h, ss[k])
  BY <1>2, <1>3
<1> HIDE DEF made
<1>5. PICK g \in [0..m -> Seq(B)] :
         g[0] = <<>> /\ (\A n \in 1..m : g[n] = g[n - 1] \o made[n]) /\ Flatten(made) = g[m]
  <2>1. PICK g \in [0..Len(made) -> Seq(B)] :
           /\ g[0] = <<>> /\ \A n \in 1..Len(made) : g[n] = g[n - 1] \o made[n]
           /\ Flatten(made) = g[Len(made)]
    BY <1>4, FlattenSteps
  <2> QED
    BY <1>4, <2>1
<1> DEFINE S == {n \in Nat : n <= m => FlatMap(h, f[n]) = g[n]}
<1>6. 0 \in S
  BY <1>1, <1>5, FlatMapNone
<1>7. ASSUME NEW n \in Nat, n \in S PROVE n + 1 \in S
  <2> SUFFICES ASSUME n + 1 <= m PROVE FlatMap(h, f[n + 1]) = g[n + 1]
    OBVIOUS
  <2>1. n + 1 \in 1..m /\ (n + 1) - 1 = n /\ n \in 0..m /\ n <= m
    BY <1>2
  <2>2. f[n + 1] = f[(n + 1) - 1] \o ss[n + 1] /\ g[n + 1] = g[(n + 1) - 1] \o made[n + 1]
    BY <1>1, <1>5, <2>1
  <2>3. /\ f[n] \in Seq(A) /\ ss[n + 1] \in Seq(A) /\ FlatMap(h, f[n]) = g[n]
        /\ made[n + 1] = FlatMap(h, ss[n + 1])
    BY <1>1, <1>2, <1>4, <1>7, <2>1
  <2>4. FlatMap(h, f[n] \o ss[n + 1]) = FlatMap(h, f[n]) \o FlatMap(h, ss[n + 1])
    <3> DEFINE x == f[n]
               y == ss[n + 1]
    <3>1. x \in Seq(A) /\ y \in Seq(A)
      BY <2>3
    <3> HIDE DEF x, y
    <3>2. FlatMap(h, x \o y) = FlatMap(h, x) \o FlatMap(h, y)
      BY <1>0, <3>1, Zenon
    <3> QED
      BY <3>2 DEF x, y
  <2> QED
    BY <2>1, <2>2, <2>3, <2>4, Zenon
<1>8. Nat \subseteq S
  <2> HIDE DEF S
  <2> QED
    BY <1>6, <1>7, SetInduction
<1>9. FlatMap(h, f[m]) = g[m]
  <2>1. m \in S /\ m <= m
    BY <1>2, <1>8
  <2> QED
    BY <2>1
<1> QED
  BY <1>1, <1>5, <1>9 DEF made

\* Lists of one element each are put together to the list of these elements.
LEMMA FlattenSingles ==
  ASSUME NEW A, NEW s \in Seq(A)
  PROVE  Flatten([k \in DOMAIN s |-> <<s[k]>>]) = s
<1> DEFINE m == Len(s)
           ss == [k \in DOMAIN s |-> <<s[k]>>]
<1>1. m \in Nat /\ DOMAIN s = 1..m /\ \A k \in 1..m : s[k] \in A
  OBVIOUS
<1> HIDE DEF m
<1>2. ss \in Seq(Seq(A)) /\ Len(ss) = m /\ \A k \in 1..m : ss[k] = <<s[k]>>
  BY <1>1
<1> HIDE DEF ss
<1>3. PICK f \in [0..m -> Seq(A)] :
         f[0] = <<>> /\ (\A n \in 1..m : f[n] = f[n - 1] \o ss[n]) /\ Flatten(ss) = f[m]
  <2>1. PICK f \in [0..Len(ss) -> Seq(A)] :
           /\ f[0] = <<>> /\ \A n \in 1..Len(ss) : f[n] = f[n - 1] \o ss[n]
           /\ Flatten(ss) = f[Len(ss)]
    BY <1>2, FlattenSteps
  <2> QED
    BY <1>2, <2>1
<1> DEFINE S == {n \in Nat : n <= m => Len(f[n]) = n /\ \A k \in 1..n : f[n][k] = s[k]}
<1>4. 0 \in S
  BY <1>3
<1>5. ASSUME NEW n \in Nat, n \in S PROVE n + 1 \in S
  <2> SUFFICES ASSUME n + 1 <= m
               PROVE  Len(f[n + 1]) = n + 1 /\ \A k \in 1..(n + 1) : f[n + 1][k] = s[k]
    OBVIOUS
  <2>1. n + 1 \in 1..m /\ (n + 1) - 1 = n /\ n \in 0..m /\ n <= m
    BY <1>1
  <2>2. f[n + 1] = f[(n + 1) - 1] \o ss[n + 1]
    BY <1>3, <2>1
  <2>3. /\ f[n] \in Seq(A) /\ Len(f[n]) = n /\ (\A k \in 1..n : f[n][k] = s[k])
        /\ ss[n + 1] = <<s[n + 1]>> /\ s[n + 1] \in A
    BY <1>1, <1>2, <1>3, <1>5, <2>1
  <2> DEFINE e == f[n]
             x == s[n + 1]
             g == e \o <<x>>
  <2>4. f[n + 1] = g
    BY <2>1, <2>2, <2>3
  <2>5. e \in Seq(A) /\ x \in A /\ Len(e) = n
    BY <2>3
  <2> HIDE DEF e, x
  <2>6. Len(g) = n + 1 /\ g[n + 1] = x /\ \A k \in 1..n : g[k] = e[k]
    BY <2>5
  <2>7. \A k \in 1..(n + 1) : k = n + 1 \/ k \in 1..n
    OBVIOUS
  <2> HIDE DEF g
  <2> QED
    BY <2>3, <2>4, <2>6, <2>7 DEF e, x
<1>6. Nat \subseteq S
  <2> HIDE DEF S
  <2> QED
    BY <1>4, <1>5, SetInduction
<1>7. Len(f[m]) = m /\ (\A k \in 1..m : f[m][k] = s[k]) /\ f[m] \in Seq(A)
  <2>1. m \in S /\ m <= m /\ m \in 0..m
    BY <1>1, <1>6
  <2> QED
    BY <1>3, <2>1
<1>8. f[m] = s
  BY <1>1, <1>7 DEF m
<1> QED
  BY <1>3, <1>8 DEF ss
=============================================================================
