--------------------------- MODULE EvaluationProofs ---------------------------
(***************************************************************************)
(* Proofs about Evaluation, for every set of Tasks and of checks, every    *)
(* backend and both kinds of database.                                     *)
(*                                                                         *)
(* The Evidence of an Attempt is made in three places: a check concludes,  *)
(* after_check looks at the tree the check left, and the acceptance gate   *)
(* passes over all rows.  What a stored PASS means is spread over them, so *)
(* the invariant follows a row through the three (RowInv), follows the     *)
(* workspace as long as every row so far is a PASS (DriftInv), and ties    *)
(* the stored rows to the rows that were judged (RecordInv, MacInv).       *)
(***************************************************************************)
EXTENDS Evaluation, FiniteSetTheorems, SequenceTheorems, TLAPS

-----------------------------------------------------------------------------
(* The agenda *)

\* A non-empty set of natural numbers has a least element.  What the loop over the
\* criteria has built is proved by looking at the first criterion after which it fails.
LEMMA LeastNumber ==
  ASSUME NEW T \in SUBSET Nat, T # {}
  PROVE  \E m \in T : \A k \in T : m <= k
<1> DEFINE I == {0 .. n : n \in T}
<1>1. I \subseteq FiniteSubsetsOf(Nat) /\ I # {}
  <2>1. \A n \in T : 0 .. n \in SUBSET Nat /\ IsFiniteSet(0 .. n)
    BY FS_Interval
  <2>2. QED BY <2>1 DEF FiniteSubsetsOf
<1>2. PICK x \in I : \A y \in I : ~(<<y, x>> \in StrictSubsetOrdering(Nat))
  <2> HIDE DEF I
  <2> QED BY <1>1, FS_StrictSubsetOrderingWellFounded, WFMin
<1>3. PICK m \in T : x = 0 .. m
  OBVIOUS
<1>4. ASSUME NEW k \in T, k < m PROVE FALSE
  <2>1. 0 .. k \in I /\ ~(<<0 .. k, 0 .. m>> \in StrictSubsetOrdering(Nat))
    BY <1>2, <1>3
  <2>2. 0 .. k \subseteq 0 .. m /\ m \in 0 .. m /\ m \notin 0 .. k
    BY <1>4
  <2>3. QED BY <2>1, <2>2 DEF StrictSubsetOrdering
<1>5. QED BY <1>4

\* The places of a list that belong to a criterion, and their number in two lists.
Places(s, c) == {i \in 1 .. Len(s) : s[i].crit = c}

LEMMA PlacesAdd ==
  ASSUME NEW S, NEW s \in Seq(S), NEW u \in Seq(S), NEW c
  PROVE  /\ IsFiniteSet(Places(s, c)) /\ Cardinality(Places(s, c)) \in Nat
         /\ Cardinality(Places(s \o u, c)) = Cardinality(Places(s, c)) + Cardinality(Places(u, c))
<1> DEFINE n == Len(s)
           P == Places(s, c)
           Q == Places(u, c)
           R == {n + j : j \in Q}
<1>1. n \in Nat /\ Len(u) \in Nat
  OBVIOUS
<1>2. /\ IsFiniteSet(P) /\ Cardinality(P) \in Nat
      /\ IsFiniteSet(Q) /\ Cardinality(Q) \in Nat
  <2>1. IsFiniteSet(1 .. n) /\ IsFiniteSet(1 .. Len(u))
    BY <1>1, FS_Interval
  <2>2. P \subseteq 1 .. n /\ Q \subseteq 1 .. Len(u)
    BY DEF Places
  <2>3. IsFiniteSet(P) /\ IsFiniteSet(Q)
    BY <2>1, <2>2, FS_Subset
  <2>4. QED BY <2>3, FS_CardinalityType
<1>3. Places(s \o u, c) = P \cup R
  <2>1. /\ Len(s \o u) = n + Len(u)
        /\ \A i \in 1 .. n + Len(u) : (s \o u)[i] = IF i <= n THEN s[i] ELSE u[i - n]
    BY ConcatProperties
  <2>2. ASSUME NEW i \in Places(s \o u, c) PROVE i \in P \cup R
    <3>1. i \in 1 .. n + Len(u) /\ (s \o u)[i].crit = c
      BY <2>1, <2>2 DEF Places
    <3>2. CASE i <= n
      BY <1>1, <2>1, <3>1, <3>2 DEF Places
    <3>3. CASE ~(i <= n)
      <4>1. i - n \in 1 .. Len(u) /\ u[i - n].crit = c /\ i = n + (i - n)
        BY <1>1, <2>1, <3>1, <3>3
      <4>2. i - n \in Q
        BY <4>1 DEF Places
      <4>3. QED BY <4>1, <4>2
    <3>4. QED BY <3>2, <3>3
  <2>3. ASSUME NEW i \in P PROVE i \in Places(s \o u, c)
    <3>1. i \in 1 .. n + Len(u) /\ i <= n /\ s[i].crit = c
      BY <1>1, <2>3 DEF Places
    <3>2. QED BY <2>1, <3>1 DEF Places
  <2>4. ASSUME NEW j \in Q PROVE n + j \in Places(s \o u, c)
    <3>1. j \in 1 .. Len(u) /\ u[j].crit = c
      BY <2>4 DEF Places
    <3>2. n + j \in 1 .. n + Len(u) /\ ~(n + j <= n) /\ (n + j) - n = j
      BY <1>1, <3>1
    <3>3. (s \o u)[n + j] = u[j]
      BY <2>1, <3>2
    <3>4. QED BY <2>1, <3>1, <3>2, <3>3 DEF Places
  <2>5. QED BY <2>2, <2>3, <2>4
<1>4. P \cap R = {}
  <2>1. \A j \in Q : j \in Nat /\ j > 0
    BY <1>1 DEF Places
  <2>2. \A i \in P : i \in Nat /\ i <= n
    BY <1>1 DEF Places
  <2>3. QED BY <1>1, <2>1, <2>2
<1>5. IsFiniteSet(R) /\ Cardinality(R) = Cardinality(Q)
  <2> DEFINE f == [j \in Q |-> n + j]
  <2>1. Q \subseteq Nat
    BY <1>1 DEF Places
  <2>2. f \in Bijection(Q, R)
    <3>1. f \in [Q -> R]
      OBVIOUS
    <3>2. IsInjective(f)
      BY <1>1, <2>1 DEF IsInjective
    <3>3. \A y \in R : \E j \in Q : f[j] = y
      OBVIOUS
    <3>4. QED BY <3>1, <3>2, <3>3 DEF Bijection, Injection, Surjection
  <2>3. ExistsBijection(Q, R)
    BY <2>2 DEF ExistsBijection
  <2>4. QED BY <1>2, <2>3, FS_Bijection
<1>6. Cardinality(P \cup R) = Cardinality(P) + Cardinality(R) - Cardinality(P \cap R)
  BY <1>2, <1>5, FS_Union
<1>7. Cardinality(P \cap R) = 0
  BY <1>4, FS_EmptySet
<1> HIDE DEF P, Q, R
<1>8. Cardinality(P \cup R) = Cardinality(P) + Cardinality(Q)
  BY <1>2, <1>5, <1>6, <1>7
<1>9. QED BY <1>2, <1>3, <1>8 DEF P, Q

\* The entries of an agenda.
Entries(t) == [crit : Range(t.criteria) \cup DOMAIN t.mapped \cup {None}, check : Checks \cup {None}]

\* The loop over the criteria adds the entries of one after the other.
LEMMA CriteriaSteps ==
  ASSUME NEW t, Len(t.criteria) \in Nat
  PROVE  \E upto : /\ upto[0] = <<>>
                   /\ \A i \in 1 .. Len(t.criteria) :
                        upto[i] = upto[i - 1] \o EntriesOf(t, t.criteria[i])
                   /\ CriteriaEntries(t) = upto[Len(t.criteria)]
<1> DEFINE n == Len(t.criteria)
           J(x, i) == x \o EntriesOf(t, t.criteria[i])
           e == <<>>
           Upto(g, m) == [i \in 0 .. m |-> IF i = 0 THEN e ELSE J(g[i - 1], i)]
           Bad == {m \in 0 .. n : ~ \E g : g = Upto(g, m)}
<1>1. CriteriaEntries(t) = (CHOOSE g : g = Upto(g, n))[n]
  BY DEF CriteriaEntries
<1> HIDE DEF J, e
<1>2. Bad = {}
  <2>1. SUFFICES ASSUME Bad # {} PROVE FALSE
    OBVIOUS
  <2>2. Bad \in SUBSET Nat
    OBVIOUS
  <2>3. PICK m \in Bad : \A k \in Bad : m <= k
    <3> HIDE DEF Bad
    <3> QED BY <2>1, <2>2, LeastNumber
  <2>4. m \in 0 .. n /\ ~ \E g : g = Upto(g, m)
    OBVIOUS
  <2>5. m # 0
    <3>1. SUFFICES ASSUME m = 0 PROVE FALSE
      OBVIOUS
    <3> DEFINE g == [i \in 0 .. 0 |-> e]
    <3>2. \A i \in 0 .. 0 : i = 0
      OBVIOUS
    <3>3. g = Upto(g, 0)
      BY <3>2
    <3>4. QED BY <2>4, <3>1, <3>3
  <2>6. m - 1 \in 0 .. n /\ m \in Nat
    BY <2>4, <2>5
  <2>7. m - 1 \notin Bad
    BY <2>3, <2>6
  <2>8. PICK g : g = Upto(g, m - 1)
    BY <2>6, <2>7
  <2> DEFINE h == [i \in 0 .. m |-> IF i <= m - 1 THEN g[i] ELSE J(g[m - 1], m)]
  <2>9. \A i \in 0 .. (m - 1) : g[i] = IF i = 0 THEN e ELSE J(g[i - 1], i)
    BY <2>8
  <2>10. \A i \in 0 .. m : h[i] = IF i = 0 THEN e ELSE J(h[i - 1], i)
    <3>1. SUFFICES ASSUME NEW i \in 0 .. m PROVE h[i] = IF i = 0 THEN e ELSE J(h[i - 1], i)
      OBVIOUS
    <3>2. CASE i = 0
      BY <2>5, <2>6, <2>9, <3>2
    <3>3. CASE i # 0
      <4>1. i - 1 \in 0 .. (m - 1) /\ h[i - 1] = g[i - 1]
        BY <2>6, <3>3
      <4>2. CASE i <= m - 1
        <5>1. h[i] = g[i] /\ i \in 0 .. (m - 1)
          BY <2>6, <4>2
        <5>2. QED BY <2>9, <3>3, <4>1, <5>1
      <4>3. CASE i = m
        BY <2>6, <3>3, <4>1, <4>3
      <4>4. QED BY <2>6, <4>2, <4>3
    <3>4. QED BY <3>2, <3>3
  <2>11. h = Upto(h, m)
    BY <2>10
  <2>12. QED BY <2>4, <2>11
<1>3. \E g : g = Upto(g, n)
  BY <1>2
<1> DEFINE upto == CHOOSE g : g = Upto(g, n)
<1>4. upto = Upto(upto, n)
  BY <1>3
<1> HIDE DEF upto
<1>5. \A i \in 0 .. n : upto[i] = IF i = 0 THEN e ELSE J(upto[i - 1], i)
  BY <1>4
<1>6. upto[0] = e /\ \A i \in 1 .. n : upto[i] = J(upto[i - 1], i)
  BY <1>5
<1>7. CriteriaEntries(t) = upto[n]
  BY <1>1 DEF upto
<1>8. QED BY <1>6, <1>7 DEF J, e

\* A criterion has its checks as entries, or a gap, and all of them are its own.
LEMMA EntriesOfOne ==
  ASSUME NEW t \in Tasks, NEW c \in Range(t.criteria)
  PROVE  LET s == EntriesOf(t, c) IN
         /\ s \in Seq(Entries(t)) /\ Len(s) \in Nat \ {0} /\ \A i \in 1 .. Len(s) : s[i].crit = c
         /\ Places(s, c) = 1 .. Len(s) /\ \A d : d # c => Places(s, d) = {}
         /\ s[1].check # None => c \in DOMAIN t.mapped /\ t.mapped[c] # <<>> /\ Len(s) = Len(t.mapped[c])
<1> DEFINE s == EntriesOf(t, c)
<1>0. /\ s \in Seq(Entries(t)) /\ Len(s) \in Nat \ {0} /\ \A i \in 1 .. Len(s) : s[i].crit = c
      /\ s[1].check # None => c \in DOMAIN t.mapped /\ t.mapped[c] # <<>> /\ Len(s) = Len(t.mapped[c])
  <2>1. CASE c \in DOMAIN t.mapped /\ t.mapped[c] # <<>>
    <3> DEFINE q == t.mapped[c]
    <3>1. q \in Seq(Checks) /\ q # <<>>
      BY <2>1, TaskAssumption
    <3>2. s = [i \in DOMAIN q |-> [crit |-> c, check |-> q[i]]]
      BY <2>1 DEF EntriesOf
    <3> HIDE DEF s, q
    <3>3. Len(q) \in Nat \ {0} /\ DOMAIN q = 1 .. Len(q) /\ \A i \in 1 .. Len(q) : q[i] \in Checks
      BY <3>1
    <3>4. \A i \in 1 .. Len(q) : [crit |-> c, check |-> q[i]] \in Entries(t)
      BY <3>3 DEF Entries
    <3>5. s \in Seq(Entries(t)) /\ Len(s) = Len(q)
      BY <3>2, <3>3, <3>4
    <3>6. \A i \in 1 .. Len(s) : s[i].crit = c
      BY <3>2, <3>3, <3>5
    <3>7. QED BY <2>1, <3>1, <3>3, <3>5, <3>6 DEF q
  <2>2. CASE ~(c \in DOMAIN t.mapped /\ t.mapped[c] # <<>>)
    <3>1. s = <<Gap(c)>>
      BY <2>2 DEF EntriesOf
    <3>2. Gap(c) \in Entries(t) /\ Gap(c).crit = c /\ Gap(c).check = None
      BY DEF Gap, Entries
    <3> HIDE DEF s
    <3>3. s \in Seq(Entries(t)) /\ Len(s) = 1 /\ s[1] = Gap(c)
      BY <3>1, <3>2
    <3>4. \A i \in 1 .. Len(s) : s[i].crit = c
      BY <3>2, <3>3
    <3>5. QED BY <3>2, <3>3, <3>4
  <2>3. QED BY <2>1, <2>2
<1> HIDE DEF s
<1>1. Places(s, c) = 1 .. Len(s) /\ \A d : d # c => Places(s, d) = {}
  BY <1>0 DEF Places
<1>2. QED BY <1>0, <1>1 DEF s

\* How often a criterion is among the first n.
Among(t, n, c) == {i \in 1 .. n : t.criteria[i] = c}

LEMMA AmongAdd ==
  ASSUME NEW t, NEW n \in Nat \ {0}, NEW c
  PROVE  /\ Cardinality(Among(t, n - 1, c)) \in Nat
         /\ Cardinality(Among(t, n, c)) = Cardinality(Among(t, n - 1, c)) + (IF t.criteria[n] = c THEN 1 ELSE 0)
<1> DEFINE A == Among(t, n - 1, c)
<1>1. IsFiniteSet(A) /\ Cardinality(A) \in Nat
  <2>1. A \subseteq 1 .. (n - 1) /\ IsFiniteSet(1 .. (n - 1))
    BY FS_Interval DEF Among
  <2>2. IsFiniteSet(A)
    BY <2>1, FS_Subset
  <2>3. QED BY <2>2, FS_CardinalityType
<1>2. n \notin A
  BY DEF Among
<1>3. CASE t.criteria[n] = c
  <2>1. Among(t, n, c) = A \cup {n}
    BY <1>3 DEF Among
  <2>2. Cardinality(A \cup {n}) = Cardinality(A) + 1
    BY <1>1, <1>2, FS_AddElement
  <2>3. QED BY <1>1, <1>3, <2>1, <2>2
<1>4. CASE t.criteria[n] # c
  <2>1. Among(t, n, c) = A
    BY <1>4 DEF Among
  <2>2. QED BY <1>1, <1>4, <2>1
<1>5. QED BY <1>3, <1>4

\* What holds of the entries x of the first n criteria.
Listing(t, n, x) ==
  /\ x \in Seq(Entries(t))
  /\ \A c \in Range(t.criteria) :
       Cardinality(Places(x, c)) = Cardinality(Among(t, n, c)) * Len(EntriesOf(t, c))
  /\ \A k \in 1 .. n : \E j \in 1 .. Len(x) : x[j] = EntriesOf(t, t.criteria[k])[1]

LEMMA NothingListed ==
  ASSUME NEW t \in Tasks
  PROVE  Listing(t, 0, <<>>)
<1>1. <<>> \in Seq(Entries(t)) /\ Len(<<>>) = 0
  OBVIOUS
<1>2. ASSUME NEW c \in Range(t.criteria)
      PROVE  Cardinality(Places(<<>>, c)) = Cardinality(Among(t, 0, c)) * Len(EntriesOf(t, c))
  <2>1. Places(<<>>, c) = {} /\ Among(t, 0, c) = {}
    BY <1>1 DEF Places, Among
  <2>2. Len(EntriesOf(t, c)) \in Nat
    BY EntriesOfOne
  <2>3. Cardinality(Places(<<>>, c)) = 0 /\ Cardinality(Among(t, 0, c)) = 0
    BY <2>1, FS_EmptySet
  <2>4. QED BY <2>2, <2>3
<1>3. QED BY <1>1, <1>2 DEF Listing

LEMMA OneMoreListed ==
  ASSUME NEW t \in Tasks, NEW n \in 1 .. Len(t.criteria), NEW x, Listing(t, n - 1, x)
  PROVE  Listing(t, n, x \o EntriesOf(t, t.criteria[n]))
<1> DEFINE d == t.criteria[n]
           s == EntriesOf(t, d)
           y == x \o s
<1>1. n \in Nat \ {0} /\ d \in Range(t.criteria)
  BY TaskAssumption DEF Range
<1>2. /\ s \in Seq(Entries(t)) /\ Len(s) \in Nat \ {0} /\ Places(s, d) = 1 .. Len(s)
      /\ \A c : c # d => Places(s, c) = {}
  BY <1>1, EntriesOfOne
<1>3. x \in Seq(Entries(t)) /\ Len(x) \in Nat
  BY DEF Listing
<1> HIDE DEF d, s
<1>4. /\ y \in Seq(Entries(t)) /\ Len(y) = Len(x) + Len(s)
      /\ \A i \in 1 .. Len(x) + Len(s) : y[i] = IF i <= Len(x) THEN x[i] ELSE s[i - Len(x)]
  BY <1>2, <1>3, ConcatProperties
<1>5. ASSUME NEW c \in Range(t.criteria)
      PROVE  Cardinality(Places(y, c)) = Cardinality(Among(t, n, c)) * Len(EntriesOf(t, c))
  <2> DEFINE a == Cardinality(Among(t, n - 1, c))
             l == Len(EntriesOf(t, c))
  <2>1. Cardinality(Places(y, c)) = Cardinality(Places(x, c)) + Cardinality(Places(s, c))
    BY <1>2, <1>3, PlacesAdd
  <2>2. Cardinality(Places(x, c)) = a * l
    BY DEF Listing
  <2>3. l \in Nat
    BY EntriesOfOne
  <2>4. a \in Nat /\ Cardinality(Among(t, n, c)) = a + (IF d = c THEN 1 ELSE 0)
    BY <1>1, AmongAdd DEF d
  <2>5. d = c => s = EntriesOf(t, c)
    BY DEF s
  <2> HIDE DEF a, l
  <2>6. CASE d = c
    <3>1. Cardinality(Places(s, c)) = l
      <4>1. Places(s, c) = 1 .. Len(s) /\ Len(s) = l
        BY <1>2, <2>5, <2>6 DEF l
      <4>2. Cardinality(1 .. l) = l
        BY <2>3, FS_Interval
      <4>3. QED BY <4>1, <4>2
    <3>2. Cardinality(Among(t, n, c)) = a + 1
      BY <2>4, <2>6
    <3>3. (a + 1) * l = a * l + l
      BY <2>3, <2>4
    <3>4. QED BY <2>1, <2>2, <3>1, <3>2, <3>3 DEF l
  <2>7. CASE d # c
    <3>1. Cardinality(Places(s, c)) = 0
      BY <1>2, <2>7, FS_EmptySet
    <3>2. Cardinality(Among(t, n, c)) = a
      BY <2>4, <2>7
    <3>3. a * l \in Nat
      BY <2>3, <2>4
    <3>4. QED BY <2>1, <2>2, <3>1, <3>2, <3>3 DEF l
  <2>8. QED BY <2>6, <2>7
<1>6. ASSUME NEW k \in 1 .. n PROVE \E j \in 1 .. Len(y) : y[j] = EntriesOf(t, t.criteria[k])[1]
  <2>1. CASE k = n
    <3>1. Len(x) + 1 \in 1 .. Len(x) + Len(s) /\ y[Len(x) + 1] = s[1]
      BY <1>2, <1>3, <1>4
    <3>2. QED BY <1>4, <2>1, <3>1 DEF s, d
  <2>2. CASE k # n
    <3>1. k \in 1 .. n - 1
      BY <1>1, <2>2
    <3>2. PICK j \in 1 .. Len(x) : x[j] = EntriesOf(t, t.criteria[k])[1]
      BY <3>1 DEF Listing
    <3>3. j \in 1 .. Len(x) + Len(s) /\ y[j] = x[j]
      BY <1>2, <1>3, <1>4, <3>2
    <3>4. QED BY <1>4, <3>2, <3>3
  <2>3. QED BY <2>1, <2>2
<1> HIDE DEF y
<1>7. Listing(t, n, y)
  BY <1>4, <1>5, <1>6 DEF Listing
<1>8. QED BY <1>7 DEF y, s, d

LEMMA AllListed ==
  ASSUME NEW t \in Tasks
  PROVE  Listing(t, Len(t.criteria), CriteriaEntries(t))
<1>1. Len(t.criteria) \in Nat
  BY TaskAssumption
<1> DEFINE n == Len(t.criteria)
<1>2. PICK upto : /\ upto[0] = <<>>
                  /\ \A i \in 1 .. n : upto[i] = upto[i - 1] \o EntriesOf(t, t.criteria[i])
                  /\ CriteriaEntries(t) = upto[n]
  BY <1>1, CriteriaSteps
<1> DEFINE Bad == {m \in 0 .. n : ~Listing(t, m, upto[m])}
<1>3. Bad = {}
  <2>1. SUFFICES ASSUME Bad # {} PROVE FALSE
    OBVIOUS
  <2>2. PICK m \in Bad : \A k \in Bad : m <= k
    <3>1. Bad \in SUBSET Nat
      OBVIOUS
    <3> HIDE DEF Bad
    <3>2. QED BY <2>1, <3>1, LeastNumber
  <2>3. m \in 0 .. n /\ ~Listing(t, m, upto[m])
    OBVIOUS
  <2>4. m # 0
    BY <1>2, <2>3, NothingListed
  <2>5. m \in 1 .. n /\ m - 1 \in 0 .. n /\ m - 1 < m
    BY <1>1, <2>3, <2>4
  <2>6. Listing(t, m - 1, upto[m - 1])
    <3>1. m - 1 \notin Bad
      <4> HIDE DEF Bad
      <4> QED BY <1>1, <2>2, <2>5
    <3>2. QED BY <2>5, <3>1
  <2>7. Listing(t, m, upto[m - 1] \o EntriesOf(t, t.criteria[m]))
    BY <2>5, <2>6, OneMoreListed
  <2>8. QED BY <1>2, <2>3, <2>5, <2>7
<1>4. n \in 0 .. n
  BY <1>1
<1>5. QED BY <1>2, <1>3, <1>4

\* The rest of the agenda is of no criterion of the Task.
Rest(t) == SetToSeq({Gap(c) : c \in DOMAIN t.mapped \ Range(t.criteria)})
Legacy(t) == IF t.given THEN <<>> ELSE t.commands
Bare(t) == [i \in DOMAIN Legacy(t) |-> [crit |-> None, check |-> Legacy(t)[i]]]

LEMMA RestIsElsewhere ==
  ASSUME NEW t \in Tasks
  PROVE  /\ Rest(t) \in Seq(Entries(t)) /\ Bare(t) \in Seq(Entries(t))
         /\ \A c \in Range(t.criteria) : Places(Rest(t), c) = {} /\ Places(Bare(t), c) = {}
<1> DEFINE D == DOMAIN t.mapped \ Range(t.criteria)
           G == {Gap(c) : c \in D}
<1>1. IsFiniteSet(G)
  <2>1. IsFiniteSet(D)
    BY TaskAssumption, FS_Subset
  <2> DEFINE f == [c \in D |-> Gap(c)]
  <2> HIDE DEF D
  <2>2. f \in Surjection(D, G)
    BY DEF Surjection
  <2>3. QED BY <2>1, <2>2, FS_Surjection
<1>2. \A g \in G : g \in Entries(t) /\ g.crit \notin Range(t.criteria)
  BY DEF Gap, Entries
<1> HIDE DEF G
<1>3. Rest(t) \in [1 .. Cardinality(G) -> G] /\ Cardinality(G) \in Nat
  <2>1. Cardinality(G) \in Nat /\ ExistsBijection(1 .. Cardinality(G), G)
    BY <1>1, FS_CardinalityType
  <2>2. \E f \in [1 .. Cardinality(G) -> G] : IsInjective(f)
    BY <2>1 DEF ExistsBijection, Bijection, Injection
  <2>3. Rest(t) = CHOOSE f \in [1 .. Cardinality(G) -> G] : IsInjective(f)
    BY DEF Rest, SetToSeq, G
  <2>4. QED BY <2>1, <2>2, <2>3
<1> HIDE DEF D
<1>4. /\ Rest(t) \in Seq(Entries(t))
      /\ \A i \in 1 .. Len(Rest(t)) : Rest(t)[i].crit \notin Range(t.criteria)
  BY <1>2, <1>3
<1>5. /\ Bare(t) \in Seq(Entries(t))
      /\ \A i \in 1 .. Len(Bare(t)) : Bare(t)[i].crit = None
  <2> DEFINE q == Legacy(t)
  <2>1. q \in Seq(Checks)
    BY TaskAssumption DEF Legacy
  <2>2. Bare(t) = [i \in DOMAIN q |-> [crit |-> None, check |-> q[i]]]
    BY DEF Bare
  <2> HIDE DEF q
  <2>3. Len(q) \in Nat /\ DOMAIN q = 1 .. Len(q) /\ \A i \in 1 .. Len(q) : q[i] \in Checks
    BY <2>1
  <2>4. \A i \in 1 .. Len(q) : [crit |-> None, check |-> q[i]] \in Entries(t)
    BY <2>3 DEF Entries
  <2>5. Bare(t) \in Seq(Entries(t)) /\ Len(Bare(t)) = Len(q)
    BY <2>2, <2>3, <2>4
  <2>6. QED BY <2>2, <2>3, <2>5
<1>6. None \notin Range(t.criteria)
  BY TaskAssumption
<1>7. QED BY <1>4, <1>5, <1>6 DEF Places

\* The agenda is a list of entries.
LEMMA AgendaTyped ==
  ASSUME NEW t \in Tasks
  PROVE  /\ Agenda(t) \in Seq(Entries(t)) /\ Len(Agenda(t)) \in Nat
         /\ \A i \in 1 .. Len(Agenda(t)) : Agenda(t)[i].check \in Checks \cup {None}
<1> DEFINE all == CriteriaEntries(t) \o Rest(t) \o Bare(t)
<1>1. Agenda(t) = IF all = <<>> THEN <<Gap(None)>> ELSE all
  BY DEF Agenda, Rest, Bare, Legacy
<1>2. all \in Seq(Entries(t))
  <2>1. CriteriaEntries(t) \in Seq(Entries(t))
    BY AllListed DEF Listing
  <2>2. QED BY <2>1, RestIsElsewhere, ConcatProperties
<1>3. Gap(None) \in Entries(t)
  BY DEF Gap, Entries
<1> HIDE DEF all
<1>4. Agenda(t) \in Seq(Entries(t))
  BY <1>1, <1>2, <1>3
<1>5. \A i \in 1 .. Len(Agenda(t)) : Agenda(t)[i] \in Entries(t)
  BY <1>4
<1>6. QED BY <1>4, <1>5 DEF Entries

\* A criterion has as many entries as it has checks, each time it is listed, and its
\* first entry, which may be its gap, is there.
LEMMA AgendaCovers ==
  ASSUME NEW t \in Tasks, NEW c \in Range(t.criteria)
  PROVE  /\ IsFiniteSet(Places(Agenda(t), c))
         /\ Cardinality(Places(Agenda(t), c)) = Listed(t, c) * Len(EntriesOf(t, c))
         /\ \E j \in 1 .. Len(Agenda(t)) : Agenda(t)[j] = EntriesOf(t, c)[1]
<1> DEFINE x == CriteriaEntries(t)
           y == x \o Rest(t)
           all == y \o Bare(t)
           n == Len(t.criteria)
<1>1. n \in Nat /\ DOMAIN t.criteria = 1 .. n
  BY TaskAssumption
<1>2. Listing(t, n, x)
  BY AllListed
<1>3. x \in Seq(Entries(t)) /\ Rest(t) \in Seq(Entries(t)) /\ Bare(t) \in Seq(Entries(t))
  BY <1>2, RestIsElsewhere DEF Listing
<1>4. PICK k \in 1 .. n : t.criteria[k] = c
  BY <1>1 DEF Range
<1>5. PICK j \in 1 .. Len(x) : x[j] = EntriesOf(t, c)[1]
  BY <1>2, <1>4 DEF Listing
<1>6. Agenda(t) = IF all = <<>> THEN <<Gap(None)>> ELSE all
  BY DEF Agenda, Rest, Bare, Legacy
<1> HIDE DEF x
<1>7. y \in Seq(Entries(t)) /\ j \in 1 .. Len(y) /\ y[j] = x[j]
  <2>1. /\ y \in Seq(Entries(t)) /\ Len(y) = Len(x) + Len(Rest(t))
        /\ \A i \in 1 .. Len(x) + Len(Rest(t)) : y[i] = IF i <= Len(x) THEN x[i] ELSE Rest(t)[i - Len(x)]
    BY <1>3, ConcatProperties
  <2>2. Len(x) \in Nat /\ Len(Rest(t)) \in Nat
    BY <1>3
  <2>3. j \in 1 .. Len(x) + Len(Rest(t)) /\ j <= Len(x)
    BY <1>5, <2>2
  <2> HIDE DEF y
  <2>4. QED BY <2>1, <2>3
<1>8. Cardinality(Places(y, c)) = Cardinality(Places(x, c)) + Cardinality(Places(Rest(t), c))
  BY <1>3, PlacesAdd
<1> HIDE DEF y
<1>9. all \in Seq(Entries(t)) /\ j \in 1 .. Len(all) /\ all[j] = y[j]
  <2>1. /\ all \in Seq(Entries(t)) /\ Len(all) = Len(y) + Len(Bare(t))
        /\ \A i \in 1 .. Len(y) + Len(Bare(t)) : all[i] = IF i <= Len(y) THEN y[i] ELSE Bare(t)[i - Len(y)]
    BY <1>3, <1>7, ConcatProperties
  <2>2. Len(y) \in Nat /\ Len(Bare(t)) \in Nat
    BY <1>3, <1>7
  <2>3. j \in 1 .. Len(y) + Len(Bare(t)) /\ j <= Len(y)
    BY <1>7, <2>2
  <2> HIDE DEF all
  <2>4. QED BY <2>1, <2>3
<1>10. Cardinality(Places(all, c)) = Cardinality(Places(y, c)) + Cardinality(Places(Bare(t), c))
  BY <1>3, <1>7, PlacesAdd
<1>11. Cardinality(Places(Rest(t), c)) = 0 /\ Cardinality(Places(Bare(t), c)) = 0
  BY RestIsElsewhere, FS_EmptySet
<1>12. Cardinality(Places(x, c)) \in Nat /\ IsFiniteSet(Places(all, c))
  BY <1>3, <1>9, PlacesAdd
<1>13. Cardinality(Places(x, c)) = Cardinality(Among(t, n, c)) * Len(EntriesOf(t, c))
  BY <1>2 DEF Listing, x
<1>14. Among(t, n, c) = {i \in DOMAIN t.criteria : t.criteria[i] = c}
  BY <1>1 DEF Among
<1> HIDE DEF all, n
<1>15. Agenda(t) = all
  BY <1>6, <1>9
<1>16. Cardinality(Places(all, c)) = Cardinality(Places(x, c))
  BY <1>8, <1>10, <1>11, <1>12
<1>17. QED BY <1>5, <1>7, <1>9, <1>12, <1>13, <1>14, <1>15, <1>16 DEF Listed

-----------------------------------------------------------------------------
(* Types *)

Tree == Trees \cup {None}
Crits == {None} \cup UNION {{Agenda(t)[i].crit : i \in 1 .. Len(Agenda(t))} : t \in Tasks}
KeyType == {"k1", "k2", "dev", "missing"}
Classes == {"execution", "verification"}
Oracles == Checks \cup {None}
Verifiers == {"sdf-evaluator", None}
PayloadType == [crit : Crits, status : Statuses, artifact : Nat \cup {None}, tree : Tree,
                class : Classes, subject : Tree, oracle : Oracles, verifier : Verifiers,
                hidden : BOOLEAN, mode : {None, "synthetic"}, zone : {"utc"}]
RowType == [class : Classes, crit : Crits, status : Statuses, hidden : BOOLEAN, after : Tree,
            stale : BOOLEAN, sound : BOOLEAN, judged : Tree, subject : Tree, bound : Tree,
            artifact : Nat \cup {None}, oracle : Oracles, verifier : Verifiers, mode : {None}, zone : {"utc"},
            mac : [key : KeyType, payload : PayloadType] \cup {None}]

Checking == {"check", "seal", "place", "run", "notary", "observe"}
Storing == {"record", "stamp"}
Evaluating == Checking \cup Storing
TypeOK ==
  /\ at \in {"begin", "agent", "close", "capture"} \cup Evaluating \cup Ended
  /\ task \in [status : {"running", "succeeded", "failed", "inconclusive"}, decl : Tasks]
  /\ fixture \in [oracle : Contents, subject : Contents, held : Contents]
  /\ workspace \in Trees
  /\ report \in [ok : BOOLEAN, tree : Tree]
  /\ rev \in [base : Tree, result : Tree]
  /\ diff \in Tree /\ sealed \in Tree
  /\ rows \in Seq(RowType) /\ next \in Nat \ {0}
  /\ pending \in SUBSET RowType /\ stored \in SUBSET RowType
  /\ key \in KeyType

-----------------------------------------------------------------------------
(* The inductive invariant *)

\* Nothing is committed before the end, the agenda is worked off in order, and the
\* diff that was captured is the one of the result tree.  The artifact of a row has been
\* flushed when the row is stamped.
PhaseInv ==
  /\ at \notin Ended => stored = {} /\ task.status = "running"
  /\ at \in {"begin", "agent", "close", "capture"} => rows = <<>> /\ pending = {} /\ next = 1
  /\ at = "capture" => workspace = rev.result
  /\ at \in Evaluating => diff = rev.result
  /\ at \in {"check", "seal", "place", "run", "notary"} => Len(rows) + 1 = next
  /\ at \in {"seal", "place", "run", "notary"} => next <= Len(Agenda(task.decl)) /\ Check # None
  /\ at = "check" => next <= Len(Agenda(task.decl)) + 1
  /\ at = "observe" => Len(rows) = next /\ next <= Len(Agenda(task.decl)) /\ Check # None
  /\ at \in Storing => Len(rows) = Len(Agenda(task.decl)) /\ next <= Len(rows) + 1
  /\ at = "stamp" => next <= Len(rows) /\ next \in flushed

\* A child has the suite of the check that is judged, said what such a suite can
\* say and ended as it can end; it ran in a copy.
ChildInv ==
  at = "notary" => /\ child.suite \in Suites(Check) /\ child.said \in Says(Check, child.suite)
                   /\ child.exit \in Exits(Check, child.suite, child.said)

\* A row is of its entry of the agenda and is bound to the revision; a PASS is of a
\* check, was earned on this host, and was accepted once the gate is passed.
RowInv ==
  at \in Evaluating => \A i \in DOMAIN rows :
    /\ rows[i].class = "verification" /\ rows[i].bound = rev.result /\ rows[i].subject = diff
    /\ rows[i].crit = Agenda(task.decl)[i].crit
    /\ rows[i].status = "PASS" =>
         /\ Agenda(task.decl)[i].check # None
         /\ Backend = "host" => rows[i].sound
         /\ at \in Storing => Acceptable(rows[i])

\* As long as every row is a PASS, no check has left another tree behind, and every
\* check judged the code of the result tree.
AllPass == \A i \in DOMAIN rows : rows[i].status = "PASS"
DriftInv ==
  at \in Evaluating /\ AllPass =>
    /\ at \in {"check", "seal", "place", "run"} => workspace = rev.result
    /\ at \in {"run", "notary"} => sealed.subject = rev.result.subject
    /\ \A i \in DOMAIN rows : /\ rows[i].judged.subject = rev.result.subject
                              /\ (at = "observe" /\ i = Len(rows)) \/ rows[i].after = rev.result

\* What is stored for row i, and what is stored so far.
Written(i) == Stamp([rows[i] EXCEPT !.artifact = i], {i})
RecordInv ==
  /\ at \in Checking => \A r \in pending : r.class # "verification"
  /\ at \in Storing =>
       /\ \A r \in pending : r.class = "verification" => \E i \in 1 .. next - 1 : r = Written(i)
       /\ \A i \in 1 .. next - 1 : Written(i) \in pending

\* A stored row carries the MAC of what it says and the result tree it is bound to,
\* and a PASS was earned.
MacInv ==
  \A r \in pending \cup stored :
    /\ r.mac = [key |-> r.mac.key, payload |-> Payload(r, r.artifact)]
    /\ r.bound = rev.result
    /\ Backend = "host" /\ r.class = "verification" /\ r.status = "PASS" => r.sound

\* A Task succeeds on one stored PASS for every entry of its agenda, on nothing else,
\* and on a hidden one if it declares a hidden oracle.
SuccessIsAccepted ==
  task.status = "succeeded" =>
    /\ task.decl.criteria # <<>>
    /\ \A r \in Verdicts : r.status = "PASS" /\ Acceptable(r)
    /\ \A i \in 1 .. Len(Agenda(task.decl)) :
         /\ Agenda(task.decl)[i].check # None
         /\ \E r \in Verdicts : r.artifact = i /\ r.crit = Agenda(task.decl)[i].crit
    /\ \A r \in Verdicts : /\ r.artifact \in 1 .. Len(Agenda(task.decl))
                          /\ r.crit = Agenda(task.decl)[r.artifact].crit
                          /\ \A q \in Verdicts : q.artifact = r.artifact => q = r
    /\ RequiresHidden(task.decl) => \E r \in Verdicts : r.hidden

IInv == /\ TypeOK /\ PhaseInv /\ ChildInv /\ RowInv /\ DriftInv /\ RecordInv /\ MacInv
        /\ PassDescribesTheRevision /\ SuccessIsAccepted

-----------------------------------------------------------------------------
(* Rows *)

\* A row of the Evaluator is typed, bound to the revision and fresh.
LEMMA RowTyped ==
  ASSUME TypeOK, next <= Len(Agenda(task.decl)), NEW status \in Statuses, NEW sound \in BOOLEAN,
         NEW judged \in Tree
  PROVE  LET r == Row(status, sound, judged) IN
         /\ r \in RowType
         /\ r.class = "verification" /\ r.crit = Entry.crit /\ r.status = status
         /\ r.sound = sound /\ r.judged = judged /\ r.bound = rev.result /\ r.subject = diff
<1>0. (IF judged = None THEN None ELSE Check) \in Oracles
  <2>1. task.decl \in Tasks /\ next \in 1 .. Len(Agenda(task.decl))
    BY AgendaTyped DEF TypeOK
  <2>2. QED BY <2>1, AgendaTyped DEF Check, Entry, Oracles
<1> DEFINE r == Row(status, sound, judged)
<1>1. task.decl \in Tasks /\ next \in 1 .. Len(Agenda(task.decl))
  BY AgendaTyped DEF TypeOK
<1>2. Entry.crit \in Crits
  BY <1>1 DEF Entry, Crits
<1>3. Hidden(Entry) \in BOOLEAN
  BY DEF Hidden
<1>4. r = [class |-> "verification", crit |-> Entry.crit, status |-> status, hidden |-> Hidden(Entry),
           after |-> None, stale |-> FALSE, sound |-> sound, judged |-> judged, subject |-> diff,
           bound |-> rev.result, artifact |-> None, oracle |-> IF judged = None THEN None ELSE Check,
           verifier |-> "sdf-evaluator", mode |-> None, zone |-> "utc", mac |-> None]
  BY DEF Row, Evidence
<1>5. diff \in Tree /\ rev.result \in Tree /\ None \in Tree
  BY DEF TypeOK, Tree
<1>6. r \in RowType
  BY <1>0, <1>2, <1>3, <1>4, <1>5 DEF RowType, Classes, Verifiers
<1>7. QED BY <1>4, <1>6

\* What is stored for a row says what the row says and has its MAC.
LEMMA StampTyped ==
  ASSUME key \in KeyType, NEW r \in RowType, NEW n \in Nat, NEW K, n \in K
  PROVE  LET z == Stamp([r EXCEPT !.artifact = n], K) IN
         /\ z \in RowType
         /\ z.artifact = n
         /\ z.class = r.class /\ z.crit = r.crit /\ z.status = r.status /\ z.hidden = r.hidden
         /\ z.after = r.after /\ z.stale = r.stale /\ z.sound = r.sound /\ z.judged = r.judged
         /\ z.subject = r.subject /\ z.bound = r.bound /\ z.oracle = r.oracle /\ z.verifier = r.verifier
         /\ z.mac = [key |-> key, payload |-> Payload(z, z.artifact)]
<1> DEFINE x == [r EXCEPT !.artifact = n]
<1> DEFINE p == Payload(x, n)
<1> DEFINE z == [x EXCEPT !.mac = [key |-> key, payload |-> p]]
<1>1. /\ x \in RowType /\ x.artifact = n
      /\ x.class = r.class /\ x.crit = r.crit /\ x.status = r.status /\ x.hidden = r.hidden
      /\ x.after = r.after /\ x.stale = r.stale /\ x.sound = r.sound /\ x.judged = r.judged
      /\ x.subject = r.subject /\ x.bound = r.bound /\ x.oracle = r.oracle /\ x.verifier = r.verifier
      /\ x.mode = r.mode /\ x.zone = r.zone
  BY DEF RowType
<1>2. p \in PayloadType
  <2>1. /\ x.crit \in Crits /\ x.status \in Statuses /\ n \in Nat \cup {None} /\ x.bound \in Tree
        /\ x.class \in Classes /\ x.subject \in Tree /\ x.hidden \in BOOLEAN /\ x.mode \in {None}
        /\ x.zone \in {"utc"} /\ x.oracle \in Oracles /\ x.verifier \in Verifiers
    BY <1>1 DEF RowType
  <2>2. QED BY <2>1 DEF Payload, PayloadType
<1> HIDE DEF p, x
<1>3. [key |-> key, payload |-> p] \in [key : KeyType, payload : PayloadType] \cup {None}
  BY <1>2
<1>4. /\ z \in RowType /\ z.artifact = x.artifact
      /\ z.class = x.class /\ z.crit = x.crit /\ z.status = x.status /\ z.hidden = x.hidden
      /\ z.after = x.after /\ z.stale = x.stale /\ z.sound = x.sound /\ z.judged = x.judged
      /\ z.subject = x.subject /\ z.bound = x.bound /\ z.oracle = x.oracle /\ z.verifier = x.verifier
      /\ z.mode = x.mode /\ z.zone = x.zone
      /\ z.mac = [key |-> key, payload |-> p]
  BY <1>1, <1>3 DEF RowType
<1> HIDE DEF z
<1>5. p = Payload(z, z.artifact)
  BY <1>1, <1>4 DEF p, Payload
<1>6. z = Stamp([r EXCEPT !.artifact = n], K)
  BY <1>1 DEF z, x, p, Stamp, Mac
<1>7. QED BY <1>1, <1>4, <1>5, <1>6

\* A row has the same payload when it is loaded again, whatever the database drops.
LEMMA LoadedIsTheSame ==
  ASSUME NEW r \in RowType
  PROVE  /\ Loaded(r).mac = r.mac /\ Loaded(r).artifact = r.artifact /\ Loaded(r).bound = r.bound
         /\ Payload(Loaded(r), r.artifact) = Payload(r, r.artifact)
<1> DEFINE z == Loaded(r)
<1>1. /\ z.mac = r.mac /\ z.artifact = r.artifact /\ z.bound = r.bound /\ z.crit = r.crit
      /\ z.status = r.status /\ z.class = r.class /\ z.subject = r.subject /\ z.hidden = r.hidden
      /\ z.oracle = r.oracle /\ z.verifier = r.verifier
      /\ z.mode = "synthetic" /\ z.zone \in {"utc", "naive"} /\ r.mode = None /\ r.zone = "utc"
  BY DEF Loaded, RowType
<1> HIDE DEF z
<1>2. Payload(z, r.artifact) = Payload(r, r.artifact)
  BY <1>1 DEF Payload
<1>3. QED BY <1>1, <1>2 DEF z

-----------------------------------------------------------------------------
(* Verdicts *)

\* Tests are counted one by one: none is counted exactly when there is none, and what
\* is counted as one result is not counted as another.
LEMMA CountZero ==
  ASSUME NEW n \in Nat, NEW s \in [1 .. n -> Results], NEW x
  PROVE  /\ Count(s, x) \in Nat
         /\ Count(s, x) = 0 => \A i \in 1 .. n : s[i] # x
         /\ Count(s, x) # 0 => \E i \in 1 .. n : s[i] = x
<1> DEFINE T == {i \in DOMAIN s : s[i] = x}
<1>1. IsFiniteSet(1 .. n)
  BY FS_Interval
<1>2. T \subseteq 1 .. n
  OBVIOUS
<1>3. IsFiniteSet(T)
  BY <1>1, <1>2, FS_Subset
<1>4. Cardinality(T) \in Nat /\ (Cardinality(T) = 0 <=> T = {})
  BY <1>3, FS_CardinalityType, FS_EmptySet
<1>5. QED BY <1>4 DEF Count

\* A PASS of pytest was earned, whatever the child said and however it ended.
LEMMA PytestEarned ==
  ASSUME NEW c \in Checks, NEW n \in Nat, NEW s \in [1 .. n -> Results], NEW said \in {Frame(s), None},
         NEW exit, NEW changed \in BOOLEAN, PytestVerdict(said, exit, Declares[c], changed) = "PASS"
  PROVE  Sound(c, s)
<1> DEFINE pass == Count(s, "pass")
<1> DEFINE fail == Count(s, "fail")
<1> DEFINE skip == Count(s, "skip")
<1> DEFINE cut == Count(s, "cut")
<1>1. pass \in Nat /\ fail \in Nat /\ skip \in Nat /\ cut \in Nat /\ Declares[c] \in Nat
  BY CountZero, EvaluationAssumption
<1>2. said = Frame(s)
  BY DEF PytestVerdict
<1>3. /\ said.passed = pass /\ said.failed = fail /\ said.skipped = skip
      /\ said.exit = 0 => fail + cut = 0
  BY <1>2 DEF Frame
<1>4. /\ ~(said.failed > 0) /\ ~(Declares[c] # 0 /\ Reported(said) < Declares[c])
      /\ said.passed # 0 /\ said.exit = 0
  BY DEF PytestVerdict
<1>5. fail = 0 /\ cut = 0 /\ pass # 0 /\ pass + skip >= Declares[c]
  <2> HIDE DEF pass, fail, skip, cut
  <2>1. Reported(said) = pass + fail + skip
    BY <1>3 DEF Reported
  <2>2. QED BY <1>1, <1>3, <1>4, <2>1
<1>6. \A i \in 1 .. n : s[i] \notin {"fail", "cut"}
  BY <1>5, CountZero
<1>7. \E i \in 1 .. n : s[i] = "pass"
  BY <1>5, CountZero
<1>8. QED BY <1>5, <1>6, <1>7 DEF Sound

\* A PASS on this host was earned.
LEMMA JudgedEarned ==
  ASSUME Backend = "host", NEW c \in Checks, NEW s \in Suites(c), NEW said \in Says(c, s),
         NEW exit \in Exits(c, s, said), NEW changed \in BOOLEAN, NEW status,
         Kind[c] = "pytest" => status = PytestVerdict(said, exit, Declares[c], changed),
         Kind[c] = "script" => status = ScriptVerdict(said, exit, changed),
         Kind[c] = "lint" => status = ExitVerdict(exit, changed),
         status = "PASS"
  PROVE  Sound(c, s)
<1>1. CASE Kind[c] = "pytest"
  <2>1. PICK n \in 0 .. MaxTests : s \in [1 .. n -> Results]
    BY <1>1 DEF Suites
  <2>2. n \in Nat /\ said \in {Frame(s), None}
    BY <1>1, EvaluationAssumption DEF Says
  <2>3. QED BY <1>1, <2>1, <2>2, PytestEarned
<1>2. CASE Kind[c] = "script"
  <2>1. said # None
    BY <1>2 DEF ScriptVerdict
  <2>2. s \in [{1} -> {"pass", "fail", "cut"}] /\ s[1] = "pass"
    BY <1>2, <2>1 DEF Suites, Says
  <2>3. QED BY <1>2, <2>2 DEF Sound
<1>3. CASE Kind[c] = "lint"
  <2>1. exit = 0
    BY <1>3 DEF ExitVerdict
  <2>2. s \in [{1} -> {"pass", "fail", "cut"}]
    BY <1>3 DEF Suites
  <2>3. Exits(c, s, said) = (IF s[1] = "pass" THEN {0} ELSE IF s[1] = "fail" THEN {1} ELSE {Signal, Hung})
    BY <1>3 DEF Exits
  <2>4. s[1] = "pass"
    BY <2>1, <2>3 DEF Signal, Hung
  <2>5. QED BY <1>3, <2>2, <2>4 DEF Sound
<1>4. QED BY <1>1, <1>2, <1>3, EvaluationAssumption

-----------------------------------------------------------------------------
(* The steps keep the invariant *)

\* Before the end of finish nothing is said of success.
LEMMA OpenKeeps ==
  ASSUME IInv, task'.status # "succeeded"
  PROVE  PassDescribesTheRevision' /\ SuccessIsAccepted'
BY DEF PassDescribesTheRevision, SuccessIsAccepted

\* The initial states: no row, no revision.
LEMMA InvInit == Init => IInv
<1> SUFFICES ASSUME Init PROVE IInv
  OBVIOUS
<1>1. TypeOK
  <2>1. Contents = 0 .. MaxContent /\ 0 \in Contents
    BY EvaluationAssumption DEF Contents
  <2>2. fixture \in [oracle : Contents, subject : Contents, held : Contents] /\ workspace \in Trees
    BY <2>1 DEF Init, Copy, Trees
  <2>3. /\ report \in [ok : BOOLEAN, tree : Tree] /\ rev \in [base : Tree, result : Tree]
        /\ diff \in Tree /\ sealed \in Tree
    BY DEF Init, Tree
  <2>4. rows \in Seq(RowType) /\ next \in Nat \ {0} /\ key \in KeyType
    BY DEF Init, KeyType
  <2>5. task \in [status : {"running", "succeeded", "failed", "inconclusive"}, decl : Tasks]
    BY DEF Init
  <2>6. QED BY <2>2, <2>3, <2>4, <2>5 DEF Init, TypeOK
<1>2. task.status = "running"
  BY DEF Init
<1>3. PhaseInv
  BY <1>2 DEF Init, PhaseInv, Evaluating, Storing, Checking, Ended
<1>4. ChildInv /\ RowInv /\ DriftInv /\ RecordInv
  BY DEF Init, ChildInv, RowInv, DriftInv, RecordInv, Evaluating, Storing, Checking
<1>5. MacInv
  BY DEF Init, MacInv
<1>6. PassDescribesTheRevision /\ SuccessIsAccepted
  BY <1>2 DEF PassDescribesTheRevision, SuccessIsAccepted
<1>7. QED BY <1>1, <1>3, <1>4, <1>5, <1>6 DEF IInv

\* The Attempt up to the close of its revision.
LEMMA EarlyKeeps ==
  ASSUME IInv, \/ Begin \/ Close \/ LateWrite
               \/ \E t \in Trees, ok, told \in BOOLEAN : AdapterReturns(t, ok, told)
  PROVE  IInv'
<1>a. /\ at \in {"begin", "agent", "close"} /\ at' \in {"agent", "close", "capture"}
      /\ UNCHANGED <<task, fixture, diff, sealed, child, rows, next, pending, stored, flushed, lost, key>>
  BY DEF Begin, Close, LateWrite, AdapterReturns, run, db
<1>b. workspace' \in Trees
  BY DEF IInv, TypeOK, Begin, Close, LateWrite, AdapterReturns, Copy, Trees
<1>c. report' \in [ok : BOOLEAN, tree : Tree]
  BY DEF IInv, TypeOK, Begin, Close, LateWrite, AdapterReturns, Tree
<1>d. rev' \in [base : Tree, result : Tree]
  BY DEF IInv, TypeOK, Begin, Close, LateWrite, AdapterReturns, Copy, Trees, Tree
<1>e. at' = "capture" => workspace' = rev'.result
  BY <1>a DEF IInv, TypeOK, Begin, Close, LateWrite, AdapterReturns
<1>1. TypeOK'
  BY <1>a, <1>b, <1>c, <1>d DEF IInv, TypeOK
<1>2. PhaseInv'
  BY <1>a, <1>e DEF IInv, PhaseInv, Evaluating, Storing, Checking, Ended
<1>3. ChildInv' /\ RowInv' /\ DriftInv' /\ RecordInv'
  BY <1>a DEF ChildInv, RowInv, DriftInv, RecordInv, Evaluating, Storing, Checking
<1>4. pending' = {} /\ stored' = {} /\ task'.status = "running"
  BY <1>a DEF IInv, PhaseInv, Ended
<1>5. MacInv'
  BY <1>4 DEF MacInv
<1>6. QED BY <1>1, <1>2, <1>3, <1>4, <1>5, OpenKeeps DEF IInv

\* The operator's edit of the fixture, a lost file, another key: no row changes.
LEMMA OutsideKeeps ==
  ASSUME IInv, \/ EditFixture \/ UNCHANGED vars
               \/ \E r \in stored : LoseFile(r)
               \/ \E k \in {"k1", "k2", "missing"} : Rekey(k)
  PROVE  IInv'
<1>a. /\ UNCHANGED <<at, task, workspace, report, rev, diff, sealed, child, rows, next, pending, stored, flushed>>
      /\ at \in Evaluating => key' = key
  BY DEF EditFixture, LoseFile, Rekey, vars, run, db, Evaluating, Storing, Checking, Ended
<1>b. key' \in KeyType
  BY DEF IInv, TypeOK, EditFixture, LoseFile, Rekey, vars, db, KeyType
<1>c. fixture' \in [oracle : Contents, subject : Contents, held : Contents]
  <2>1. 1 \in Contents
    BY EvaluationAssumption DEF Contents
  <2>2. QED BY <2>1 DEF IInv, TypeOK, EditFixture, LoseFile, Rekey, vars
<1>1. TypeOK'
  BY <1>a, <1>b, <1>c DEF IInv, TypeOK, Evaluating, Storing
<1>2. PhaseInv'
  BY <1>a DEF IInv, PhaseInv, Check, Entry
<1>3. ChildInv'
  BY <1>a DEF IInv, ChildInv, Check, Entry
<1>4. RowInv'
  BY <1>a DEF IInv, RowInv, Acceptable
<1>5. DriftInv'
  BY <1>a DEF IInv, DriftInv, AllPass
<1>6. RecordInv'
  <2>1. at \in Storing => \A i \in 1 .. next - 1 : Written(i)' = Written(i)
    BY <1>a DEF Written, Stamp, Mac, Evaluating, Storing
  <2>2. QED BY <1>a, <2>1 DEF IInv, RecordInv
<1>7. MacInv'
  BY <1>a DEF IInv, MacInv
<1>8. PassDescribesTheRevision' /\ SuccessIsAccepted'
  BY <1>a DEF IInv, PassDescribesTheRevision, SuccessIsAccepted, Verdicts, Acceptable
<1>9. QED BY <1>1, <1>2, <1>3, <1>4, <1>5, <1>6, <1>7, <1>8 DEF IInv

\* finish ends without success: what it has stored is as it was stamped.
LEMMA FailureKeeps ==
  ASSUME IInv, Refuse \/ Raise \/ Die
  PROVE  IInv'
<1>a. /\ at \notin Ended /\ at' \in {"failed", "dead"}
      /\ UNCHANGED <<fixture, workspace, report, diff, sealed, child, rows, next, key>>
      /\ pending' = {} /\ (stored' \subseteq pending \/ stored' = stored)
  BY DEF Refuse, Raise, Die, Fail, run, Ended
<1>b. /\ task' \in [status : {"running", "succeeded", "failed", "inconclusive"}, decl : Tasks]
      /\ task'.status # "succeeded"
  BY <1>a DEF IInv, TypeOK, PhaseInv, Refuse, Raise, Die, Fail
<1>c. /\ rev' \in [base : Tree, result : Tree]
      /\ rev' = rev \/ stored' = {}
  BY <1>a DEF IInv, TypeOK, PhaseInv, Refuse, Raise, Die, Tree
<1>1. TypeOK'
  BY <1>a, <1>b, <1>c DEF IInv, TypeOK, Ended
<1>2. PhaseInv' /\ ChildInv' /\ RowInv' /\ DriftInv' /\ RecordInv'
  BY <1>a DEF PhaseInv, ChildInv, RowInv, DriftInv, RecordInv, Evaluating, Storing, Checking, Ended
<1>3. MacInv'
  BY <1>a, <1>c DEF IInv, MacInv
<1>4. QED BY <1>1, <1>2, <1>3, <1>b, OpenKeeps DEF IInv

\* The execution row is stamped and bound; a failed adapter ends here.
LEMMA CaptureKeeps ==
  ASSUME IInv, Capture
  PROVE  IInv'
<1> DEFINE e == Evidence("execution", None, IF report.ok THEN "PASS" ELSE "FAIL", FALSE, None, FALSE, None)
<1> DEFINE x == [e EXCEPT !.artifact = 0, !.subject = workspace]
<1> DEFINE y == [e EXCEPT !.subject = workspace]
<1> DEFINE r == Stamp(x, {0})
<1>a. /\ at = "capture" /\ diff' = workspace /\ workspace = rev.result
      /\ UNCHANGED <<fixture, workspace, report, rev, sealed, child, rows, next, lost, key>>
      /\ rows = <<>> /\ pending = {} /\ stored = {} /\ next = 1 /\ task.status = "running"
  BY DEF IInv, PhaseInv, Capture, run, Ended
<1>b. \/ at' = "check" /\ pending' = {r} /\ UNCHANGED <<task, stored>>
      \/ at' = "failed" /\ stored' = {r} /\ task' = [task EXCEPT !.status = "failed"] /\ UNCHANGED pending
  BY DEF Capture
<1>c. e = [class |-> "execution", crit |-> None, status |-> IF report.ok THEN "PASS" ELSE "FAIL",
           hidden |-> FALSE, after |-> None, stale |-> FALSE, sound |-> FALSE, judged |-> None,
           subject |-> diff, bound |-> rev.result, artifact |-> None, oracle |-> None, verifier |-> None,
           mode |-> None, zone |-> "utc", mac |-> None]
  BY DEF Evidence
<1> HIDE DEF e
<1>d. y \in RowType /\ y.class = "execution" /\ y.bound = rev.result
  <2>1. workspace \in Tree /\ diff \in Tree /\ rev.result \in Tree /\ None \in Tree /\ None \in Crits
    BY DEF IInv, TypeOK, Tree, Crits
  <2>2. e \in RowType /\ e.class = "execution" /\ e.bound = rev.result
    BY <1>c, <2>1 DEF RowType, Classes, Statuses, Oracles, Verifiers
  <2>3. QED BY <2>1, <2>2 DEF RowType
<1>e. x = [y EXCEPT !.artifact = 0]
  BY <1>c
<1>f. r = Stamp([y EXCEPT !.artifact = 0], {0})
  BY <1>e
<1> HIDE DEF x, y, r
<1>g. /\ r \in RowType /\ r.class = "execution" /\ r.bound = rev.result
      /\ r.mac = [key |-> key, payload |-> Payload(r, r.artifact)]
  <2>1. key \in KeyType /\ 0 \in Nat
    BY DEF IInv, TypeOK
  <2>2. QED BY <1>d, <1>f, <2>1, StampTyped
<1>h. task' \in [status : {"running", "succeeded", "failed", "inconclusive"}, decl : Tasks] /\ task'.status # "succeeded"
  BY <1>a, <1>b DEF IInv, TypeOK
<1>1. TypeOK'
  BY <1>a, <1>b, <1>g, <1>h DEF IInv, TypeOK, Tree, Evaluating, Storing, Checking, Ended
<1>2. PhaseInv'
  <2>1. Len(rows') + 1 = next' /\ next' <= Len(Agenda(task.decl)) + 1
    BY <1>a, AgendaTyped DEF IInv, TypeOK
  <2>2. QED BY <1>a, <1>b, <2>1 DEF PhaseInv, Evaluating, Storing, Checking, Ended
<1>3. ChildInv' /\ RowInv'
  BY <1>a, <1>b DEF ChildInv, RowInv, Evaluating, Storing, Checking
<1>4. DriftInv'
  BY <1>a, <1>b DEF DriftInv, Evaluating, Storing, Checking
<1>5. RecordInv'
  BY <1>a, <1>b, <1>g DEF RecordInv, Evaluating, Storing, Checking
<1>6. MacInv'
  <2>1. \A z \in pending' \cup stored' : z = r
    BY <1>a, <1>b
  <2>2. r.mac = [key |-> r.mac.key, payload |-> Payload(r, r.artifact)]
    BY <1>g
  <2>3. QED BY <1>a, <1>g, <2>1, <2>2 DEF MacInv
<1>7. QED BY <1>1, <1>2, <1>3, <1>4, <1>5, <1>6, <1>h, OpenKeeps DEF IInv

\* A check is verified, sealed, placed and run: the rows wait, and the copy it runs
\* in holds the code of the workspace.
LEMMA RunKeeps ==
  ASSUME IInv, \/ (VerifyTargets /\ Trusted) \/ (Seal /\ Trusted) \/ Place
               \/ at = "run" /\ \E s \in Suites(Check) : \E said \in Says(Check, s) :
                    \E exit \in Exits(Check, s, said) : Run(s, said, exit)
  PROVE  IInv'
<1>a. /\ at \in {"check", "seal", "place", "run"} /\ at' \in {"seal", "place", "run", "notary"}
      /\ next <= Len(Agenda(task.decl)) /\ Check # None
      /\ UNCHANGED <<task, fixture, report, rev, diff, rows, next, pending, stored, flushed, lost, key>>
  BY DEF VerifyTargets, Enter, Seal, Place, Run, run, db, IInv, PhaseInv
<1>b. /\ at' \in {"seal", "place", "run"} => workspace' = workspace
      /\ workspace' \in Trees
  BY DEF VerifyTargets, Seal, Place, Run, IInv, TypeOK, Trees
<1>c. sealed' \in Tree
  <2>1. [oracle |-> OracleOf(Check), subject |-> workspace.subject] \in Trees /\ workspace \in Trees
    BY DEF IInv, TypeOK, OracleOf, Trees
  <2>2. CASE Place
    BY <2>1, <2>2 DEF Place, Tree
  <2>3. CASE ~Place
    BY <2>3 DEF VerifyTargets, Seal, Run, run, IInv, TypeOK
  <2>4. QED BY <2>2, <2>3
<1>d. at = "run" => sealed' = sealed
  BY DEF VerifyTargets, Enter, Seal, Place, Run, run
<1>1. TypeOK'
  BY <1>a, <1>b, <1>c DEF IInv, TypeOK, Evaluating, Storing, Checking
<1>2. PhaseInv'
  BY <1>a DEF IInv, PhaseInv, Evaluating, Storing, Checking, Ended, Check, Entry
<1>3. ChildInv'
  <2>1. SUFFICES ASSUME at' = "notary"
                 PROVE  /\ child'.suite \in Suites(Check) /\ child'.said \in Says(Check, child'.suite)
                        /\ child'.exit \in Exits(Check, child'.suite, child'.said)
    BY <1>a DEF ChildInv, Check, Entry
  <2>2. PICK s \in Suites(Check) : \E said \in Says(Check, s) :
          \E exit \in Exits(Check, s, said) : Run(s, said, exit)
    BY <2>1 DEF VerifyTargets, Seal, Place
  <2>3. PICK said \in Says(Check, s) : \E exit \in Exits(Check, s, said) : Run(s, said, exit)
    BY <2>2
  <2>4. PICK exit \in Exits(Check, s, said) : Run(s, said, exit)
    BY <2>3
  <2>5. child' = [suite |-> s, said |-> said, exit |-> exit]
    BY <2>4 DEF Run
  <2>6. child'.suite = s /\ child'.said = said /\ child'.exit = exit
    BY <2>5
  <2>7. QED BY <2>6
<1>4. RowInv'
  BY <1>a DEF IInv, RowInv, Evaluating, Storing, Checking
<1>5. DriftInv'
  <2>1. at \in Evaluating /\ at' \in Evaluating /\ AllPass' = AllPass
    BY <1>a DEF Evaluating, Storing, Checking, AllPass
  <2>2. CASE AllPass
    <3>1. workspace = rev.result
      BY <1>a, <2>1, <2>2 DEF IInv, DriftInv
    <3>2. at' = "run" => workspace' = workspace /\ sealed'.subject = workspace.subject
      <4>1. SUFFICES ASSUME at' = "run" PROVE workspace' = workspace /\ sealed'.subject = workspace.subject
        OBVIOUS
      <4>2. Place
        BY <4>1 DEF VerifyTargets, Seal, Run
      <4>3. QED BY <4>2 DEF Place
    <3>3. at = "run" => sealed'.subject = rev.result.subject
      BY <1>d, <2>1, <2>2 DEF IInv, DriftInv
    <3>4. at' = "notary" => at = "run"
      BY DEF VerifyTargets, Seal, Place, Run
    <3>5. at' \in {"run", "notary"} => sealed'.subject = rev.result.subject
      BY <3>1, <3>2, <3>3, <3>4
    <3>6. \A i \in DOMAIN rows : rows[i].judged.subject = rev.result.subject /\ rows[i].after = rev.result
      BY <1>a, <2>1, <2>2 DEF IInv, DriftInv
    <3>7. QED BY <1>a, <1>b, <3>1, <3>5, <3>6 DEF DriftInv
  <2>3. QED BY <2>1, <2>2 DEF DriftInv
<1>6. RecordInv'
  BY <1>a DEF IInv, RecordInv, Evaluating, Storing, Checking
<1>7. MacInv'
  BY <1>a DEF IInv, MacInv
<1>8. task'.status # "succeeded"
  BY <1>a DEF IInv, PhaseInv, Ended
<1>9. QED BY <1>1, <1>2, <1>3, <1>4, <1>5, <1>6, <1>7, <1>8, OpenKeeps DEF IInv

\* A check concludes: the row is of the entry that was checked, and a PASS is earned
\* and of the code of the result tree if nothing has drifted so far.
LEMMA ConcludeKeeps ==
  ASSUME IInv, at \in {"check", "seal", "notary"}, next <= Len(Agenda(task.decl)), Check # None,
         NEW status \in Statuses, NEW sound \in BOOLEAN, NEW judged \in Tree,
         status = "PASS" => /\ Backend = "host" => sound
                            /\ AllPass => judged.subject = rev.result.subject,
         Conclude(Row(status, sound, judged))
  PROVE  IInv'
<1> DEFINE r == Row(status, sound, judged)
<1>a. /\ rows' = Append(rows, r) /\ at' = "observe" /\ sealed' = None
      /\ UNCHANGED <<task, fixture, workspace, report, rev, diff, next, pending, stored, flushed, lost, key>>
  BY DEF Conclude, db
<1>b. /\ r \in RowType
      /\ r.class = "verification" /\ r.crit = Entry.crit /\ r.status = status
      /\ r.sound = sound /\ r.judged = judged /\ r.bound = rev.result /\ r.subject = diff
  BY RowTyped DEF IInv
<1> HIDE DEF r
<1>c. /\ rows \in Seq(RowType) /\ Len(rows) + 1 = next /\ next \in Nat /\ diff = rev.result
  BY DEF IInv, TypeOK, PhaseInv, Evaluating, Storing, Checking
<1>d. /\ rows' \in Seq(RowType) /\ Len(rows') = next /\ rows'[next] = r
      /\ DOMAIN rows' = 1 .. next /\ DOMAIN rows = 1 .. next - 1
      /\ \A i \in 1 .. next - 1 : rows'[i] = rows[i]
  BY <1>a, <1>b, <1>c
<1>1. TypeOK'
  <2>1. sealed' \in Tree
    BY <1>a DEF Tree
  <2>2. QED BY <1>a, <1>d, <2>1 DEF IInv, TypeOK, Evaluating, Storing, Checking
<1>2. PhaseInv'
  BY <1>a, <1>d DEF IInv, PhaseInv, Evaluating, Storing, Checking, Ended, Check, Entry
<1>3. ChildInv'
  BY <1>a DEF ChildInv
<1>4. RowInv'
  <2>1. SUFFICES ASSUME NEW i \in 1 .. next
                 PROVE  /\ rows'[i].class = "verification" /\ rows'[i].bound = rev.result
                        /\ rows'[i].subject = diff /\ rows'[i].crit = Agenda(task.decl)[i].crit
                        /\ rows'[i].status = "PASS" => /\ Agenda(task.decl)[i].check # None
                                                       /\ Backend = "host" => rows'[i].sound
    BY <1>a, <1>d DEF RowInv, Storing
  <2>2. CASE i = next
    BY <1>b, <1>d, <2>2 DEF Check, Entry
  <2>3. CASE i # next
    <3>1. i \in DOMAIN rows /\ rows'[i] = rows[i]
      BY <1>c, <1>d, <2>3
    <3>2. QED BY <3>1 DEF IInv, RowInv, Evaluating, Storing, Checking
  <2>4. QED BY <2>2, <2>3
<1>5. DriftInv'
  <2>1. SUFFICES ASSUME AllPass', NEW i \in 1 .. next
                 PROVE  /\ rows'[i].judged.subject = rev.result.subject
                        /\ i = next \/ rows'[i].after = rev.result
    BY <1>a, <1>d DEF DriftInv
  <2>2. AllPass
    BY <1>c, <1>d, <2>1 DEF AllPass
  <2>3. CASE i = next
    <3>1. status = "PASS"
      BY <1>b, <1>c, <1>d, <2>1 DEF AllPass
    <3>2. QED BY <1>b, <1>d, <2>2, <2>3, <3>1
  <2>4. CASE i # next
    <3>1. i \in DOMAIN rows /\ rows'[i] = rows[i]
      BY <1>c, <1>d, <2>4
    <3>2. QED BY <2>2, <3>1 DEF IInv, DriftInv, Evaluating, Storing, Checking
  <2>5. QED BY <2>3, <2>4
<1>6. RecordInv' /\ MacInv'
  BY <1>a DEF IInv, RecordInv, MacInv, Checking, Storing
<1>7. task'.status # "succeeded"
  BY <1>a DEF IInv, PhaseInv, Ended
<1>8. QED BY <1>1, <1>2, <1>3, <1>4, <1>5, <1>6, <1>7, OpenKeeps DEF IInv

\* A check that cannot be run, whose files are not the fixture's, or that times out
\* is no PASS.
LEMMA StopKeeps ==
  ASSUME IInv, CannotRun \/ (VerifyTargets /\ ~Trusted) \/ (Seal /\ ~Trusted) \/ TimeOut
  PROVE  IInv'
<1>1. "INCONCLUSIVE" \in Statuses /\ "INCONCLUSIVE" # "PASS" /\ None \in Tree /\ sealed \in Tree
  BY DEF IInv, TypeOK, Statuses, Tree
<1>2. at \in {"check", "seal", "notary"} /\ next <= Len(Agenda(task.decl)) /\ Check # None
  BY DEF IInv, PhaseInv, CannotRun, VerifyTargets, Enter, Seal, TimeOut
<1>3. \/ Conclude(Row("INCONCLUSIVE", FALSE, None))
      \/ Conclude(Row("INCONCLUSIVE", FALSE, sealed))
  BY DEF CannotRun, VerifyTargets, Seal, TimeOut, Stop
<1>4. CASE Conclude(Row("INCONCLUSIVE", FALSE, None))
  BY <1>1, <1>2, <1>4, ConcludeKeeps
<1>5. CASE Conclude(Row("INCONCLUSIVE", FALSE, sealed))
  BY <1>1, <1>2, <1>5, ConcludeKeeps
<1>6. QED BY <1>3, <1>4, <1>5

\* The child has ended and the Evaluator judges: a PASS was earned.
LEMMA JudgeKeeps ==
  ASSUME IInv, Judge
  PROVE  IInv'
<1> DEFINE frame == IF Backend = "host" THEN child.said ELSE None
<1> DEFINE status == CASE Kind[Check] = "pytest" -> PytestVerdict(frame, child.exit, Declares[Check], Changed)
                       [] Kind[Check] = "script" /\ Backend = "host" -> ScriptVerdict(frame, child.exit, Changed)
                       [] OTHER -> ExitVerdict(child.exit, Changed)
<1>a. at = "notary" /\ next <= Len(Agenda(task.decl)) /\ Check # None
  BY DEF Judge, IInv, PhaseInv
<1>b. Check \in Checks
  <2>1. task.decl \in Tasks /\ next \in 1 .. Len(Agenda(task.decl))
    BY <1>a, AgendaTyped DEF IInv, TypeOK
  <2>2. Agenda(task.decl)[next].check \in Checks \cup {None}
    BY <2>1, AgendaTyped
  <2>3. QED BY <1>a, <2>2 DEF Check, Entry
<1>c. Conclude(Row(status, Sound(Check, child.suite), sealed))
  BY DEF Judge
<1>d. /\ Kind[Check] = "pytest" => status = PytestVerdict(frame, child.exit, Declares[Check], Changed)
      /\ Kind[Check] = "script" /\ Backend = "host" => status = ScriptVerdict(frame, child.exit, Changed)
      /\ ~(Kind[Check] = "pytest") /\ ~(Kind[Check] = "script" /\ Backend = "host") =>
           status = ExitVerdict(child.exit, Changed)
  <2>1. CASE Kind[Check] = "pytest"
    BY <2>1, Zenon
  <2>2. CASE Kind[Check] = "script" /\ Backend = "host"
    <3>1. Kind[Check] # "pytest"
      BY <2>2
    <3>2. QED BY <2>2, <3>1, Zenon
  <2>3. CASE ~(Kind[Check] = "pytest") /\ ~(Kind[Check] = "script" /\ Backend = "host")
    BY <2>3, Zenon
  <2>4. QED BY <2>1, <2>2, <2>3
<1> HIDE DEF status
<1>e. Changed \in BOOLEAN /\ Sound(Check, child.suite) \in BOOLEAN /\ sealed \in Tree
  BY DEF Changed, Sound, IInv, TypeOK
<1>f. status \in Statuses
  BY <1>d DEF PytestVerdict, ScriptVerdict, ExitVerdict, Statuses
<1>g. status = "PASS" /\ Backend = "host" => Sound(Check, child.suite)
  <2>1. SUFFICES ASSUME status = "PASS", Backend = "host" PROVE Sound(Check, child.suite)
    OBVIOUS
  <2>2. frame = child.said
    BY <2>1
  <2>3. /\ child.suite \in Suites(Check) /\ child.said \in Says(Check, child.suite)
        /\ child.exit \in Exits(Check, child.suite, child.said)
    BY <1>a DEF IInv, ChildInv
  <2>4. /\ Kind[Check] = "pytest" => status = PytestVerdict(child.said, child.exit, Declares[Check], Changed)
        /\ Kind[Check] = "script" => status = ScriptVerdict(child.said, child.exit, Changed)
        /\ Kind[Check] = "lint" => status = ExitVerdict(child.exit, Changed)
    BY <1>d, <2>1, <2>2
  <2>5. QED BY <1>b, <1>e, <2>1, <2>3, <2>4, JudgedEarned
<1>h. AllPass => sealed.subject = rev.result.subject
  BY <1>a DEF IInv, DriftInv, Evaluating, Storing, Checking
<1>1. QED BY <1>a, <1>c, <1>e, <1>f, <1>g, <1>h, ConcludeKeeps

\* A criterion nobody checks leaves a row that is no PASS.
LEMMA UncoveredKeeps ==
  ASSUME IInv, Uncovered
  PROVE  IInv'
<1> DEFINE r == Row("INCONCLUSIVE", FALSE, None)
<1>a. /\ at = "check" /\ next <= Len(Agenda(task.decl)) /\ rows' = Append(rows, r) /\ next' = next + 1
      /\ UNCHANGED <<at, task, fixture, workspace, report, rev, diff, sealed, child, pending, stored, flushed, lost, key>>
  BY DEF Uncovered, run, db
<1>b. /\ r \in RowType
      /\ r.class = "verification" /\ r.crit = Entry.crit /\ r.status = "INCONCLUSIVE"
      /\ r.bound = rev.result /\ r.subject = diff
  <2>1. "INCONCLUSIVE" \in Statuses /\ None \in Tree
    BY DEF Statuses, Tree
  <2>2. ASSUME NEW b \in BOOLEAN
        PROVE  LET q == Row("INCONCLUSIVE", b, None) IN
               /\ q \in RowType
               /\ q.class = "verification" /\ q.crit = Entry.crit /\ q.status = "INCONCLUSIVE"
               /\ q.bound = rev.result /\ q.subject = diff
    BY <1>a, <2>1, RowTyped DEF IInv
  <2>3. QED BY <2>2
<1> HIDE DEF r
<1>c. /\ rows \in Seq(RowType) /\ Len(rows) + 1 = next /\ next \in Nat /\ Len(Agenda(task.decl)) \in Nat
  BY <1>a, AgendaTyped DEF IInv, TypeOK, PhaseInv
<1>d. /\ rows' \in Seq(RowType) /\ Len(rows') = next /\ rows'[next] = r
      /\ DOMAIN rows' = 1 .. next /\ DOMAIN rows = 1 .. next - 1
      /\ \A i \in 1 .. next - 1 : rows'[i] = rows[i]
  BY <1>a, <1>b, <1>c
<1>1. TypeOK'
  BY <1>a, <1>c, <1>d DEF IInv, TypeOK
<1>2. PhaseInv'
  BY <1>a, <1>c, <1>d DEF IInv, PhaseInv, Evaluating, Storing, Checking, Ended
<1>3. ChildInv'
  BY <1>a DEF ChildInv
<1>4. RowInv'
  <2>1. SUFFICES ASSUME NEW i \in 1 .. next
                 PROVE  /\ rows'[i].class = "verification" /\ rows'[i].bound = rev.result
                        /\ rows'[i].subject = diff /\ rows'[i].crit = Agenda(task.decl)[i].crit
                        /\ rows'[i].status = "PASS" => /\ Agenda(task.decl)[i].check # None
                                                       /\ Backend = "host" => rows'[i].sound
    BY <1>a, <1>d DEF RowInv, Storing
  <2>2. CASE i = next
    BY <1>b, <1>d, <2>2 DEF Entry
  <2>3. CASE i # next
    <3>1. i \in DOMAIN rows /\ rows'[i] = rows[i]
      BY <1>c, <1>d, <2>3
    <3>2. QED BY <1>a, <3>1 DEF IInv, RowInv, Evaluating, Storing, Checking
  <2>4. QED BY <2>2, <2>3
<1>5. DriftInv'
  <2>1. next \in DOMAIN rows' /\ rows'[next].status # "PASS"
    BY <1>b, <1>c, <1>d
  <2>2. QED BY <2>1 DEF DriftInv, AllPass
<1>6. RecordInv' /\ MacInv'
  BY <1>a DEF IInv, RecordInv, MacInv, Checking, Storing
<1>7. task'.status # "succeeded"
  BY <1>a DEF IInv, PhaseInv, Ended
<1>8. QED BY <1>1, <1>2, <1>3, <1>4, <1>5, <1>6, <1>7, OpenKeeps DEF IInv

\* after_check: the last row is kept as a PASS only on the result tree.
LEMMA ObserveKeeps ==
  ASSUME IInv, Observe
  PROVE  IInv'
<1>a. /\ at = "observe" /\ at' = "check" /\ next' = next + 1
      /\ rows' = [rows EXCEPT ![Len(rows)] = Drifted(@)]
      /\ UNCHANGED <<task, fixture, workspace, report, rev, diff, sealed, child, pending, stored, flushed, lost, key>>
  BY DEF Observe, run, db
<1>c. /\ rows \in Seq(RowType) /\ Len(rows) = next /\ next \in Nat \ {0} /\ Len(Agenda(task.decl)) \in Nat
      /\ next <= Len(Agenda(task.decl)) /\ workspace \in Tree
  BY <1>a, AgendaTyped DEF IInv, TypeOK, PhaseInv, Tree
<1> DEFINE r == rows[next]
<1> DEFINE z == Drifted(r)
<1>b. /\ z \in RowType /\ z.class = r.class /\ z.crit = r.crit /\ z.bound = r.bound /\ z.judged = r.judged
      /\ z.subject = r.subject /\ z.sound = r.sound /\ z.after = workspace
      /\ z.status = "PASS" => r.status = "PASS" /\ workspace = rev.result
  <2>1. r \in RowType
    BY <1>c
  <2> HIDE DEF r
  <2>2. QED BY <1>c, <2>1 DEF Drifted, RowType, Statuses
<1> HIDE DEF z
<1>d. /\ rows' \in Seq(RowType) /\ Len(rows') = next /\ rows'[next] = z
      /\ DOMAIN rows' = 1 .. next /\ DOMAIN rows = 1 .. next
      /\ \A i \in 1 .. next - 1 : rows'[i] = rows[i]
  <2>1. rows' = [rows EXCEPT ![next] = z]
    BY <1>a, <1>c DEF z
  <2>2. QED BY <1>b, <1>c, <2>1
<1>1. TypeOK'
  BY <1>a, <1>c, <1>d DEF IInv, TypeOK, Evaluating, Storing, Checking
<1>2. PhaseInv'
  BY <1>a, <1>c, <1>d DEF IInv, PhaseInv, Evaluating, Storing, Checking, Ended
<1>3. ChildInv'
  BY <1>a DEF ChildInv
<1>4. RowInv'
  <2>1. SUFFICES ASSUME NEW i \in 1 .. next
                 PROVE  /\ rows'[i].class = "verification" /\ rows'[i].bound = rev.result
                        /\ rows'[i].subject = diff /\ rows'[i].crit = Agenda(task.decl)[i].crit
                        /\ rows'[i].status = "PASS" => /\ Agenda(task.decl)[i].check # None
                                                       /\ Backend = "host" => rows'[i].sound
    BY <1>a, <1>d DEF RowInv, Storing
  <2>2. /\ rows[i].class = "verification" /\ rows[i].bound = rev.result
        /\ rows[i].subject = diff /\ rows[i].crit = Agenda(task.decl)[i].crit
        /\ rows[i].status = "PASS" => /\ Agenda(task.decl)[i].check # None
                                      /\ Backend = "host" => rows[i].sound
    BY <1>a, <1>d DEF IInv, RowInv, Evaluating, Storing, Checking
  <2>3. CASE i = next
    BY <1>b, <1>d, <2>2, <2>3
  <2>4. CASE i # next
    <3>1. rows'[i] = rows[i]
      BY <1>c, <1>d, <2>4
    <3>2. QED BY <2>2, <3>1
  <2>5. QED BY <2>3, <2>4
<1>5. DriftInv'
  <2>1. SUFFICES ASSUME AllPass'
                 PROVE  /\ workspace = rev.result
                        /\ \A i \in 1 .. next : /\ rows'[i].judged.subject = rev.result.subject
                                                /\ rows'[i].after = rev.result
    BY <1>a, <1>d DEF DriftInv
  <2>2. z.status = "PASS" /\ next \in 1 .. next
    BY <1>c, <1>d, <2>1 DEF AllPass
  <2>3. workspace = rev.result /\ r.status = "PASS"
    BY <1>b, <2>2
  <2>4. AllPass
    <3>1. SUFFICES ASSUME NEW i \in 1 .. next PROVE rows[i].status = "PASS"
      BY <1>d DEF AllPass
    <3>2. CASE i = next
      BY <2>3, <3>2
    <3>3. CASE i # next
      BY <1>c, <1>d, <2>1, <3>3 DEF AllPass
    <3>4. QED BY <3>2, <3>3
  <2>5. SUFFICES ASSUME NEW i \in 1 .. next
                 PROVE  rows'[i].judged.subject = rev.result.subject /\ rows'[i].after = rev.result
    BY <2>3
  <2>6. /\ rows[i].judged.subject = rev.result.subject
        /\ i = next \/ rows[i].after = rev.result
    BY <1>a, <1>c, <1>d, <2>4 DEF IInv, DriftInv, Evaluating, Storing, Checking
  <2>7. CASE i = next
    BY <1>b, <1>d, <2>3, <2>6, <2>7
  <2>8. CASE i # next
    <3>1. rows'[i] = rows[i]
      BY <1>c, <1>d, <2>8
    <3>2. QED BY <2>6, <2>8, <3>1
  <2>9. QED BY <2>7, <2>8
<1>6. RecordInv' /\ MacInv'
  BY <1>a DEF IInv, RecordInv, MacInv, Checking, Storing
<1>7. task'.status # "succeeded"
  BY <1>a DEF IInv, PhaseInv, Ended
<1>8. QED BY <1>1, <1>2, <1>3, <1>4, <1>5, <1>6, <1>7, OpenKeeps DEF IInv

\* _enforce_acceptance: a PASS that is left is acceptable, and no row becomes one.
LEMMA AcceptKeeps ==
  ASSUME IInv, Accept
  PROVE  IInv'
<1>a. /\ at = "check" /\ at' = "record" /\ next' = 1 /\ next > Len(Agenda(task.decl))
      /\ UNCHANGED <<task, fixture, workspace, report, rev, diff, sealed, child, pending, stored, flushed, lost, key>>
  BY DEF Accept, run, db
<1>b. PICK old \in {{}, {1}} : rows' = Gate(old)
  BY DEF Accept
<1>c. /\ rows \in Seq(RowType) /\ Len(rows) = Len(Agenda(task.decl)) /\ Len(rows) \in Nat
      /\ DOMAIN rows = 1 .. Len(rows)
  <2>1. rows \in Seq(RowType) /\ Len(rows) + 1 = next /\ next <= Len(Agenda(task.decl)) + 1
        /\ next \in Nat /\ Len(Agenda(task.decl)) \in Nat
    BY <1>a, AgendaTyped DEF IInv, TypeOK, PhaseInv
  <2>2. QED BY <1>a, <2>1
<1>d. ASSUME NEW i \in DOMAIN rows
      PROVE  /\ rows'[i] \in RowType /\ rows'[i].class = rows[i].class /\ rows'[i].crit = rows[i].crit
             /\ rows'[i].bound = rows[i].bound /\ rows'[i].judged = rows[i].judged
             /\ rows'[i].subject = rows[i].subject /\ rows'[i].sound = rows[i].sound
             /\ rows'[i].after = rows[i].after
             /\ rows'[i].status = "PASS" => rows[i].status = "PASS" /\ Acceptable(rows[i])'
  <2> DEFINE r == [rows[i] EXCEPT !.stale = i \in old]
  <2> DEFINE z == [r EXCEPT !.status = "INCONCLUSIVE"]
  <2>1. rows'[i] = IF r.status = "PASS" /\ ~Acceptable(r) THEN z ELSE r
    BY <1>b DEF Gate
  <2>2. rows[i] \in RowType
    BY <1>c
  <2>3. /\ r \in RowType /\ r.class = rows[i].class /\ r.crit = rows[i].crit
        /\ r.bound = rows[i].bound /\ r.judged = rows[i].judged /\ r.subject = rows[i].subject
        /\ r.sound = rows[i].sound /\ r.after = rows[i].after /\ r.status = rows[i].status
    <3>1. ASSUME NEW x \in RowType, NEW b \in BOOLEAN
          PROVE  LET y == [x EXCEPT !.stale = b] IN
                 /\ y \in RowType /\ y.class = x.class /\ y.crit = x.crit
                 /\ y.bound = x.bound /\ y.judged = x.judged /\ y.subject = x.subject
                 /\ y.sound = x.sound /\ y.after = x.after /\ y.status = x.status
      BY DEF RowType
    <3>2. (i \in old) \in BOOLEAN
      OBVIOUS
    <3>3. QED BY <2>2, <3>1, <3>2, Zenon
  <2> HIDE DEF r
  <2>4. /\ z \in RowType /\ z.class = r.class /\ z.crit = r.crit
        /\ z.bound = r.bound /\ z.judged = r.judged /\ z.subject = r.subject
        /\ z.sound = r.sound /\ z.after = r.after /\ z.status = "INCONCLUSIVE"
    BY <2>3 DEF RowType, Statuses
  <2> HIDE DEF z
  <2>5. rows'[i].status = "PASS" => rows'[i] = r /\ Acceptable(r)
    BY <2>1, <2>4
  <2>6. QED BY <1>a, <2>1, <2>3, <2>4, <2>5 DEF Acceptable
<1>e. rows' \in Seq(RowType) /\ Len(rows') = Len(rows) /\ DOMAIN rows' = DOMAIN rows
  <2> DEFINE g(i) == LET r == [rows[i] EXCEPT !.stale = i \in old]
                     IN IF r.status = "PASS" /\ ~Acceptable(r) THEN [r EXCEPT !.status = "INCONCLUSIVE"] ELSE r
  <2>0. rows' = [i \in DOMAIN rows |-> g(i)]
    BY <1>b, Zenon DEF Gate
  <2> HIDE DEF g
  <2>1. DOMAIN rows' = 1 .. Len(rows) /\ rows' = [i \in 1 .. Len(rows) |-> rows'[i]]
    BY <1>c, <2>0
  <2>2. rows' \in [1 .. Len(rows) -> RowType]
    BY <1>c, <1>d, <2>1
  <2>3. QED BY <1>c, <2>2
<1>1. TypeOK'
  BY <1>a, <1>e DEF IInv, TypeOK, Evaluating, Storing
<1>2. PhaseInv'
  BY <1>a, <1>c, <1>e DEF IInv, PhaseInv, Evaluating, Storing, Checking, Ended
<1>3. ChildInv'
  BY <1>a DEF ChildInv
<1>4. RowInv'
  <2>1. SUFFICES ASSUME NEW i \in DOMAIN rows
                 PROVE  /\ rows'[i].class = "verification" /\ rows'[i].bound = rev.result
                        /\ rows'[i].subject = diff /\ rows'[i].crit = Agenda(task.decl)[i].crit
                        /\ rows'[i].status = "PASS" => /\ Agenda(task.decl)[i].check # None
                                                       /\ Backend = "host" => rows'[i].sound
                                                       /\ Acceptable(rows[i])'
    BY <1>a, <1>e DEF RowInv
  <2>2. /\ rows[i].class = "verification" /\ rows[i].bound = rev.result
        /\ rows[i].subject = diff /\ rows[i].crit = Agenda(task.decl)[i].crit
        /\ rows[i].status = "PASS" => /\ Agenda(task.decl)[i].check # None
                                      /\ Backend = "host" => rows[i].sound
    BY <1>a DEF IInv, RowInv, Evaluating, Storing, Checking
  <2>3. QED BY <1>d, <2>2
<1>5. DriftInv'
  <2>1. SUFFICES ASSUME AllPass', NEW i \in DOMAIN rows
                 PROVE  rows'[i].judged.subject = rev.result.subject /\ rows'[i].after = rev.result
    BY <1>a, <1>e DEF DriftInv
  <2>2. AllPass
    BY <1>d, <1>e, <2>1 DEF AllPass
  <2>3. rows[i].judged.subject = rev.result.subject /\ rows[i].after = rev.result
    BY <1>a, <2>2 DEF IInv, DriftInv, Evaluating, Storing, Checking
  <2>4. QED BY <1>d, <2>3
<1>6. RecordInv'
  <2>1. \A r \in pending' : r.class # "verification"
    BY <1>a DEF IInv, RecordInv, Checking
  <2>2. 1 .. next' - 1 = {}
    BY <1>a
  <2>3. QED BY <1>a, <2>1, <2>2 DEF RecordInv, Checking
<1>7. MacInv'
  BY <1>a DEF IInv, MacInv
<1>8. task'.status # "succeeded"
  BY <1>a DEF IInv, PhaseInv, Ended
<1>9. QED BY <1>1, <1>2, <1>3, <1>4, <1>5, <1>6, <1>7, <1>8, OpenKeeps DEF IInv

\* What is written for a row of the Evaluator.
LEMMA WrittenTyped ==
  ASSUME IInv, at \in Storing, NEW i \in DOMAIN rows
  PROVE  LET z == Written(i) IN
         /\ z \in RowType /\ z.artifact = i /\ z.class = "verification" /\ z.crit = rows[i].crit
         /\ z.status = rows[i].status /\ z.hidden = rows[i].hidden /\ z.after = rows[i].after
         /\ z.stale = rows[i].stale /\ z.sound = rows[i].sound /\ z.judged = rows[i].judged
         /\ z.subject = rev.result /\ z.bound = rev.result
         /\ z.oracle = rows[i].oracle /\ z.verifier = rows[i].verifier
         /\ z.mac = [key |-> key, payload |-> Payload(z, z.artifact)]
<1>1. /\ key \in KeyType /\ rows[i] \in RowType /\ i \in Nat
  BY DEF IInv, TypeOK
<1>2. rows[i].class = "verification" /\ rows[i].subject = rev.result /\ rows[i].bound = rev.result
  BY DEF IInv, RowInv, PhaseInv, Evaluating, Storing
<1>3. QED BY <1>1, <1>2, StampTyped DEF Written

\* The output of a row is flushed.
LEMMA WriteOutputKeeps ==
  ASSUME IInv, WriteOutput
  PROVE  IInv'
<1>a. /\ at = "record" /\ at' = "stamp" /\ next <= Len(rows) /\ next \in flushed'
      /\ UNCHANGED <<task, fixture, workspace, report, rev, diff, sealed, child, rows, next, pending, stored, lost, key>>
  BY DEF WriteOutput, run
<1>b. \A i \in Nat : Written(i)' = Written(i)
  BY <1>a DEF Written, Stamp, Mac
<1>1. TypeOK'
  BY <1>a DEF IInv, TypeOK, Evaluating, Storing
<1>2. PhaseInv'
  BY <1>a DEF IInv, PhaseInv, Evaluating, Checking, Storing, Ended
<1>3. ChildInv' /\ RowInv'
  BY <1>a DEF IInv, ChildInv, RowInv, Evaluating, Storing, Acceptable
<1>4. DriftInv'
  BY <1>a DEF IInv, DriftInv, AllPass, Evaluating, Storing
<1>5. RecordInv'
  <2>1. \A i \in 1 .. next - 1 : i \in Nat
    BY DEF IInv, TypeOK
  <2>2. QED BY <1>a, <1>b, <2>1 DEF IInv, RecordInv, Storing, Checking
<1>6. MacInv'
  BY <1>a DEF IInv, MacInv
<1>7. task'.status # "succeeded"
  BY <1>a DEF IInv, PhaseInv, Ended
<1>8. QED BY <1>1, <1>2, <1>3, <1>4, <1>5, <1>6, <1>7, OpenKeeps DEF IInv

\* One row is stamped and added to the transaction.
LEMMA RecordKeeps ==
  ASSUME IInv, Record
  PROVE  IInv'
<1> DEFINE z == Written(next)
<1>a. /\ at = "stamp" /\ at' = "record" /\ next <= Len(rows)
      /\ pending' = pending \cup {z} /\ next' = next + 1
      /\ UNCHANGED <<task, fixture, workspace, report, rev, diff, sealed, child, rows, stored, flushed, lost, key>>
  <2>1. at = "stamp" /\ next <= Len(rows) /\ next \in flushed
    BY DEF Record, IInv, PhaseInv
  <2> DEFINE x == [rows[next] EXCEPT !.artifact = next]
  <2>2. x.artifact = next
    <3>1. next \in DOMAIN rows /\ rows[next] \in RowType
      BY <2>1 DEF IInv, TypeOK
    <3>2. QED BY <3>1 DEF RowType
  <2>3. Stamp(x, flushed) = Stamp(x, {next})
    <3> HIDE DEF x
    <3> QED BY <2>1, <2>2 DEF Stamp
  <2>4. QED BY <2>1, <2>3 DEF Record, run, Written
<1>b. next \in DOMAIN rows /\ next \in Nat /\ Len(rows) \in Nat
  BY <1>a DEF IInv, TypeOK
<1>c. /\ z \in RowType /\ z.class = "verification" /\ z.bound = rev.result
      /\ z.mac = [key |-> key, payload |-> Payload(z, z.artifact)]
      /\ z.status = rows[next].status /\ z.sound = rows[next].sound
  BY <1>a, <1>b, WrittenTyped DEF Storing
<1>d. \A i \in Nat : Written(i)' = Written(i)
  BY <1>a DEF Written, Stamp, Mac
<1> HIDE DEF z
<1>1. TypeOK'
  BY <1>a, <1>b, <1>c DEF IInv, TypeOK, Evaluating, Storing
<1>2. PhaseInv'
  BY <1>a, <1>b DEF IInv, PhaseInv, Evaluating, Storing, Checking, Ended
<1>3. ChildInv' /\ RowInv'
  BY <1>a DEF IInv, ChildInv, RowInv, Evaluating, Storing, Acceptable
<1>4. DriftInv'
  BY <1>a DEF IInv, DriftInv, AllPass, Evaluating, Storing
<1>5. RecordInv'
  <2>1. /\ \A r \in pending : r.class = "verification" => \E i \in 1 .. next - 1 : r = Written(i)
        /\ \A i \in 1 .. next - 1 : Written(i) \in pending
    BY <1>a DEF IInv, RecordInv, Storing
  <2>2. next' - 1 = next /\ 1 .. next - 1 \subseteq 1 .. next /\ next \in 1 .. next
    BY <1>a, <1>b DEF IInv, TypeOK
  <2>3. \A r \in pending' : r.class = "verification" => \E i \in 1 .. next : r = Written(i)
    BY <1>a, <2>1, <2>2 DEF z
  <2>4. \A i \in 1 .. next : Written(i) \in pending'
    <3>1. SUFFICES ASSUME NEW i \in 1 .. next PROVE Written(i) \in pending'
      OBVIOUS
    <3>2. CASE i = next
      BY <1>a, <3>2 DEF z
    <3>3. CASE i # next
      <4>1. i \in 1 .. next - 1
        BY <1>b, <3>3
      <4>2. QED BY <1>a, <2>1, <4>1
    <3>4. QED BY <3>2, <3>3
  <2>5. QED BY <1>a, <1>d, <2>2, <2>3, <2>4 DEF RecordInv, Checking
<1>6. MacInv'
  <2>1. Backend = "host" /\ z.status = "PASS" => z.sound
    BY <1>a, <1>b, <1>c DEF IInv, RowInv, Evaluating, Storing
  <2>2. z.mac = [key |-> z.mac.key, payload |-> Payload(z, z.artifact)]
    BY <1>c
  <2>3. QED BY <1>a, <1>c, <2>1, <2>2 DEF IInv, MacInv
<1>7. task'.status # "succeeded"
  BY <1>a DEF IInv, PhaseInv, Ended
<1>8. QED BY <1>1, <1>2, <1>3, <1>4, <1>5, <1>6, <1>7, OpenKeeps DEF IInv

\* The outcome is PASS only on a PASS of every row, a criterion and, if the Task
\* declares a hidden oracle, a hidden row.
LEMMA OutcomeIsPass ==
  ASSUME rows \in Seq(RowType), Outcome(rows) = "PASS"
  PROVE  /\ AllPass /\ task.decl.criteria # <<>>
         /\ RequiresHidden(task.decl) => \E i \in DOMAIN rows : rows[i].hidden
<1>1. Overall(task.decl, rows) = "PASS"
  BY DEF Outcome
<1>2. /\ ~(\E i \in DOMAIN rows : rows[i].status = "FAIL")
      /\ ~(\E i \in DOMAIN rows : rows[i].status = "INCONCLUSIVE") /\ task.decl.criteria # <<>>
  BY <1>1 DEF Overall
<1>3. \A i \in DOMAIN rows : rows[i].status \in Statuses
  <2>1. \A i \in DOMAIN rows : rows[i] \in RowType
    OBVIOUS
  <2>2. QED BY <2>1 DEF RowType
<1>4. AllPass
  BY <1>2, <1>3 DEF AllPass, Statuses
<1>5. RequiresHidden(task.decl) => HiddenPass(rows)
  BY <1>1 DEF Outcome
<1>6. QED BY <1>2, <1>4, <1>5 DEF HiddenPass

\* finish commits: a Task that succeeds has a PASS for every entry of its agenda.
LEMMA CommitKeeps ==
  ASSUME IInv, Commit
  PROVE  IInv'
<1>a. /\ at = "record" /\ at' = "done" /\ next > Len(rows) /\ stored' = pending /\ pending' = {}
      /\ UNCHANGED <<fixture, workspace, report, rev, diff, sealed, child, rows, next, lost, key>>
  BY DEF Commit, run
<1> DEFINE s == CASE Outcome(rows) = "PASS" -> "succeeded"
                  [] Outcome(rows) = "FAIL" -> "failed"
                  [] OTHER -> "inconclusive"
<1>b. /\ s \in {"succeeded", "failed", "inconclusive"}
      /\ s = "succeeded" => Outcome(rows) = "PASS"
  <2>1. CASE Outcome(rows) = "PASS"
    <3>1. s = "succeeded"
      BY <2>1, Zenon
    <3>2. QED BY <2>1, <3>1
  <2>2. CASE Outcome(rows) = "FAIL"
    <3>1. Outcome(rows) # "PASS"
      BY <2>2
    <3>2. s = "failed"
      BY <2>2, <3>1, Zenon
    <3>3. QED BY <3>2
  <2>3. CASE Outcome(rows) # "PASS" /\ Outcome(rows) # "FAIL"
    <3>1. s = "inconclusive"
      BY <2>3, Zenon
    <3>2. QED BY <3>1
  <2>4. QED BY <2>1, <2>2, <2>3
<1>c. task' = [task EXCEPT !.status = s]
  BY DEF Commit
<1> HIDE DEF s
<1>d. /\ task' \in [status : {"running", "succeeded", "failed", "inconclusive"}, decl : Tasks]
      /\ task'.status = s /\ task'.decl = task.decl
  BY <1>b, <1>c DEF IInv, TypeOK
<1>e. /\ rows \in Seq(RowType) /\ Len(rows) = Len(Agenda(task.decl)) /\ next - 1 = Len(rows)
      /\ DOMAIN rows = 1 .. Len(rows) /\ diff = rev.result
  <2>1. next \in Nat /\ Len(rows) \in Nat /\ next <= Len(rows) + 1
    BY <1>a DEF IInv, TypeOK, PhaseInv, Storing
  <2>2. QED BY <1>a, <2>1 DEF IInv, TypeOK, PhaseInv, Evaluating, Storing
<1>1. TypeOK'
  BY <1>a, <1>d DEF IInv, TypeOK, Ended
<1>2. PhaseInv' /\ ChildInv' /\ RowInv' /\ DriftInv' /\ RecordInv'
  BY <1>a DEF PhaseInv, ChildInv, RowInv, DriftInv, RecordInv, Evaluating, Storing, Checking, Ended
<1>3. MacInv'
  BY <1>a DEF IInv, MacInv
<1>4. PassDescribesTheRevision' /\ SuccessIsAccepted'
  <2>1. CASE s # "succeeded"
    BY <1>d, <2>1, OpenKeeps
  <2>2. CASE s = "succeeded"
    <3>1. /\ AllPass /\ task.decl.criteria # <<>>
          /\ RequiresHidden(task.decl) => \E i \in DOMAIN rows : rows[i].hidden
      BY <1>b, <1>e, <2>2, OutcomeIsPass
    <3>2. \A r \in Verdicts' : \E i \in DOMAIN rows : r = Written(i)
      BY <1>a, <1>e DEF IInv, RecordInv, Verdicts, Storing
    <3>3. \A i \in DOMAIN rows : Written(i) \in Verdicts'
      <4>1. SUFFICES ASSUME NEW i \in DOMAIN rows PROVE Written(i) \in Verdicts'
        OBVIOUS
      <4>2. Written(i) \in pending
        BY <1>a, <1>e DEF IInv, RecordInv, Storing
      <4>3. Written(i).class = "verification"
        BY <1>a, WrittenTyped DEF Storing
      <4>4. QED BY <1>a, <4>2, <4>3 DEF Verdicts
    <3>4. ASSUME NEW i \in DOMAIN rows
          PROVE  /\ rows[i].status = "PASS" /\ Acceptable(rows[i])
                 /\ rows[i].crit = Agenda(task.decl)[i].crit /\ Agenda(task.decl)[i].check # None
                 /\ rows[i].judged.subject = rev.result.subject /\ rows[i].after = rev.result
      <4>1. rows[i].status = "PASS"
        BY <3>1 DEF AllPass
      <4>2. QED BY <1>a, <3>1, <4>1 DEF IInv, RowInv, DriftInv, Evaluating, Storing
    <3>5. ASSUME NEW i \in DOMAIN rows
          PROVE  LET z == Written(i) IN
                 /\ z.artifact = i /\ z.class = "verification" /\ z.crit = Agenda(task.decl)[i].crit
                 /\ z.status = "PASS" /\ z.hidden = rows[i].hidden /\ z.after = rev.result /\ Acceptable(z)
                 /\ z.judged.subject = rev.result.subject /\ z.subject = rev.result /\ z.bound = rev.result
      <4>1. at \in Storing
        BY <1>a DEF Storing
      <4> DEFINE z == Written(i)
      <4>2. /\ z.artifact = i /\ z.class = "verification" /\ z.crit = rows[i].crit
            /\ z.status = rows[i].status /\ z.hidden = rows[i].hidden /\ z.after = rows[i].after
            /\ z.stale = rows[i].stale /\ z.judged = rows[i].judged /\ z.subject = rev.result
            /\ z.bound = rev.result /\ z.oracle = rows[i].oracle /\ z.verifier = rows[i].verifier
        BY <4>1, WrittenTyped
      <4> HIDE DEF z
      <4>3. Acceptable(z)
        BY <1>a, <1>d, <1>e, <3>4, <4>2 DEF Acceptable
      <4>4. QED BY <3>4, <4>2, <4>3 DEF z
    <3>6. PassDescribesTheRevision'
      BY <1>a, <3>2, <3>5 DEF PassDescribesTheRevision
    <3>7. \A r \in Verdicts' : r.status = "PASS" /\ Acceptable(r)' /\ r.artifact \in 1 .. Len(Agenda(task.decl))
      <4>1. SUFFICES ASSUME NEW r \in Verdicts'
                     PROVE  r.status = "PASS" /\ Acceptable(r)' /\ r.artifact \in 1 .. Len(Agenda(task.decl))
        OBVIOUS
      <4>2. PICK i \in DOMAIN rows : r = Written(i)
        BY <3>2
      <4>3. r.status = "PASS" /\ Acceptable(r) /\ r.artifact = i
        BY <3>5, <4>2
      <4>4. QED BY <1>a, <1>d, <1>e, <4>3 DEF Acceptable
    <3>8. \A i \in 1 .. Len(Agenda(task.decl)) :
            /\ Agenda(task.decl)[i].check # None
            /\ \E r \in Verdicts' : r.artifact = i /\ r.crit = Agenda(task.decl)[i].crit
      BY <1>e, <3>3, <3>4, <3>5
    <3>9. RequiresHidden(task.decl) => \E r \in Verdicts' : r.hidden
      BY <3>1, <3>3, <3>5
    <3>10. \A r \in Verdicts' : /\ r.crit = Agenda(task.decl)[r.artifact].crit
                                /\ \A q \in Verdicts' : q.artifact = r.artifact => q = r
      BY <3>2, <3>5
    <3>11. SuccessIsAccepted'
      BY <1>d, <3>1, <3>7, <3>8, <3>9, <3>10 DEF SuccessIsAccepted
    <3>12. QED BY <3>6, <3>11
  <2>3. QED BY <2>1, <2>2
<1>5. QED BY <1>1, <1>2, <1>3, <1>4 DEF IInv

\* Every step keeps the invariant.
LEMMA InvStep ==
  ASSUME IInv, [Next]_vars
  PROVE  IInv'
<1>1. CASE \/ Begin \/ Close \/ LateWrite
           \/ \E t \in Trees, ok, told \in BOOLEAN : AdapterReturns(t, ok, told)
  BY <1>1, EarlyKeeps
<1>2. CASE \/ EditFixture \/ UNCHANGED vars
           \/ \E r \in stored : LoseFile(r)
           \/ \E k \in {"k1", "k2", "missing"} : Rekey(k)
  BY <1>2, OutsideKeeps
<1>3. CASE Refuse \/ Raise \/ Die
  BY <1>3, FailureKeeps
<1>4. CASE \/ (VerifyTargets /\ Trusted) \/ (Seal /\ Trusted) \/ Place
           \/ at = "run" /\ \E s \in Suites(Check) : \E said \in Says(Check, s) :
                \E exit \in Exits(Check, s, said) : Run(s, said, exit)
  BY <1>4, RunKeeps
<1>5. CASE CannotRun \/ (VerifyTargets /\ ~Trusted) \/ (Seal /\ ~Trusted) \/ TimeOut
  BY <1>5, StopKeeps
<1>6. CASE Evaluator
  <2>1. CASE VerifyTargets
    BY <1>4, <1>5, <2>1
  <2>2. CASE Seal
    BY <1>4, <1>5, <2>2
  <2>3. CASE Capture \/ Uncovered \/ Judge \/ Observe \/ Accept \/ WriteOutput \/ Record \/ Commit
    BY <2>3, CaptureKeeps, UncoveredKeeps, JudgeKeeps, ObserveKeeps, AcceptKeeps, WriteOutputKeeps,
       RecordKeeps, CommitKeeps
  <2>4. CASE Begin \/ Close \/ Refuse \/ Place \/ CannotRun \/ TimeOut
    <3>1. CASE Begin \/ Close
      BY <1>1, <3>1
    <3>2. CASE Place
      BY <1>4, <3>2
    <3>3. QED BY <1>3, <1>5, <2>4, <3>1, <3>2
  <2>5. CASE \E t \in Trees, ok, told \in BOOLEAN : AdapterReturns(t, ok, told)
    BY <1>1, <2>5
  <2>6. CASE at = "run" /\ \E s \in Suites(Check) : \E said \in Says(Check, s) :
               \E exit \in Exits(Check, s, said) : Run(s, said, exit)
    BY <1>4, <2>6
  <2>7. QED BY <1>6, <2>1, <2>2, <2>3, <2>4, <2>5, <2>6 DEF Evaluator
<1>7. QED BY <1>1, <1>2, <1>3, <1>6 DEF Next

-----------------------------------------------------------------------------
(* Theorems *)

\* The invariant of finish, its Evaluator and the readers of what it stored.
THEOREM EvaluationInvariance == Spec => []IInv
<1>1. Init => IInv
  BY InvInit
<1>2. IInv /\ [Next]_vars => IInv'
  BY InvStep
<1>3. QED BY <1>1, <1>2, PTL DEF Spec

\* A stored PASS of a check that ran on this host was earned, for every suite, every
\* frame a child can write and every way it can end (PytestVerdict, ScriptVerdict).
THEOREM EveryPassIsEarned == Spec => []PassIsEarned
<1>1. IInv => PassIsEarned
  BY DEF IInv, MacInv, PassIsEarned, Verdicts
<1>2. QED BY <1>1, EvaluationInvariance, PTL

\* A Task that succeeded has Evidence about the recorded revision only (after_check).
THEOREM SuccessDescribesTheRevision == Spec => []PassDescribesTheRevision
<1>1. IInv => PassDescribesTheRevision
  BY DEF IInv
<1>2. QED BY <1>1, EvaluationInvariance, PTL

\* A Task that succeeded has an acceptable PASS for every entry of its agenda, so none
\* of them is a gap, and has nothing else (evaluate, _enforce_acceptance).
THEOREM SuccessNeedsEveryEntry == Spec => []SuccessIsAccepted
<1>1. IInv => SuccessIsAccepted
  BY DEF IInv
<1>2. QED BY <1>1, EvaluationInvariance, PTL

\* A Task that succeeded has checks for every criterion and one stored PASS for every
\* run of them, whatever the Task declares: criteria without checks, checks without a
\* criterion, a criterion that is listed twice (evaluate, _enforce_acceptance).
THEOREM SuccessCoversTheTask == Spec => []SuccessIsCovered
<1>1. ASSUME IInv PROVE SuccessIsCovered
  <2>1. SUFFICES ASSUME task.status = "succeeded", NEW c \in Range(task.decl.criteria)
        PROVE  /\ c \in DOMAIN task.decl.mapped /\ task.decl.mapped[c] # <<>>
               /\ Cardinality({r \in Verdicts : r.crit = c /\ r.status = "PASS"})
                    = Listed(task.decl, c) * Len(task.decl.mapped[c])
    BY <1>1 DEF IInv, SuccessIsAccepted, SuccessIsCovered
  <2> DEFINE t == task.decl
             P == Places(Agenda(t), c)
             V == {r \in Verdicts : r.crit = c /\ r.status = "PASS"}
             f == [i \in P |-> CHOOSE r \in V : r.artifact = i]
  <2>2. t \in Tasks
    BY <1>1 DEF IInv, TypeOK
  <2>3. /\ \A r \in Verdicts : /\ r.status = "PASS" /\ r.artifact \in 1 .. Len(Agenda(t))
                              /\ r.crit = Agenda(t)[r.artifact].crit
                              /\ \A q \in Verdicts : q.artifact = r.artifact => q = r
        /\ \A i \in 1 .. Len(Agenda(t)) : /\ Agenda(t)[i].check # None
                                          /\ \E r \in Verdicts : r.artifact = i /\ r.crit = Agenda(t)[i].crit
    BY <1>1, <2>1 DEF IInv, SuccessIsAccepted
  <2> HIDE DEF t
  <2>4. /\ IsFiniteSet(P) /\ Cardinality(P) = Listed(t, c) * Len(EntriesOf(t, c))
        /\ \E j \in 1 .. Len(Agenda(t)) : Agenda(t)[j] = EntriesOf(t, c)[1]
    BY <2>2, AgendaCovers DEF t
  <2>5. c \in DOMAIN t.mapped /\ t.mapped[c] # <<>> /\ Len(EntriesOf(t, c)) = Len(t.mapped[c])
    BY <2>2, <2>3, <2>4, EntriesOfOne DEF t
  <2>6. \A i \in P : i \in 1 .. Len(Agenda(t)) /\ Agenda(t)[i].crit = c
    BY DEF Places
  <2>7. \A i \in P : \E r \in V : r.artifact = i
    BY <2>3, <2>6
  <2>8. \A r \in V : r.artifact \in P /\ \A q \in V : q.artifact = r.artifact => q = r
    BY <2>3 DEF Places
  <2> HIDE DEF P, V
  <2>9. \A i \in P : f[i] \in V /\ f[i].artifact = i
    BY <2>7
  <2>10. f \in Bijection(P, V)
    <3>1. f \in [P -> V] /\ DOMAIN f = P
      BY <2>9
    <3>2. \A r \in V : f[r.artifact] = r
      BY <2>8, <2>9
    <3> HIDE DEF f
    <3>3. IsInjective(f)
      BY <2>9, <3>1 DEF IsInjective
    <3>4. \A r \in V : \E i \in P : f[i] = r
      BY <2>8, <3>2
    <3>5. QED BY <3>1, <3>3, <3>4 DEF Bijection, Injection, Surjection
  <2>11. Cardinality(V) = Cardinality(P)
    BY <2>4, <2>10, FS_Bijection DEF ExistsBijection
  <2>12. QED BY <2>4, <2>5, <2>11 DEF t, V
<1>2. QED BY <1>1, EvaluationInvariance, PTL

\* The MAC of a stored row holds when it is read again exactly under the key that
\* stamped it (Payload, Loaded).
LEMMA MacHolds ==
  ASSUME IInv, NEW r \in stored
  PROVE  /\ MacOk(Loaded(r)) <=> Configured /\ r.mac.key = key
         /\ Loaded(r).bound = rev.result
<1>1. r \in RowType /\ r.mac = [key |-> r.mac.key, payload |-> Payload(r, r.artifact)] /\ r.bound = rev.result
  BY DEF IInv, TypeOK, MacInv
<1>2. /\ Loaded(r).mac = r.mac /\ Loaded(r).artifact = r.artifact /\ Loaded(r).bound = r.bound
      /\ Payload(Loaded(r), r.artifact) = Payload(r, r.artifact)
  BY <1>1, LoadedIsTheSame
<1>3. Mac(Loaded(r), Loaded(r).artifact) = [key |-> key, payload |-> Payload(r, r.artifact)]
  BY <1>2 DEF Mac
<1>4. r.mac = [key |-> key, payload |-> Payload(r, r.artifact)] <=> r.mac.key = key
  BY <1>1
<1>5. QED BY <1>1, <1>2, <1>3, <1>4 DEF MacOk

\* A revision is reported as verified exactly when its rows are those that were written
\* (verify_attempt_revision, is_verified_pass).
THEOREM TheReaderTellsTheTruth == Spec => []VerifyTellsTheTruth
<1>1. ASSUME IInv PROVE VerifyTellsTheTruth
  <2>1. SUFFICES ASSUME stored # {}
                 PROVE  /\ Verify = "verified" <=> /\ lost = {} /\ Configured /\ rev.result # None
                                                   /\ \A r \in stored : r.mac.key = key
                        /\ task.status = "succeeded" =>
                             \A r \in Verdicts : VerifiedPass(r) <=> Configured /\ r.mac.key = key
    BY DEF VerifyTellsTheTruth
  <2> DEFINE read == {Loaded(r) : r \in stored}
  <2> DEFINE bad == \/ lost # {}
                    \/ \E r \in read : ~MacOk(r)
                    \/ \E r \in read : r.bound # rev.result
  <2>2. Verify = IF bad THEN "failed" ELSE IF rev.result = None THEN "incomplete" ELSE "verified"
    BY DEF Verify
  <2>3. bad <=> lost # {} \/ \E r \in stored : ~(Configured /\ r.mac.key = key)
    BY <1>1, MacHolds
  <2>4. Verify = "verified" <=> /\ lost = {} /\ Configured /\ rev.result # None
                                /\ \A r \in stored : r.mac.key = key
    <3> HIDE DEF bad
    <3>1. QED BY <2>1, <2>2, <2>3
  <2>5. ASSUME task.status = "succeeded", NEW r \in Verdicts
        PROVE  VerifiedPass(r) <=> Configured /\ r.mac.key = key
    <3>1. r.status = "PASS" /\ Acceptable(r) /\ r \in stored
      BY <1>1, <2>5 DEF IInv, SuccessIsAccepted, Verdicts
    <3>2. QED BY <1>1, <3>1, MacHolds DEF VerifiedPass
  <2>6. QED BY <2>4, <2>5
<1>2. QED BY <1>1, EvaluationInvariance, PTL
===============================================================================
