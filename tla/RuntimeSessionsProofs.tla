------------------------- MODULE RuntimeSessionsProofs -------------------------
(***************************************************************************)
(* Proofs about RuntimeSessions for any number of session ids, events and   *)
(* crashes.                                                                *)
(*                                                                         *)
(* The events of an Attempt are a chain of sessions, each with a stream     *)
(* that is numbered from 1 (Recorded).  This is said of the committed rows  *)
(* as well as of everything written, for a crash goes back to the former.   *)
(* A controller is fresh or bound to the end of the chain (Knows), and a    *)
(* call in flight is about a session that the runtime has and nobody has    *)
(* superseded (InCall): the runtime has one session until its process ends, *)
(* so nothing can retire a session under a call.                           *)
(***************************************************************************)
EXTENDS RuntimeSessions, FiniteSetTheorems, TLAPS

(***************************************************************************)
(* Induction, as the least number with a property: the sets 0 .. n are     *)
(* well-founded by inclusion.                                              *)
(***************************************************************************)
LEMMA LeastNumber ==
  ASSUME NEW T \in SUBSET Nat, T # {}
  PROVE  \E m \in T : \A k \in T : m <= k
<1> DEFINE I == {0 .. n : n \in T}
<1>1. I \subseteq FiniteSubsetsOf(Nat) /\ I # {}
  <2>1. \A n \in T : 0 .. n \in SUBSET Nat /\ IsFiniteSet(0 .. n)
    BY FS_Interval
  <2>2. QED BY <2>1 DEF FiniteSubsetsOf
<1>2. PICK x \in I : \A y \in I : ~(<<y, x>> \in StrictSubsetOrdering(Nat))
  <2> HIDE DEF I
  <2> QED BY <1>1, FS_StrictSubsetOrderingWellFounded, WFMin
<1>3. PICK m \in T : x = 0 .. m
  OBVIOUS
<1>4. ASSUME NEW k \in T, k < m PROVE FALSE
  <2>1. 0 .. k \in I /\ ~(<<0 .. k, 0 .. m>> \in StrictSubsetOrdering(Nat))
    BY <1>2, <1>3
  <2>2. 0 .. k \subseteq 0 .. m /\ m \in 0 .. m /\ m \notin 0 .. k
    BY <1>4
  <2>3. QED BY <2>1, <2>2 DEF StrictSubsetOrdering
<1>5. QED BY <1>4

-----------------------------------------------------------------------------
(***************************************************************************)
(* What is recorded.                                                       *)
(***************************************************************************)
Event == [sess : Sessions, n : Nat \ {0}, kind : Kinds, old : Sessions \cup {0}, pane : Nat]
SessionsOf(E) == {e.sess : e \in E}
Retired(E) == {e.old : e \in E} \ {0}
Numbers(E, s) == {e.n : e \in {f \in E : f.sess = s}}

\* Every stream is numbered from 1, and its first event is a start.
Whole(E) ==
  /\ \A s \in Sessions : \E k \in Nat : Numbers(E, s) = 1 .. k
  /\ \A e, f \in E : e.sess = f.sess /\ e.n = f.n => e = f
  /\ \A e \in E : e.n = 1 => e.kind = "started"

\* The sessions stand in a line, each behind the one it supersedes.
Placed(E, pos) ==
  /\ \A e \in E : e.old # 0 => e.old \in SessionsOf(E) /\ pos[e.sess] = pos[e.old] + 1
  /\ \A s \in SessionsOf(E) : pos[s] = 0 \/ \E e \in E : e.sess = s /\ e.old # 0
  /\ \A s, u \in SessionsOf(E) : pos[s] = pos[u] => s = u
Chain(E) ==
  /\ \E pos \in [Sessions -> Nat] : Placed(E, pos)
  /\ \A s, u \in SessionsOf(E) \ Retired(E) : s = u
  /\ \A e \in E : e.old # 0 => e.kind = "started"

Recorded(E) == E \subseteq Event /\ IsFiniteSet(E) /\ Whole(E) /\ Chain(E)

\* An event may be added with the next number, as a start if it is the first, to
\* a session of the chain or as the successor of the session that ends it.
Fits(E, e) ==
  /\ \E k \in Nat : Numbers(E, e.sess) = 1 .. k /\ e.n = k + 1 /\ (k = 0 => e.kind = "started")
  /\ e.old = 0 => E = {} \/ e.sess \in SessionsOf(E)
  /\ e.old # 0 => /\ e.kind = "started" /\ e.sess \notin SessionsOf(E)
                  /\ e.old \in SessionsOf(E) \ Retired(E)

LEMMA WholeGrows ==
  ASSUME NEW E \in SUBSET Event, Whole(E), NEW e \in Event, Fits(E, e)
  PROVE  Whole(E \cup {e})
<1>1. PICK k \in Nat : Numbers(E, e.sess) = 1 .. k /\ e.n = k + 1 /\ (k = 0 => e.kind = "started")
  BY DEF Fits
<1>2. \A s \in Sessions : Numbers(E \cup {e}, s) = Numbers(E, s) \cup (IF s = e.sess THEN {e.n} ELSE {})
  BY DEF Numbers
<1>3. ASSUME NEW s \in Sessions PROVE \E j \in Nat : Numbers(E \cup {e}, s) = 1 .. j
  <2>1. CASE s = e.sess
    <3>1. Numbers(E \cup {e}, s) = (1 .. k) \cup {k + 1}
      BY <1>1, <1>2, <2>1
    <3>2. (1 .. k) \cup {k + 1} = 1 .. (k + 1)
      BY <1>1
    <3>3. Numbers(E \cup {e}, s) = 1 .. (k + 1)
      BY <3>1, <3>2, Zenon
    <3>4. k + 1 \in Nat
      OBVIOUS
    <3>5. QED BY <3>3, <3>4, Zenon
  <2>2. CASE s # e.sess
    <3>1. Numbers(E \cup {e}, s) = Numbers(E, s)
      BY <1>2, <2>2
    <3>2. QED BY <3>1 DEF Whole
  <2>3. QED BY <2>1, <2>2
<1>4. \A f \in E : f.sess = e.sess => f.n \in 1 .. k
  BY <1>1 DEF Numbers
<1>5. \A f \in E : f.sess = e.sess => f.n # e.n
  BY <1>1, <1>4
<1>6. \A f, g \in E \cup {e} : f.sess = g.sess /\ f.n = g.n => f = g
  BY <1>5 DEF Whole
<1>7. \A f \in E \cup {e} : f.n = 1 => f.kind = "started"
  BY <1>1 DEF Whole
<1>8. QED BY <1>3, <1>6, <1>7 DEF Whole

LEMMA ChainGrows ==
  ASSUME NEW E \in SUBSET Event, Chain(E), NEW e \in Event, Fits(E, e)
  PROVE  Chain(E \cup {e})
<1> DEFINE F == E \cup {e}
<1>1. PICK pos \in [Sessions -> Nat] : Placed(E, pos)
  BY DEF Chain
<1>a. e.sess \in Sessions /\ SessionsOf(E) \subseteq Sessions /\ SessionsOf(F) = SessionsOf(E) \cup {e.sess}
      /\ \A f \in E : f.sess \in SessionsOf(E) /\ f.old \in Sessions \cup {0}
  BY DEF Event, SessionsOf
<1>b. Retired(F) = Retired(E) \cup ({e.old} \ {0})
  BY DEF Retired
<1>2. CASE e.old = 0 /\ e.sess \in SessionsOf(E)
  <2>1. SessionsOf(F) = SessionsOf(E) /\ Retired(F) = Retired(E)
    BY <1>2, <1>a, <1>b
  <2>2. Placed(F, pos)
    BY <1>1, <1>2, <2>1 DEF Placed
  <2>3. QED BY <1>2, <2>1, <2>2 DEF Chain
<1>3. CASE e.old = 0 /\ E = {}
  <2>1. Placed(F, [s \in Sessions |-> 0])
    BY <1>3, <1>a DEF Placed, SessionsOf
  <2>2. \A s, u \in SessionsOf(F) : s = u
    BY <1>3 DEF SessionsOf
  <2>3. [s \in Sessions |-> 0] \in [Sessions -> Nat] /\ \A f \in F : f.old = 0
    BY <1>3
  <2>4. QED BY <2>1, <2>2, <2>3 DEF Chain
<1>4. CASE e.old # 0
  <2>a. /\ e.kind = "started" /\ e.sess \notin SessionsOf(E)
        /\ e.old \in SessionsOf(E) /\ e.old \notin Retired(E) /\ e.old # e.sess
    BY <1>4 DEF Fits
  <2> DEFINE new == [pos EXCEPT ![e.sess] = pos[e.old] + 1]
  <2>1. /\ new \in [Sessions -> Nat] /\ new[e.sess] = pos[e.old] + 1
        /\ \A s \in SessionsOf(E) : new[s] = pos[s]
    BY <1>a, <2>a
  <2>2. \A s \in SessionsOf(E) : pos[s] # pos[e.old] + 1
    <3>1. SUFFICES ASSUME NEW s \in SessionsOf(E), pos[s] = pos[e.old] + 1 PROVE FALSE
      OBVIOUS
    <3>2. pos[s] # 0 /\ pos[s] \in Nat /\ pos[e.old] \in Nat
      BY <1>a, <2>a, <3>1
    <3>3. PICK f \in E : f.sess = s /\ f.old # 0
      BY <1>1, <3>2 DEF Placed
    <3>4. f.old \in SessionsOf(E) /\ pos[s] = pos[f.old] + 1 /\ pos[f.old] \in Nat
      BY <1>1, <1>a, <3>3 DEF Placed
    <3>5. f.old = e.old
      <4>1. pos[f.old] = pos[e.old]
        BY <3>1, <3>2, <3>4
      <4>2. QED BY <1>1, <2>a, <3>4, <4>1 DEF Placed
    <3>6. QED BY <2>a, <3>3, <3>5 DEF Retired
  <2> HIDE DEF new
  <2>3. Placed(F, new)
    <3>1. ASSUME NEW f \in F, f.old # 0
          PROVE  f.old \in SessionsOf(F) /\ new[f.sess] = new[f.old] + 1
      BY <1>1, <1>a, <2>a, <2>1, <3>1 DEF Placed
    <3>2. ASSUME NEW s \in SessionsOf(F) PROVE new[s] = 0 \/ \E f \in F : f.sess = s /\ f.old # 0
      BY <1>1, <1>4, <1>a, <2>1 DEF Placed
    <3>3. ASSUME NEW s \in SessionsOf(F), NEW u \in SessionsOf(F), new[s] = new[u] PROVE s = u
      BY <1>1, <1>a, <2>1, <2>2, <3>3 DEF Placed
    <3>4. QED BY <3>1, <3>2, <3>3 DEF Placed
  <2>4. \A s, u \in SessionsOf(F) \ Retired(F) : s = u
    <3>1. \A s \in SessionsOf(F) \ Retired(F) : s = e.sess
      BY <1>4, <1>a, <1>b, <2>a DEF Chain
    <3>2. QED BY <3>1
  <2>5. \A f \in F : f.old # 0 => f.kind = "started"
    BY <2>a DEF Chain
  <2>6. QED BY <2>1, <2>3, <2>4, <2>5 DEF Chain
<1>5. QED BY <1>2, <1>3, <1>4 DEF Fits

LEMMA RecordedGrows ==
  ASSUME NEW E, Recorded(E), NEW e \in Event, Fits(E, e)
  PROVE  Recorded(E \cup {e})
<1>1. E \in SUBSET Event /\ IsFiniteSet(E) /\ Whole(E) /\ Chain(E)
  BY DEF Recorded
<1>2. Whole(E \cup {e}) /\ Chain(E \cup {e})
  BY <1>1, WholeGrows, ChainGrows
<1>3. IsFiniteSet(E \cup {e})
  BY <1>1, FS_AddElement
<1>4. QED BY <1>1, <1>2, <1>3 DEF Recorded

-----------------------------------------------------------------------------
(***************************************************************************)
(* The order of a replay is the order of the chain.                        *)
(***************************************************************************)
LEMMA SupersedesIsPrevious ==
  ASSUME NEW E \in SUBSET Event, Chain(E), NEW pos \in [Sessions -> Nat], Placed(E, pos)
  PROVE  /\ Supersedes(E) \in [Sessions -> Sessions \cup {0}]
         /\ \A s \in Sessions : Supersedes(E)[s] # 0 =>
              Supersedes(E)[s] \in SessionsOf(E) /\ pos[s] = pos[Supersedes(E)[s]] + 1
         /\ \A s \in SessionsOf(E) : Supersedes(E)[s] = 0 => pos[s] = 0
<1> DEFINE Olds(s) == {e.old : e \in {f \in E : f.sess = s /\ f.kind = "started"}} \ {0}
<1>1. \A s \in Sessions : Supersedes(E)[s] = IF Olds(s) = {} THEN 0 ELSE CHOOSE o \in Olds(s) : TRUE
  BY DEF Supersedes
<1>2. Supersedes(E) = [s \in Sessions |-> Supersedes(E)[s]]
  BY DEF Supersedes
<1>3. \A s \in Sessions : \A o \in Olds(s) :
        \E e \in E : e.sess = s /\ e.old = o /\ o # 0 /\ o \in Sessions
  BY DEF Event
<1>4. \A s \in Sessions : \A e \in E : e.sess = s /\ e.old # 0 => e.old \in Olds(s)
  BY DEF Chain
<1> HIDE DEF Olds
<1>5. \A s \in Sessions : Supersedes(E)[s] # 0 => Supersedes(E)[s] \in Olds(s)
  BY <1>1
<1>6. ASSUME NEW s \in Sessions, Supersedes(E)[s] # 0
      PROVE  Supersedes(E)[s] \in SessionsOf(E) /\ pos[s] = pos[Supersedes(E)[s]] + 1
             /\ Supersedes(E)[s] \in Sessions
  <2>1. PICK e \in E : e.sess = s /\ e.old = Supersedes(E)[s] /\ e.old # 0 /\ e.old \in Sessions
    BY <1>3, <1>5, <1>6
  <2>2. QED BY <2>1 DEF Placed
<1>7. ASSUME NEW s \in SessionsOf(E), Supersedes(E)[s] = 0 PROVE pos[s] = 0
  <2>1. s \in Sessions
    BY DEF SessionsOf, Event
  <2>2. Olds(s) = {}
    <3>1. SUFFICES ASSUME Olds(s) # {} PROVE FALSE
      OBVIOUS
    <3>2. (CHOOSE o \in Olds(s) : TRUE) \in Olds(s)
      BY <3>1
    <3>3. QED BY <1>1, <1>3, <1>7, <2>1, <3>1, <3>2
  <2>3. QED BY <1>4, <2>1, <2>2 DEF Placed
<1>8. Supersedes(E) \in [Sessions -> Sessions \cup {0}]
  <2>1. \A s \in Sessions : Supersedes(E)[s] \in Sessions \cup {0}
    BY <1>6
  <2>2. QED BY <1>2, <2>1
<1>9. QED BY <1>6, <1>7, <1>8

\* generation counts back to the first session.
LEMMA GenerationIsPlace ==
  ASSUME NEW E \in SUBSET Event, Chain(E), NEW pos \in [Sessions -> Nat], Placed(E, pos)
  PROVE  \A s \in SessionsOf(E) : Generation(Supersedes(E))[s] = pos[s]
<1> DEFINE sup == Supersedes(E)
           Depth(g) == [s \in Sessions |-> IF sup[s] = 0 THEN 0 ELSE 1 + g[sup[s]]]
           gen == Generation(sup)
           g0 == [s \in Sessions |-> IF sup[s] = 0 THEN 0 ELSE pos[s]]
<1>a. /\ sup \in [Sessions -> Sessions \cup {0}]
      /\ \A s \in Sessions : sup[s] # 0 => sup[s] \in SessionsOf(E) /\ pos[s] = pos[sup[s]] + 1
      /\ \A s \in SessionsOf(E) : sup[s] = 0 => pos[s] = 0
  BY SupersedesIsPrevious
<1>b. SessionsOf(E) \subseteq Sessions
  BY DEF SessionsOf, Event
<1> HIDE DEF sup
<1>1. g0 = Depth(g0)
  <2>1. \A s \in Sessions : sup[s] # 0 => g0[sup[s]] = pos[sup[s]] /\ pos[sup[s]] \in Nat
    BY <1>a, <1>b
  <2>2. \A s \in Sessions : g0[s] = IF sup[s] = 0 THEN 0 ELSE 1 + g0[sup[s]]
    BY <1>a, <2>1
  <2>3. QED BY <2>2
<1>2. gen = CHOOSE g : g = Depth(g)
  BY DEF Generation
<1> HIDE DEF g0, gen
<1>3. gen = Depth(gen)
  BY <1>1, <1>2
<1>4. \A s \in Sessions : gen[s] = IF sup[s] = 0 THEN 0 ELSE 1 + gen[sup[s]]
  BY <1>3
<1>5. SUFFICES ASSUME NEW s \in SessionsOf(E), gen[s] # pos[s] PROVE FALSE
  BY DEF gen, sup
<1> DEFINE Bad == {pos[u] : u \in {v \in SessionsOf(E) : gen[v] # pos[v]}}
<1>6. Bad \in SUBSET Nat /\ Bad # {}
  BY <1>5, <1>b
<1>7. PICK m \in Bad : \A k \in Bad : m <= k
  <2> HIDE DEF Bad
  <2> QED BY <1>6, LeastNumber
<1>8. PICK u \in SessionsOf(E) : gen[u] # pos[u] /\ m = pos[u]
  OBVIOUS
<1>9. sup[u] # 0
  BY <1>4, <1>8, <1>a, <1>b
<1>10. sup[u] \in SessionsOf(E) /\ pos[u] = pos[sup[u]] + 1 /\ pos[sup[u]] \in Nat
  BY <1>9, <1>a, <1>b
<1>11. gen[sup[u]] = pos[sup[u]]
  <2>1. SUFFICES ASSUME gen[sup[u]] # pos[sup[u]] PROVE FALSE
    OBVIOUS
  <2>2. pos[sup[u]] \in Bad
    BY <2>1, <1>10
  <2>3. m <= pos[sup[u]]
    BY <1>7, <2>2
  <2>4. QED BY <1>8, <1>10, <2>3
<1>12. QED BY <1>4, <1>8, <1>9, <1>10, <1>11, <1>b

\* The order of the chain, and of the numbers within a session.
Earlier(pos, e, f) == pos[e.sess] < pos[f.sess] \/ (e.sess = f.sess /\ e.n < f.n)

LEMMA OrderIsEarlier ==
  ASSUME NEW E \in SUBSET Event, Chain(E), NEW pos \in [Sessions -> Nat], Placed(E, pos),
         NEW e \in E, NEW f \in E
  PROVE  Before(Generation(Supersedes(E)), e, f) <=> Earlier(pos, e, f)
<1> DEFINE gen == Generation(Supersedes(E))
<1>1. e.sess \in SessionsOf(E) /\ f.sess \in SessionsOf(E) /\ e.sess \in Sessions /\ f.sess \in Sessions
  BY DEF SessionsOf, Event
<1>2. gen[e.sess] = pos[e.sess] /\ gen[f.sess] = pos[f.sess]
  BY <1>1, GenerationIsPlace
<1>3. pos[e.sess] = pos[f.sess] => e.sess = f.sess
  BY <1>1 DEF Placed
<1> HIDE DEF gen
<1>4. Before(gen, e, f) <=> Earlier(pos, e, f)
  BY <1>1, <1>2, <1>3 DEF Before, Earlier, Sessions
<1>5. QED BY <1>4 DEF gen

\* sorted lists every event once, the earlier ones first.
LEMMA InOrderSorts ==
  ASSUME NEW E, Recorded(E), NEW pos \in [Sessions -> Nat], Placed(E, pos)
  PROVE  /\ Cardinality(E) \in Nat
         /\ \A i \in 1 .. Cardinality(E) : InOrder(E)[i] \in E
         /\ \A e \in E : \E i \in 1 .. Cardinality(E) : InOrder(E)[i] = e
         /\ \A i, j \in 1 .. Cardinality(E) : i < j => Earlier(pos, InOrder(E)[i], InOrder(E)[j])
<1> DEFINE n == Cardinality(E)
           q == InOrder(E)
           gen == Generation(Supersedes(E))
           Ahead(e) == {f \in E : Before(gen, f, e)}
           rank == [e \in E |-> Cardinality(Ahead(e))]
           Places == 0 .. (n - 1)
<1>a. E \in SUBSET Event /\ Chain(E) /\ IsFiniteSet(E) /\ Whole(E) /\ n \in Nat
  BY FS_CardinalityType DEF Recorded
<1>b. \A e \in E : e.sess \in SessionsOf(E) /\ e.sess \in Sessions /\ e.n \in Nat /\ pos[e.sess] \in Nat
  BY <1>a DEF SessionsOf, Event
<1>1. \A e, f \in E : Before(gen, e, f) <=> Earlier(pos, e, f)
  BY <1>a, OrderIsEarlier
<1> HIDE DEF gen
<1>2. \A e \in E : ~Before(gen, e, e)
  BY <1>1, <1>b DEF Earlier
<1>3. \A e, f \in E : e # f => Before(gen, e, f) \/ Before(gen, f, e)
  <2>1. ASSUME NEW e \in E, NEW f \in E, e # f PROVE Earlier(pos, e, f) \/ Earlier(pos, f, e)
    <3>1. pos[e.sess] = pos[f.sess] => e.sess = f.sess
      BY <1>b DEF Placed
    <3>2. e.sess = f.sess => e.n # f.n
      BY <1>a, <2>1 DEF Whole
    <3>3. QED BY <1>b, <3>1, <3>2 DEF Earlier
  <2>2. QED BY <1>1, <2>1
<1>4. \A e, f, g \in E : Before(gen, e, f) /\ Before(gen, f, g) => Before(gen, e, g)
  <2>1. ASSUME NEW e \in E, NEW f \in E, NEW g \in E, Earlier(pos, e, f), Earlier(pos, f, g)
        PROVE  Earlier(pos, e, g)
    BY <1>b, <2>1 DEF Earlier
  <2>2. QED BY <1>1, <2>1
<1>5. \A e \in E : IsFiniteSet(Ahead(e)) /\ Cardinality(Ahead(e)) \in Places
  <2>1. SUFFICES ASSUME NEW e \in E PROVE IsFiniteSet(Ahead(e)) /\ Cardinality(Ahead(e)) \in Places
    OBVIOUS
  <2>2. IsFiniteSet(E \ {e}) /\ Cardinality(E \ {e}) = n - 1
    BY <1>a, FS_RemoveElement
  <2>3. Ahead(e) \in SUBSET (E \ {e})
    BY <1>2
  <2> HIDE DEF Ahead
  <2>4. IsFiniteSet(Ahead(e)) /\ Cardinality(Ahead(e)) <= n - 1
    BY <2>2, <2>3, FS_Subset
  <2>5. QED BY <1>a, <2>4, FS_CardinalityType
<1>6. \A e, f \in E : Before(gen, e, f) => Cardinality(Ahead(e)) < Cardinality(Ahead(f))
  <2>1. SUFFICES ASSUME NEW e \in E, NEW f \in E, Before(gen, e, f)
                 PROVE  Cardinality(Ahead(e)) < Cardinality(Ahead(f))
    OBVIOUS
  <2>2. Ahead(e) \in SUBSET Ahead(f) /\ e \in Ahead(f) /\ e \notin Ahead(e)
    BY <1>2, <1>4, <2>1
  <2>3. Ahead(e) # Ahead(f)
    BY <2>2
  <2>4. IsFiniteSet(Ahead(f)) /\ Cardinality(Ahead(e)) \in Places /\ Cardinality(Ahead(f)) \in Places
    BY <1>5
  <2> HIDE DEF Ahead
  <2>5. Cardinality(Ahead(e)) <= Cardinality(Ahead(f)) /\ Cardinality(Ahead(e)) # Cardinality(Ahead(f))
    BY <2>2, <2>3, <2>4, FS_Subset
  <2>6. QED BY <1>a, <2>4, <2>5
<1>7. \A k \in Places : \E e \in E : Cardinality(Ahead(e)) = k
  <2>1. rank \in [E -> Places] /\ \A e \in E : rank[e] = Cardinality(Ahead(e))
    BY <1>5
  <2>2. \A e, f \in E : rank[e] = rank[f] => e = f
    <3>1. SUFFICES ASSUME NEW e \in E, NEW f \in E, rank[e] = rank[f], e # f PROVE FALSE
      OBVIOUS
    <3>2. Before(gen, e, f) \/ Before(gen, f, e)
      BY <1>3, <3>1
    <3>3. rank[e] \in Places /\ rank[f] \in Places /\ (rank[e] < rank[f] \/ rank[f] < rank[e])
      BY <1>6, <2>1, <3>2
    <3>4. QED BY <1>a, <3>1, <3>3
  <2>3. IsFiniteSet(Places) /\ Cardinality(Places) = n
    <3>1. 0 \in Int /\ n - 1 \in Int
      BY <1>a
    <3>2. QED BY <1>a, <3>1, FS_Interval
  <2> HIDE DEF rank, Places, Ahead
  <2>4. rank \in Injection(E, Places)
    BY <2>1, <2>2 DEF Injection, IsInjective
  <2>5. rank \in Surjection(E, Places)
    BY <2>3, <2>4, FS_Injection
  <2>6. QED BY <2>1, <2>5 DEF Surjection
<1>8. \A i \in 1 .. n : q[i] = CHOOSE e \in E : Cardinality(Ahead(e)) = i - 1
  BY DEF InOrder, gen
<1> HIDE DEF q
<1>9. \A i \in 1 .. n : q[i] \in E /\ Cardinality(Ahead(q[i])) = i - 1
  <2>1. SUFFICES ASSUME NEW i \in 1 .. n PROVE q[i] \in E /\ Cardinality(Ahead(q[i])) = i - 1
    OBVIOUS
  <2>2. i - 1 \in Places
    BY <1>a
  <2>3. \E e \in E : Cardinality(Ahead(e)) = i - 1
    BY <1>7, <2>2
  <2> HIDE DEF Ahead
  <2>4. QED BY <1>8, <2>3
<1>10. \A e, f \in E : Cardinality(Ahead(e)) = Cardinality(Ahead(f)) => e = f
  <2>1. SUFFICES ASSUME NEW e \in E, NEW f \in E, Cardinality(Ahead(e)) = Cardinality(Ahead(f)), e # f
                 PROVE  FALSE
    OBVIOUS
  <2>2. Cardinality(Ahead(e)) \in Places /\ Cardinality(Ahead(f)) \in Places
    BY <1>5
  <2> HIDE DEF Ahead
  <2>3. QED BY <1>3, <1>6, <1>a, <2>1, <2>2
<1>11. ASSUME NEW e \in E PROVE \E i \in 1 .. n : q[i] = e
  <2>1. PICK k \in Places : k = Cardinality(Ahead(e))
    BY <1>5
  <2>2. k + 1 \in 1 .. n /\ (k + 1) - 1 = k
    BY <1>a
  <2> HIDE DEF Ahead
  <2>3. q[k + 1] \in E /\ Cardinality(Ahead(q[k + 1])) = k
    BY <1>9, <2>2
  <2>4. QED BY <1>10, <2>1, <2>2, <2>3
<1>12. ASSUME NEW i \in 1 .. n, NEW j \in 1 .. n, i < j PROVE Earlier(pos, q[i], q[j])
  <2>1. /\ q[i] \in E /\ Cardinality(Ahead(q[i])) = i - 1
        /\ q[j] \in E /\ Cardinality(Ahead(q[j])) = j - 1
    BY <1>9
  <2> HIDE DEF Ahead
  <2>2. q[i] # q[j]
    BY <1>12, <1>a, <2>1
  <2>3. ~Before(gen, q[j], q[i])
    BY <1>6, <1>12, <1>a, <2>1
  <2>4. QED BY <1>1, <1>3, <2>1, <2>2, <2>3
<1>13. QED BY <1>a, <1>9, <1>11, <1>12 DEF q

(***************************************************************************)
(* A replay applies the events one after the other.                        *)
(***************************************************************************)
LEMMA ReplaySteps ==
  ASSUME NEW c, NEW E, Cardinality(E) \in Nat
  PROVE  \E upto : /\ upto[0] = [ctl |-> c, raised |-> FALSE]
                   /\ \A i \in 1 .. Cardinality(E) :
                        upto[i] = Takes(Supersedes(E), upto[i - 1], InOrder(E)[i])
                   /\ Replay(c, E) = upto[Cardinality(E)].ctl
<1> DEFINE n == Cardinality(E)
           fresh == [ctl |-> c, raised |-> FALSE]
           sup == Supersedes(E)
           q == InOrder(E)
           Upto(g, m) == [i \in 0 .. m |-> IF i = 0 THEN fresh ELSE Takes(sup, g[i - 1], q[i])]
           Bad == {m \in 0 .. n : ~ \E g : g = Upto(g, m)}
<1>1. Replay(c, E) = (CHOOSE g : g = Upto(g, n))[n].ctl
  BY DEF Replay
<1> HIDE DEF sup, q, fresh
<1>2. Bad = {}
  <2>1. SUFFICES ASSUME Bad # {} PROVE FALSE
    OBVIOUS
  <2>2. Bad \in SUBSET Nat
    OBVIOUS
  <2>3. PICK m \in Bad : \A k \in Bad : m <= k
    <3> HIDE DEF Bad
    <3> QED BY <2>1, <2>2, LeastNumber
  <2>4. m \in 0 .. n /\ ~ \E g : g = Upto(g, m)
    OBVIOUS
  <2>5. m # 0
    <3>1. SUFFICES ASSUME m = 0 PROVE FALSE
      OBVIOUS
    <3> DEFINE g == [i \in 0 .. 0 |-> fresh]
    <3>2. \A i \in 0 .. 0 : i = 0
      OBVIOUS
    <3>3. g = Upto(g, 0)
      BY <3>2
    <3>4. QED BY <2>4, <3>1, <3>3
  <2>6. m - 1 \in 0 .. n /\ m \in Nat
    BY <2>4, <2>5
  <2>7. m - 1 \notin Bad
    BY <2>3, <2>6
  <2>8. PICK g : g = Upto(g, m - 1)
    BY <2>6, <2>7
  <2> DEFINE h == [i \in 0 .. m |-> IF i <= m - 1 THEN g[i] ELSE Takes(sup, g[m - 1], q[m])]
  <2>9. \A i \in 0 .. (m - 1) : g[i] = IF i = 0 THEN fresh ELSE Takes(sup, g[i - 1], q[i])
    BY <2>8
  <2>10. \A i \in 0 .. m : h[i] = IF i = 0 THEN fresh ELSE Takes(sup, h[i - 1], q[i])
    <3>1. SUFFICES ASSUME NEW i \in 0 .. m PROVE h[i] = IF i = 0 THEN fresh ELSE Takes(sup, h[i - 1], q[i])
      OBVIOUS
    <3>2. CASE i = 0
      BY <2>5, <2>6, <2>9, <3>2
    <3>3. CASE i # 0
      <4>1. i - 1 \in 0 .. (m - 1) /\ h[i - 1] = g[i - 1]
        BY <2>6, <3>3
      <4>2. CASE i <= m - 1
        <5>1. h[i] = g[i] /\ i \in 0 .. (m - 1)
          BY <2>6, <4>2
        <5>2. QED BY <2>9, <3>3, <4>1, <5>1
      <4>3. CASE i = m
        BY <2>6, <3>3, <4>1, <4>3
      <4>4. QED BY <2>6, <4>2, <4>3
    <3>4. QED BY <3>2, <3>3
  <2>11. h = Upto(h, m)
    BY <2>10
  <2>12. QED BY <2>4, <2>11
<1>3. \E g : g = Upto(g, n)
  BY <1>2
<1> DEFINE upto == CHOOSE g : g = Upto(g, n)
<1>4. upto = Upto(upto, n)
  BY <1>3
<1> HIDE DEF upto
<1>5. \A i \in 0 .. n : upto[i] = IF i = 0 THEN fresh ELSE Takes(sup, upto[i - 1], q[i])
  BY <1>4
<1>6. upto[0] = fresh /\ \A i \in 1 .. n : upto[i] = Takes(sup, upto[i - 1], q[i])
  BY <1>5
<1>7. Replay(c, E) = upto[n].ctl
  BY <1>1 DEF upto
<1>8. QED BY <1>6, <1>7 DEF sup, q, fresh

-----------------------------------------------------------------------------
(***************************************************************************)
(* What a controller knows of the events.                                  *)
(***************************************************************************)
Controller == [bound : Sessions \cup {0}, known : SUBSET Sessions, seqs : [Sessions -> Nat],
               unconfirmed : BOOLEAN, superseded : [Sessions -> Sessions \cup {0}],
               keys : SUBSET (Sessions \X Nat)]

\* It is fresh, or bound to the end of the chain; it has the last number of every
\* stream it has seen.
Tells(c, E) ==
  /\ c.bound = 0 => c = Fresh
  /\ c.bound # 0 => /\ c.bound \in SessionsOf(E) \ Retired(E) /\ c.bound \in c.known
                    /\ \A s \in Retired(E) : c.superseded[s] # 0
  /\ c.known \subseteq SessionsOf(E) /\ \A s \in c.known : c.seqs[s] # 0
  /\ \A s \in Sessions : c.seqs[s] # 0 => Numbers(E, s) = 1 .. c.seqs[s]
Keyed(c, E) == \A e \in E : <<e.sess, e.n>> \in c.keys

\* After i events of the list q.
Upon(c, q, i) ==
  /\ c \in Controller
  /\ i = 0 => c = Fresh
  /\ i # 0 => c.bound = q[i].sess
  /\ c.known = {q[j].sess : j \in 1 .. i}
  /\ c.keys = {<<q[j].sess, q[j].n>> : j \in 1 .. i}
  /\ \A s \in Sessions : c.seqs[s] = 0 \/ \E j \in 1 .. i : q[j].sess = s /\ q[j].n = c.seqs[s]
  /\ \A j \in 1 .. i : q[j].n <= c.seqs[q[j].sess]
  /\ \A j \in 1 .. i : q[j].sess = q[i].sess \/ c.superseded[q[j].sess] # 0

LEMMA FreshIsController == Fresh \in Controller
BY DEF Fresh, Controller, Nobody

\* The first event binds, one of another session rebinds to its successor.
LEMMA ReplayRebinds ==
  ASSUME NEW E, Recorded(E), NEW i \in 1 .. Cardinality(E), NEW c,
         Upon(c, InOrder(E), i - 1)
  PROVE  /\ ~Refuses(Supersedes(E), c, InOrder(E)[i])
         /\ Upon(Apply(Supersedes(E), c, InOrder(E)[i]), InOrder(E), i)
<1> DEFINE n == Cardinality(E)
           q == InOrder(E)
           sup == Supersedes(E)
           e == q[i]
           d == Apply(sup, c, e)
<1>a. E \in SUBSET Event /\ Chain(E) /\ Whole(E)
  BY DEF Recorded
<1>b. PICK pos \in [Sessions -> Nat] : Placed(E, pos)
  BY <1>a DEF Chain
<1>c. /\ n \in Nat /\ \A j \in 1 .. n : q[j] \in E
      /\ \A f \in E : \E j \in 1 .. n : q[j] = f
      /\ \A j, k \in 1 .. n : j < k => Earlier(pos, q[j], q[k])
  BY <1>b, InOrderSorts
<1>d. /\ sup \in [Sessions -> Sessions \cup {0}]
      /\ \A s \in Sessions : sup[s] # 0 => sup[s] \in SessionsOf(E) /\ pos[s] = pos[sup[s]] + 1
      /\ \A s \in SessionsOf(E) : sup[s] = 0 => pos[s] = 0
  BY <1>a, <1>b, SupersedesIsPrevious
<1>e. /\ SessionsOf(E) \subseteq Sessions
      /\ \A f \in E : f.sess \in SessionsOf(E) /\ f.sess \in Sessions /\ f.n \in Nat \ {0}
      /\ \A s \in SessionsOf(E) : \E f \in E : f.sess = s
  BY <1>a DEF SessionsOf, Event
<1>f. c \in Controller /\ Upon(c, q, i - 1)
  BY DEF Upon
<1> HIDE DEF q, sup
<1>g. i \in Nat \ {0} /\ i - 1 \in Nat /\ e \in E /\ 1 .. i \subseteq 1 .. n /\ 1 .. i = (1 .. (i - 1)) \cup {i}
  BY <1>c
<1>1. <<e.sess, e.n>> \notin c.keys
  <2>1. SUFFICES ASSUME NEW j \in 1 .. (i - 1), <<e.sess, e.n>> = <<q[j].sess, q[j].n>> PROVE FALSE
    BY <1>f DEF Upon
  <2>2. j \in 1 .. n /\ i \in 1 .. n /\ j < i
    BY <1>g
  <2>3. Earlier(pos, q[j], e) /\ q[j] \in E
    BY <1>c, <2>2
  <2>4. q[j].sess = e.sess /\ q[j].n = e.n
    BY <2>1
  <2>5. QED BY <1>b, <1>e, <1>g, <2>3, <2>4 DEF Earlier
<1>2. i # 1 => c.bound = q[i - 1].sess /\ c.bound # 0 /\ c.bound \in Sessions
  <2>1. SUFFICES ASSUME i # 1 PROVE c.bound = q[i - 1].sess /\ q[i - 1] \in E
    BY <1>e DEF Sessions
  <2>2. i - 1 \in 1 .. n /\ i - 1 # 0
    BY <1>g, <2>1
  <2>3. QED BY <1>c, <1>f, <2>2 DEF Upon
<1>3. i # 1 /\ c.bound # e.sess => sup[e.sess] = c.bound
  <2>1. SUFFICES ASSUME i # 1, c.bound # e.sess PROVE sup[e.sess] = c.bound
    OBVIOUS
  <2>2. i - 1 \in 1 .. n /\ i \in 1 .. n /\ i - 1 < i
    BY <1>g, <2>1
  <2> DEFINE b == q[i - 1]
  <2>3. b \in E /\ Earlier(pos, b, e) /\ c.bound = b.sess
    BY <1>2, <1>c, <2>1, <2>2
  <2>4. pos[b.sess] < pos[e.sess] /\ pos[b.sess] \in Nat /\ pos[e.sess] \in Nat
    BY <1>b, <1>e, <1>g, <2>1, <2>3 DEF Earlier
  <2>5. sup[e.sess] # 0
    BY <1>d, <1>e, <1>g, <2>4
  <2> DEFINE u == sup[e.sess]
  <2>6. u \in SessionsOf(E) /\ pos[e.sess] = pos[u] + 1 /\ pos[u] \in Nat
    BY <1>b, <1>d, <1>e, <1>g, <2>5
  <2>7. PICK k \in 1 .. n : q[k].sess = u
    BY <1>c, <1>e, <2>6
  <2>8. k < i
    <3>1. SUFFICES ASSUME i < k \/ i = k PROVE FALSE
      BY <1>g, <2>2
    <3>2. i # k
      BY <2>6, <2>7
    <3>3. Earlier(pos, e, q[k])
      BY <1>c, <2>2, <3>1, <3>2
    <3>4. QED BY <2>6, <2>7, <3>3 DEF Earlier
  <2>9. k = i - 1 \/ Earlier(pos, q[k], b)
    BY <1>c, <1>g, <2>2, <2>8
  <2>10. pos[u] <= pos[b.sess]
    BY <2>4, <2>6, <2>7, <2>9 DEF Earlier
  <2>11. pos[u] = pos[b.sess] /\ b.sess \in SessionsOf(E)
    BY <1>e, <2>3, <2>4, <2>6, <2>10
  <2>12. QED BY <1>b, <2>3, <2>6, <2>11 DEF Placed
<1>4. i = 1 => c.bound = 0
  BY <1>f DEF Upon, Fresh
<1>5. /\ d \in Controller
      /\ d.bound = e.sess
      /\ d.known = c.known \cup {e.sess}
      /\ d.keys = c.keys \cup {<<e.sess, e.n>>}
      /\ d.seqs = [c.seqs EXCEPT ![e.sess] = IF c.seqs[e.sess] < e.n THEN e.n ELSE c.seqs[e.sess]]
      /\ i # 1 /\ c.bound # e.sess => d.superseded = [c.superseded EXCEPT ![c.bound] = e.sess]
      /\ i = 1 \/ c.bound = e.sess => d.superseded = c.superseded
  <2>1. e.sess \in Sessions /\ e.n \in Nat
    BY <1>e, <1>g
  <2>2. c.bound # 0 /\ c.bound # e.sess => sup[e.sess] = c.bound
    BY <1>3, <1>4
  <2> DEFINE x == e
  <2> HIDE DEF x
  <2>x. x = e
    BY DEF x
  <2> HIDE DEF e
  <2> DEFINE seen == [c EXCEPT !.keys = @ \cup {<<x.sess, x.n>>}, !.known = @ \cup {x.sess},
                               !.seqs[x.sess] = IF @ < x.n THEN x.n ELSE @]
  <2>3. /\ seen \in Controller /\ seen.bound = c.bound /\ seen.superseded = c.superseded
        /\ seen.known = c.known \cup {x.sess} /\ seen.keys = c.keys \cup {<<x.sess, x.n>>}
        /\ seen.seqs = [c.seqs EXCEPT ![x.sess] = IF c.seqs[x.sess] < x.n THEN x.n ELSE c.seqs[x.sess]]
    <3> DEFINE y == [c.seqs EXCEPT ![x.sess] = IF c.seqs[x.sess] < x.n THEN x.n ELSE c.seqs[x.sess]]
               k == c.keys \cup {<<x.sess, x.n>>}
               w == c.known \cup {x.sess}
    <3>1. y \in [Sessions -> Nat] /\ k \in SUBSET (Sessions \X Nat) /\ w \in SUBSET Sessions
      BY <1>f, <2>1, <2>x DEF Controller
    <3>2. seen = [c EXCEPT !.keys = k, !.known = w, !.seqs = y]
      BY <1>f DEF Controller
    <3> HIDE DEF seen, y, k, w
    <3>3. /\ seen \in Controller /\ seen.bound = c.bound /\ seen.superseded = c.superseded
          /\ seen.known = w /\ seen.keys = k /\ seen.seqs = y
      BY <1>f, <3>1, <3>2 DEF Controller
    <3>4. QED BY <3>3 DEF y, k, w
  <2>4. CASE c.bound = 0
    <3>1. d = [seen EXCEPT !.bound = x.sess, !.unconfirmed = TRUE]
      BY <1>1, <2>4, <2>x DEF Apply
    <3> HIDE DEF seen
    <3>2. QED BY <1>2, <2>1, <2>3, <2>4, <2>x, <3>1 DEF Controller
  <2>5. CASE c.bound # 0 /\ c.bound = x.sess
    <3>1. d = seen
      BY <1>1, <2>5, <2>x DEF Apply
    <3> HIDE DEF seen
    <3>2. QED BY <1>4, <2>1, <2>3, <2>5, <2>x, <3>1 DEF Controller
  <2>6. CASE c.bound # 0 /\ c.bound # x.sess
    <3>1. d = [seen EXCEPT !.bound = x.sess, !.superseded[c.bound] = x.sess]
      BY <1>1, <2>2, <2>6, <2>x DEF Apply
    <3> HIDE DEF seen
    <3>2. c.bound \in Sessions /\ c.superseded \in [Sessions -> Sessions \cup {0}]
      BY <1>f, <2>6 DEF Controller
    <3> DEFINE z == [c.superseded EXCEPT ![c.bound] = x.sess]
    <3>3. z \in [Sessions -> Sessions \cup {0}] /\ x.sess \in Sessions
      BY <2>1, <2>x, <3>2
    <3>4. d = [seen EXCEPT !.bound = x.sess, !.superseded = z]
      BY <2>3, <3>1 DEF Controller
    <3> HIDE DEF z
    <3>5. /\ d \in Controller /\ d.bound = x.sess /\ d.known = seen.known /\ d.keys = seen.keys
          /\ d.seqs = seen.seqs /\ d.superseded = z
      BY <2>3, <3>3, <3>4 DEF Controller
    <3>6. QED BY <1>4, <2>3, <2>6, <2>x, <3>5 DEF z
  <2>7. QED BY <2>4, <2>5, <2>6
<1> HIDE DEF d
<1>6. d.known = {q[j].sess : j \in 1 .. i} /\ d.keys = {<<q[j].sess, q[j].n>> : j \in 1 .. i}
  <2>1. c.known = {q[j].sess : j \in 1 .. (i - 1)} /\ c.keys = {<<q[j].sess, q[j].n>> : j \in 1 .. (i - 1)}
    BY <1>f DEF Upon
  <2>2. {q[j].sess : j \in 1 .. i} = {q[j].sess : j \in 1 .. (i - 1)} \cup {e.sess}
    BY <1>g
  <2>3. {<<q[j].sess, q[j].n>> : j \in 1 .. i}
          = {<<q[j].sess, q[j].n>> : j \in 1 .. (i - 1)} \cup {<<e.sess, e.n>>}
    BY <1>g
  <2>4. QED BY <1>5, <2>1, <2>2, <2>3
<1>7. \A s \in Sessions : d.seqs[s] = 0 \/ \E j \in 1 .. i : q[j].sess = s /\ q[j].n = d.seqs[s]
  <2>1. SUFFICES ASSUME NEW s \in Sessions, d.seqs[s] # 0
                 PROVE  \E j \in 1 .. i : q[j].sess = s /\ q[j].n = d.seqs[s]
    OBVIOUS
  <2>2. CASE d.seqs[s] = e.n /\ s = e.sess
    BY <1>g, <2>2
  <2>3. CASE d.seqs[s] = c.seqs[s]
    BY <1>f, <1>g, <2>1, <2>3 DEF Upon
  <2>4. d.seqs[s] = IF s = e.sess /\ c.seqs[s] < e.n THEN e.n ELSE c.seqs[s]
    BY <1>5, <1>f DEF Controller
  <2>5. QED BY <2>2, <2>3, <2>4
<1>8. \A j \in 1 .. i : q[j].n <= d.seqs[q[j].sess]
  <2>1. SUFFICES ASSUME NEW j \in 1 .. i PROVE q[j].n <= d.seqs[q[j].sess]
    OBVIOUS
  <2>2. q[j] \in E /\ q[j].sess \in Sessions /\ q[j].n \in Nat /\ e.n \in Nat
    BY <1>c, <1>e, <1>g
  <2>3. c.seqs[q[j].sess] \in Nat
        /\ d.seqs[q[j].sess] = IF q[j].sess = e.sess /\ c.seqs[q[j].sess] < e.n THEN e.n ELSE c.seqs[q[j].sess]
    BY <1>5, <1>f, <2>2 DEF Controller
  <2>4. CASE j = i
    BY <2>2, <2>3, <2>4
  <2>5. CASE j \in 1 .. (i - 1)
    <3>1. q[j].n <= c.seqs[q[j].sess]
      BY <1>f, <2>5 DEF Upon
    <3>2. QED BY <2>2, <2>3, <3>1
  <2>6. QED BY <1>g, <2>4, <2>5
<1>9. \A j \in 1 .. i : q[j].sess = q[i].sess \/ d.superseded[q[j].sess] # 0
  <2>1. SUFFICES ASSUME NEW j \in 1 .. i, q[j].sess # e.sess PROVE d.superseded[q[j].sess] # 0
    OBVIOUS
  <2>2. j \in 1 .. (i - 1) /\ i # 1 /\ q[j].sess \in Sessions /\ e.sess # 0
    BY <1>c, <1>e, <1>g, <2>1 DEF Sessions
  <2>3. q[j].sess = c.bound \/ c.superseded[q[j].sess] # 0
    BY <1>2, <1>f, <2>2 DEF Upon
  <2>4. c.superseded \in [Sessions -> Sessions \cup {0}]
    BY <1>f DEF Controller
  <2>5. QED BY <1>2, <1>5, <2>1, <2>2, <2>3, <2>4
<1>10. Upon(d, q, i)
  BY <1>5, <1>6, <1>7, <1>8, <1>9, <1>g DEF Upon
<1>11. ~Refuses(sup, c, e)
  BY <1>3, <1>4 DEF Refuses
<1>12. QED BY <1>10, <1>11 DEF d, q, sup

\* An event that is not refused is applied.
LEMMA TakesApplies ==
  ASSUME NEW sup, NEW r, ~r.raised, NEW e, ~Refuses(sup, r.ctl, e)
  PROVE  ~Takes(sup, r, e).raised /\ Takes(sup, r, e).ctl = Apply(sup, r.ctl, e)
BY DEF Takes

\* recover in a new process finds the end of the chain, whatever was committed.
LEMMA ReplayOfFresh ==
  ASSUME NEW E, Recorded(E)
  PROVE  /\ Replay(Fresh, E) \in Controller
         /\ Tells(Replay(Fresh, E), E) /\ Keyed(Replay(Fresh, E), E)
         /\ E # {} => Replay(Fresh, E).bound # 0
<1> DEFINE n == Cardinality(E)
           q == InOrder(E)
<1>a. E \in SUBSET Event /\ Chain(E) /\ Whole(E)
  BY DEF Recorded
<1>b. PICK pos \in [Sessions -> Nat] : Placed(E, pos)
  BY <1>a DEF Chain
<1>c. /\ n \in Nat /\ \A j \in 1 .. n : q[j] \in E
      /\ \A f \in E : \E j \in 1 .. n : q[j] = f
      /\ \A j, k \in 1 .. n : j < k => Earlier(pos, q[j], q[k])
  BY <1>b, InOrderSorts
<1>d. /\ SessionsOf(E) \subseteq Sessions
      /\ \A f \in E : f.sess \in SessionsOf(E) /\ f.sess \in Sessions /\ f.n \in Nat \ {0}
      /\ \A s \in SessionsOf(E) : \E f \in E : f.sess = s
  BY <1>a DEF SessionsOf, Event
<1>1. PICK upto : /\ upto[0] = [ctl |-> Fresh, raised |-> FALSE]
                  /\ \A i \in 1 .. n : upto[i] = Takes(Supersedes(E), upto[i - 1], q[i])
                  /\ Replay(Fresh, E) = upto[n].ctl
  BY <1>c, ReplaySteps
<1> DEFINE Good(i) == ~upto[i].raised /\ Upon(upto[i].ctl, q, i)
<1>2. Good(0)
  <2>1. 1 .. 0 = {}
    OBVIOUS
  <2>2. Fresh.known = {} /\ Fresh.keys = {} /\ \A s \in Sessions : Fresh.seqs[s] = 0
    BY DEF Fresh, Nobody
  <2>3. Upon(Fresh, q, 0)
    BY <2>1, <2>2, FreshIsController DEF Upon
  <2>4. QED BY <1>1, <2>3
<1>3. \A i \in 1 .. n : Good(i - 1) => Good(i)
  <2>1. SUFFICES ASSUME NEW i \in 1 .. n, Good(i - 1) PROVE Good(i)
    OBVIOUS
  <2> DEFINE c == upto[i - 1].ctl
  <2>2. ~Refuses(Supersedes(E), c, q[i]) /\ Upon(Apply(Supersedes(E), c, q[i]), q, i)
    BY <2>1, ReplayRebinds
  <2>3. QED BY <1>1, <2>1, <2>2, TakesApplies
<1> HIDE DEF q, Good
<1> DEFINE Bad == {i \in 0 .. n : ~Good(i)}
<1>4. Bad = {}
  <2>1. SUFFICES ASSUME Bad # {} PROVE FALSE
    OBVIOUS
  <2>2. PICK m \in Bad : \A k \in Bad : m <= k
    <3>1. Bad \in SUBSET Nat
      OBVIOUS
    <3> HIDE DEF Bad
    <3>2. QED BY <2>1, <3>1, LeastNumber
  <2>3. m \in 0 .. n /\ ~Good(m)
    OBVIOUS
  <2>4. m # 0
    BY <1>2, <2>3
  <2>5. m \in 1 .. n /\ m - 1 \in 0 .. n
    BY <1>c, <2>3, <2>4
  <2>6. m - 1 \notin Bad
    BY <2>2, <2>5
  <2>7. QED BY <1>3, <2>3, <2>5, <2>6
<1> DEFINE c == Replay(Fresh, E)
<1>5. Upon(c, q, n)
  BY <1>1, <1>4, <1>c DEF Good
<1> HIDE DEF c, Bad
<1>6. c \in Controller
  BY <1>5 DEF Upon
<1>7. c.known = SessionsOf(E)
  <2>1. c.known = {q[j].sess : j \in 1 .. n}
    BY <1>5 DEF Upon
  <2>2. QED BY <1>c, <1>d, <2>1
<1>8. Keyed(c, E)
  <2>1. c.keys = {<<q[j].sess, q[j].n>> : j \in 1 .. n}
    BY <1>5 DEF Upon
  <2>2. QED BY <1>c, <2>1 DEF Keyed
<1>9. \A f \in E : f.n <= c.seqs[f.sess]
  BY <1>c, <1>5 DEF Upon
<1>10. \A s \in Sessions : c.seqs[s] # 0 => Numbers(E, s) = 1 .. c.seqs[s]
  <2>1. SUFFICES ASSUME NEW s \in Sessions, c.seqs[s] # 0 PROVE Numbers(E, s) = 1 .. c.seqs[s]
    OBVIOUS
  <2>2. PICK k \in Nat : Numbers(E, s) = 1 .. k
    BY <1>a DEF Whole
  <2>3. c.seqs[s] \in Nat
    BY <1>6 DEF Controller
  <2>4. c.seqs[s] \in 1 .. k
    <3>1. PICK j \in 1 .. n : q[j].sess = s /\ q[j].n = c.seqs[s]
      BY <1>5, <2>1 DEF Upon
    <3>2. q[j] \in E
      BY <1>c
    <3>3. q[j].n \in Numbers(E, s)
      BY <3>1, <3>2 DEF Numbers
    <3>4. QED BY <2>2, <3>1, <3>3
  <2>5. k <= c.seqs[s]
    <3>1. k \in Numbers(E, s)
      BY <2>2, <2>4
    <3>2. PICK f \in E : f.sess = s /\ f.n = k
      BY <3>1 DEF Numbers
    <3>3. QED BY <1>9, <3>2
  <2>6. QED BY <2>2, <2>3, <2>4, <2>5
<1>11. \A s \in SessionsOf(E) : c.seqs[s] # 0
  <2>1. SUFFICES ASSUME NEW s \in SessionsOf(E) PROVE c.seqs[s] # 0
    OBVIOUS
  <2>2. PICK f \in E : f.sess = s
    BY <1>d
  <2>3. f.n <= c.seqs[s] /\ f.n \in Nat \ {0} /\ c.seqs[s] \in Nat
    BY <1>6, <1>9, <1>d, <2>2 DEF Controller
  <2>4. QED BY <2>3
<1>12. n = 0 => c = Fresh /\ E = {}
  BY <1>5, <1>c DEF Upon
<1>13. ASSUME n # 0
       PROVE  /\ c.bound # 0 /\ c.bound \in SessionsOf(E) \ Retired(E)
              /\ \A s \in Retired(E) : c.superseded[s] # 0
  <2>1. n \in 1 .. n /\ q[n] \in E /\ c.bound = q[n].sess
    BY <1>5, <1>c, <1>13 DEF Upon
  <2>2. c.bound \in SessionsOf(E) /\ c.bound # 0
    BY <1>d, <2>1 DEF Sessions
  <2>3. c.bound \notin Retired(E)
    <3>1. SUFFICES ASSUME NEW f \in E, f.old = c.bound PROVE FALSE
      BY DEF Retired
    <3>2. pos[f.sess] = pos[c.bound] + 1 /\ pos[c.bound] \in Nat
      BY <1>b, <1>d, <2>2, <3>1 DEF Placed
    <3>3. PICK j \in 1 .. n : q[j] = f
      BY <1>c
    <3>4. j = n \/ Earlier(pos, f, q[n])
      BY <1>c, <2>1, <3>3
    <3>5. f.sess # q[n].sess
      BY <2>1, <3>2
    <3>6. j # n
      BY <3>3, <3>5
    <3>7. QED BY <2>1, <3>2, <3>4, <3>5, <3>6 DEF Earlier
  <2>4. ASSUME NEW s \in Retired(E) PROVE c.superseded[s] # 0
    <3>1. s \in SessionsOf(E) /\ s # c.bound
      BY <1>b, <2>3, <2>4 DEF Retired, Placed
    <3>2. PICK j \in 1 .. n : q[j].sess = s
      BY <1>c, <1>d, <3>1
    <3>3. QED BY <1>5, <2>1, <3>1, <3>2 DEF Upon
  <2>5. QED BY <2>2, <2>3, <2>4
<1>14. c.bound = 0 => c = Fresh
  BY <1>12, <1>13
<1>15. Tells(c, E)
  <2>1. c.bound # 0 => n # 0
    BY <1>12 DEF Fresh
  <2>2. QED BY <1>7, <1>10, <1>11, <1>13, <1>14, <2>1 DEF Tells
<1>16. E # {} => c.bound # 0
  BY <1>12, <1>13
<1>17. QED BY <1>6, <1>8, <1>15, <1>16 DEF c

\* recover in a controller that is bound changes nothing that matters: it has all
\* the events, or they are all of its session.
LEMMA ReplayOfBound ==
  ASSUME NEW E, Recorded(E), NEW c \in Controller, Tells(c, E), c.bound # 0,
         Keyed(c, E) \/ SessionsOf(E) \subseteq {c.bound}
  PROVE  /\ Replay(c, E) \in Controller
         /\ Tells(Replay(c, E), E) /\ (Keyed(c, E) => Keyed(Replay(c, E), E))
         /\ Replay(c, E).bound = c.bound /\ Replay(c, E).known = c.known
<1> DEFINE n == Cardinality(E)
           q == InOrder(E)
           Same(d) == /\ d \in Controller /\ d.bound = c.bound /\ d.known = c.known /\ d.seqs = c.seqs
                      /\ d.superseded = c.superseded /\ c.keys \subseteq d.keys
<1>a. E \in SUBSET Event /\ Chain(E) /\ Whole(E)
  BY DEF Recorded
<1>b. PICK pos \in [Sessions -> Nat] : Placed(E, pos)
  BY <1>a DEF Chain
<1>c. n \in Nat /\ \A j \in 1 .. n : q[j] \in E
  BY <1>b, InOrderSorts
<1>1. PICK upto : /\ upto[0] = [ctl |-> c, raised |-> FALSE]
                  /\ \A i \in 1 .. n : upto[i] = Takes(Supersedes(E), upto[i - 1], q[i])
                  /\ Replay(c, E) = upto[n].ctl
  BY <1>c, ReplaySteps
<1> HIDE DEF q
<1>2. ASSUME NEW d, Same(d), NEW e \in E
      PROVE  Same(Apply(Supersedes(E), d, e)) /\ ~Refuses(Supersedes(E), d, e)
  <2>1. CASE <<e.sess, e.n>> \in d.keys
    <3>1. Apply(Supersedes(E), d, e) = d /\ ~Refuses(Supersedes(E), d, e)
      BY <2>1 DEF Apply, Refuses
    <3>2. QED BY <1>2, <3>1
  <2>2. CASE <<e.sess, e.n>> \notin d.keys
    <3>1. e.sess = c.bound /\ e.sess \in Sessions /\ e.n \in Nat \ {0}
      BY <1>2, <1>a, <2>2 DEF Keyed, SessionsOf, Event
    <3>2. c.bound \in c.known /\ c.seqs[c.bound] # 0 /\ c.seqs[c.bound] \in Nat
          /\ Numbers(E, c.bound) = 1 .. c.seqs[c.bound]
      BY <3>1 DEF Tells, Controller
    <3>3. e.n \in Numbers(E, c.bound)
      BY <3>1 DEF Numbers
    <3>4. ~(c.seqs[e.sess] < e.n)
      BY <3>1, <3>2, <3>3
    <3> DEFINE k == d.keys \cup {<<e.sess, e.n>>}
               w == d.known \cup {e.sess}
               y == [d.seqs EXCEPT ![e.sess] = IF d.seqs[e.sess] < e.n THEN e.n ELSE d.seqs[e.sess]]
               x == Apply(Supersedes(E), d, e)
    <3>5. d \in Controller /\ d.bound = c.bound /\ d.known = c.known /\ d.seqs = c.seqs
          /\ d.superseded = c.superseded /\ c.keys \subseteq d.keys
      BY <1>2
    <3>6. x = [d EXCEPT !.keys = k, !.known = w, !.seqs = y]
      BY <2>2, <3>1, <3>5 DEF Apply, Controller
    <3>7. y = d.seqs
      <4>1. d.seqs \in [Sessions -> Nat]
        BY <3>5 DEF Controller
      <4>2. QED BY <3>1, <3>4, <3>5, <4>1
    <3>8. w = d.known /\ k \in SUBSET (Sessions \X Nat) /\ d.keys \subseteq k
      BY <3>1, <3>2, <3>5 DEF Controller
    <3> HIDE DEF k, w, y, x
    <3>9. x \in Controller /\ x.bound = d.bound /\ x.known = d.known /\ x.seqs = d.seqs
          /\ x.superseded = d.superseded /\ x.keys = k
      BY <3>5, <3>6, <3>7, <3>8 DEF Controller
    <3>10. ~Refuses(Supersedes(E), d, e)
      BY <3>1, <3>5 DEF Refuses
    <3>11. QED BY <3>5, <3>8, <3>9, <3>10 DEF x
  <2>3. QED BY <2>1, <2>2
<1> HIDE DEF Same
<1> DEFINE Good(i) == ~upto[i].raised /\ Same(upto[i].ctl)
<1>3. Good(0)
  BY <1>1 DEF Same
<1>x. ASSUME NEW i \in 1 .. n, Good(i - 1) PROVE Good(i)
  <2>1. q[i] \in E
    BY <1>c
  <2>2. ~Refuses(Supersedes(E), upto[i - 1].ctl, q[i]) /\ Same(Apply(Supersedes(E), upto[i - 1].ctl, q[i]))
    BY <1>2, <1>x, <2>1
  <2>3. QED BY <1>1, <1>x, <2>2, TakesApplies
<1> HIDE DEF Good
<1> DEFINE Bad == {i \in 0 .. n : ~Good(i)}
<1>4. Bad = {}
  <2>1. SUFFICES ASSUME Bad # {} PROVE FALSE
    OBVIOUS
  <2>2. PICK m \in Bad : \A k \in Bad : m <= k
    <3>1. Bad \in SUBSET Nat
      OBVIOUS
    <3> HIDE DEF Bad
    <3>2. QED BY <2>1, <3>1, LeastNumber
  <2>3. m \in 0 .. n /\ ~Good(m) /\ m # 0
    BY <1>3
  <2>4. m \in 1 .. n /\ m - 1 \in 0 .. n
    BY <1>c, <2>3
  <2>5. m - 1 \notin Bad
    BY <2>2, <2>4
  <2>6. Good(m - 1)
    BY <2>4, <2>5
  <2>7. QED BY <1>x, <2>3, <2>4, <2>6
<1> DEFINE d == Replay(c, E)
<1>5. Same(d)
  BY <1>1, <1>4, <1>c DEF Good
<1> HIDE DEF d, Bad
<1>6. d \in Controller /\ d.bound = c.bound /\ d.known = c.known /\ d.seqs = c.seqs
      /\ d.superseded = c.superseded /\ c.keys \subseteq d.keys
  BY <1>5 DEF Same
<1>7. Tells(d, E) /\ (Keyed(c, E) => Keyed(d, E))
  BY <1>6 DEF Tells, Keyed
<1>8. QED BY <1>6, <1>7 DEF d

-----------------------------------------------------------------------------
(***************************************************************************)
(* The inductive invariant.                                                *)
(***************************************************************************)
Knows ==
  /\ Tells(ctl, Written)
  /\ runtime.naming = "id" /\ ctl.bound # 0 => Keyed(ctl, Written)

\* A runtime that names its agents has one session.
OneName ==
  runtime.naming = "name" => /\ \A e \in Written : e.sess = 1 /\ e.old = 0
                             /\ Held \subseteq {1}
                             /\ \A s \in Sessions : panes.of[s] # 0 => s = 1

\* A call is about a session that the runtime has and that nobody superseded, and
\* a start without a binding finds nothing written.
Fit(t, r) ==
  /\ r.pc \notin {"idle", "told", "launch", "bind"} =>
       /\ r.op \in CallsOf(t)
       /\ r.sess \in Held /\ r.sess \in ctl.known /\ r.sess \notin Retired(Written)
  /\ r.pc \in {"told", "launch", "bind"} =>
       t = Main /\ (runtime.naming = "id" /\ ctl.bound = 0 => Written = {})
  /\ r.pc \in {"told", "bind"} => r.sess \in Held
  /\ r.pc \in {"last", "read"} => r.out \notin {"failed", "raise"}
  /\ r.pc = "write" /\ ~Headless => r.out # "failed"
InCall == \A t \in Threads : Fit(t, call[t])

IInv == TypeOK /\ Recorded(rows) /\ Recorded(Written) /\ Knows /\ OneName /\ InCall

Calls == [op : MainCalls \cup {"none", "start", "cancel"},
          pc : {"idle", "told", "launch", "bind", "asked", "call", "turn", "write", "last",
                "read", "stop", "mark", "record"},
          sess : Sessions \cup {0}, lost : BOOLEAN,
          saw : Statuses \cup {"none"},
          out : Statuses \cup {"none", "failed", "raise"}]
Memory == [Sessions -> [status : Statuses \cup {"none"}, pane : 0 .. panes.n]]

(***************************************************************************)
(* A step that neither records nor binds: one thread moves on in its call,  *)
(* and the runtime keeps its session.                                       *)
(***************************************************************************)
Quiet ==
  /\ UNCHANGED <<rows, pending, runtime, panes, restarts>>
  /\ ctl' \in {ctl, [ctl EXCEPT !.unconfirmed = FALSE]} /\ (ctl' = ctl \/ ctl.bound # 0)
  /\ mem' \in Memory /\ \A u \in Sessions : mem'[u].pane = mem[u].pane
  /\ closed' \subseteq Held /\ requested' \subseteq Held
  /\ home' \in BOOLEAN /\ leaked' \in BOOLEAN /\ agents' \subseteq 1 .. panes.n
  /\ call' \in [Threads -> Calls]
  /\ \E t \in Threads : Fit(t, call'[t]) /\ \A u \in Threads \ {t} : call'[u] = call[u]

LEMMA QuietKeeps == IInv /\ Quiet => IInv'
<1> SUFFICES ASSUME IInv, Quiet PROVE IInv'
  OBVIOUS
<1>1. Written' = Written /\ Held' = Held
  BY DEF Quiet, Written, Held
<1>2. /\ ctl' \in Controller
      /\ ctl'.bound = ctl.bound /\ ctl'.known = ctl.known /\ ctl'.seqs = ctl.seqs
      /\ ctl'.superseded = ctl.superseded /\ ctl'.keys = ctl.keys /\ (ctl.bound = 0 => ctl' = ctl)
  BY DEF Quiet, IInv, TypeOK, Controller
<1>3. Knows' /\ OneName'
  BY <1>1, <1>2 DEF Quiet, IInv, Knows, Tells, Keyed, OneName
<1>4. TypeOK'
  <2>1. \A s, u \in Held' : s = u
    BY <1>1 DEF IInv, TypeOK
  <2>2. rows' \subseteq Events' /\ pending' \subseteq Events'
    BY DEF Quiet, IInv, TypeOK, Events
  <2>3. QED BY <1>1, <1>2, <2>1, <2>2 DEF Quiet, IInv, TypeOK, Controller, Calls, Memory, Herdr
<1>5. InCall'
  <2>1. \A t \in Threads : \A r : Fit(t, r)' <=> Fit(t, r')
    BY <1>1, <1>2 DEF Quiet, Fit, Headless
  <2>2. QED BY <1>1, <1>2 DEF Quiet, IInv, InCall, Fit, Headless
<1>6. QED BY <1>1, <1>3, <1>4, <1>5 DEF Quiet, IInv

LEMMA InitIsGood == Init => IInv
<1> SUFFICES ASSUME Init PROVE IInv
  OBVIOUS
<1>1. Written = {} /\ Held = {} /\ rows = {}
  BY DEF Init, Written, Held, Lost
<1>2. Recorded({})
  <2>1. \A s \in Sessions : Numbers({}, s) = 1 .. 0
    BY DEF Numbers
  <2>2. Whole({})
    BY <2>1 DEF Whole
  <2>3. Placed({}, [s \in Sessions |-> 0])
    BY DEF Placed, SessionsOf
  <2>4. [s \in Sessions |-> 0] \in [Sessions -> Nat]
    OBVIOUS
  <2>5. Chain({})
    BY <2>3, <2>4 DEF Chain, SessionsOf
  <2>6. QED BY <2>2, <2>5, FS_EmptySet DEF Recorded
<1>3. Knows
  BY <1>1 DEF Init, Knows, Tells, Fresh, Nobody
<1>4. OneName
  BY <1>1 DEF Init, OneName, Nobody
<1>5. \A t \in Threads : call[t] = Free
  BY DEF Init
<1>6. InCall
  BY <1>5 DEF InCall, Fit, Free
<1>7. TypeOK
  <2>1. ctl \in Controller
    BY FreshIsController DEF Init
  <2>2. mem \in [Sessions -> [status : Statuses \cup {"none"}, pane : 0 .. panes.n]]
    BY DEF Init, Lost
  <2>3. panes \in [n : Nat, of : [Sessions -> 0 .. panes.n]]
    BY DEF Init, Nobody
  <2>4. call \in [Threads -> Calls]
    BY DEF Init, Free, Calls
  <2>5. QED BY <1>1, <2>1, <2>2, <2>3, <2>4 DEF Init, TypeOK, Controller, Calls, Herdr
<1>8. QED BY <1>1, <1>2, <1>3, <1>4, <1>6, <1>7 DEF IInv

-----------------------------------------------------------------------------
(***************************************************************************)
(* The quiet steps.                                                        *)
(***************************************************************************)
LEMMA Types ==
  ASSUME IInv
  PROVE  /\ call \in [Threads -> Calls] /\ mem \in Memory /\ ctl \in Controller
         /\ Main \in Threads /\ Canceller \in Threads
         /\ Held \subseteq Sessions /\ 0 \notin Sessions
         /\ closed \subseteq Held /\ requested \subseteq Held
         /\ home \in BOOLEAN /\ leaked \in BOOLEAN /\ agents \subseteq 1 .. panes.n
         /\ \A s \in Held : mem[s].pane \in 1 .. panes.n
         /\ \A t \in Threads : Fit(t, call[t]) /\ call[t] \in Calls
<1>1. call \in [Threads -> Calls] /\ mem \in Memory /\ ctl \in Controller
  BY DEF IInv, TypeOK, Calls, Memory, Controller
<1>2. \A s \in Held : mem[s].pane \in 1 .. panes.n
  BY DEF IInv, TypeOK, Held
<1>3. QED BY <1>1, <1>2 DEF IInv, TypeOK, InCall, Threads, Held, Sessions

LEMMA SetsKeeps ==
  ASSUME IInv, NEW s \in Sessions, NEW x \in Statuses \cup {"none"}, Sets(s, x)
  PROVE  mem' \in Memory /\ \A u \in Sessions : mem'[u].pane = mem[u].pane
BY DEF IInv, TypeOK, Sets, Memory

LEMMA KillsKeeps ==
  ASSUME IInv, NEW k \in BOOLEAN, Kills(k)
  PROVE  home' \in BOOLEAN /\ leaked' \in BOOLEAN /\ agents' \subseteq 1 .. panes.n
BY DEF IInv, TypeOK, Kills

LEMMA MovesQuietly ==
  ASSUME IInv, NEW t \in Threads, NEW r \in Calls, Fit(t, r), call' = [call EXCEPT ![t] = r],
         UNCHANGED <<rows, pending, runtime, panes, restarts>>,
         ctl' \in {ctl, [ctl EXCEPT !.unconfirmed = FALSE]}, ctl' = ctl \/ ctl.bound # 0,
         mem' \in Memory, \A u \in Sessions : mem'[u].pane = mem[u].pane,
         closed' \subseteq Held, requested' \subseteq Held,
         home' \in BOOLEAN, leaked' \in BOOLEAN, agents' \subseteq 1 .. panes.n
  PROVE  Quiet
<1>1. call' \in [Threads -> Calls] /\ call'[t] = r /\ \A u \in Threads \ {t} : call'[u] = call[u]
  BY Types
<1>2. QED BY <1>1 DEF Quiet

LEMMA ReturnFits ==
  ASSUME IInv, NEW t \in Threads
  PROVE  Free \in Calls /\ Fit(t, Free)
BY DEF Free, Calls, Fit

LEMMA ThreadIsQuiet ==
  ASSUME IInv, NEW t \in Threads,
         \/ \E op \in CallsOf(t), s \in Sessions : Check(t, op, s)
         \/ Asked(t) \/ Claim(t) \/ Stopped(t) \/ Stop(t) \/ StopFails(t) \/ Mark(t)
  PROVE  Quiet
<1> DEFINE r == call[t]
<1>a. /\ call \in [Threads -> Calls] /\ r \in Calls /\ Fit(t, r) /\ mem \in Memory
      /\ closed \subseteq Held /\ requested \subseteq Held /\ Held \subseteq Sessions
      /\ home \in BOOLEAN /\ leaked \in BOOLEAN /\ agents \subseteq 1 .. panes.n
  BY Types
<1>b. CallsOf(t) \subseteq MainCalls \cup {"cancel"}
  BY DEF CallsOf
<1>1. ASSUME NEW op \in CallsOf(t), NEW s \in Sessions, Check(t, op, s) PROVE Quiet
  <2>1. PICK pc \in {"asked", "call"}, saw \in Reports \cup {"none"} : Begins(t, op, s, pc, saw)
    BY <1>1 DEF Check
  <2> DEFINE x == [r EXCEPT !.op = op, !.pc = pc, !.sess = s, !.saw = saw]
  <2>2. call' = [call EXCEPT ![t] = x]
    BY <1>a, <2>1 DEF Begins
  <2>3. s \in ctl.known /\ s \in Held /\ s \notin Retired(Written)
    <3>1. s \in ctl.known /\ s \in Held /\ ctl.superseded[s] = 0
      BY <1>1 DEF Check
    <3>2. ctl.bound # 0
      BY <3>1 DEF IInv, Knows, Tells, Fresh
    <3>3. QED BY <3>1, <3>2 DEF IInv, Knows, Tells
  <2>4. x \in Calls /\ Fit(t, x)
    <3>1. x \in Calls /\ x.op = op /\ x.pc = pc /\ x.sess = s
      BY <1>a, <1>b DEF Calls, Reports, Statuses
    <3> HIDE DEF x
    <3>2. QED BY <2>3, <3>1 DEF Fit
  <2> HIDE DEF x, r
  <2>5. UNCHANGED <<rows, pending, ctl, mem, closed, requested, home, agents, leaked, runtime, panes, restarts>>
    BY <1>1 DEF Check, durable, world, fixed
  <2>6. QED BY <1>a, <2>2, <2>4, <2>5, MovesQuietly
<1>2. CASE Asked(t)
  <2> DEFINE x == [r EXCEPT !.pc = "call", !.saw = "none"]
  <2>1. r.pc = "asked" /\ call' = [call EXCEPT ![t] = x] /\ Sets(r.sess, r.saw)
    BY <1>a, <1>2 DEF Asked
  <2>2. x \in Calls /\ Fit(t, x) /\ r.sess \in Sessions /\ r.saw \in Statuses \cup {"none"}
    BY <1>a, <2>1 DEF Calls, Fit
  <2>3. mem' \in Memory /\ \A u \in Sessions : mem'[u].pane = mem[u].pane
    BY <2>1, <2>2, SetsKeeps
  <2> HIDE DEF x, r
  <2>4. UNCHANGED <<rows, pending, ctl, closed, requested, home, agents, leaked, runtime, panes, restarts>>
    BY <1>2 DEF Asked, durable, world, fixed
  <2>5. QED BY <1>a, <2>1, <2>2, <2>3, <2>4, MovesQuietly
<1>3. CASE Claim(t)
  <2> DEFINE x == [r EXCEPT !.pc = "stop"]
  <2>1. r.pc = "call" /\ call' = [call EXCEPT ![t] = x] /\ requested' \subseteq requested \cup {r.sess}
    BY <1>a, <1>3 DEF Claim, Goes, At
  <2>2. x \in Calls /\ Fit(t, x) /\ r.sess \in Held
    BY <1>a, <2>1 DEF Calls, Fit
  <2> HIDE DEF x, r
  <2>3. UNCHANGED <<rows, pending, ctl, mem, closed, home, agents, leaked, runtime, panes, restarts>>
    BY <1>3 DEF Claim, durable, world, fixed
  <2>4. QED BY <1>a, <2>1, <2>2, <2>3, MovesQuietly
<1>4. ASSUME Stops(t), Goes(t, "mark"), closed' \subseteq closed \cup {r.sess},
             home' \in BOOLEAN, leaked' \in BOOLEAN, agents' \subseteq 1 .. panes.n,
             UNCHANGED <<rows, pending, ctl, mem, requested, runtime, panes, restarts>>
      PROVE  Quiet
  <2> DEFINE x == [r EXCEPT !.pc = "mark"]
  <2>1. r.pc \in {"stop", "call"} /\ call' = [call EXCEPT ![t] = x]
    BY <1>a, <1>4 DEF Stops, Goes, At
  <2>2. x \in Calls /\ Fit(t, x) /\ r.sess \in Held
    BY <1>a, <2>1 DEF Calls, Fit
  <2> HIDE DEF x, r
  <2>3. QED BY <1>a, <1>4, <2>1, <2>2, MovesQuietly
<1>5. CASE Stopped(t)
  <2>1. /\ Stops(t) /\ Goes(t, "mark") /\ agents' \subseteq agents
        /\ UNCHANGED <<rows, pending, ctl, mem, closed, requested, home, leaked, runtime, panes, restarts>>
    BY <1>5 DEF Stopped, durable, fixed
  <2> HIDE DEF r
  <2>2. QED BY <1>4, <1>a, <2>1
<1>6. CASE Stop(t)
  <2>1. /\ Stops(t) /\ Goes(t, "mark") /\ closed' = closed \cup {r.sess} /\ Kills(TRUE)
        /\ UNCHANGED <<rows, pending, ctl, mem, requested, runtime, panes, restarts>>
    BY <1>6 DEF Stop, durable, fixed
  <2>2. home' \in BOOLEAN /\ leaked' \in BOOLEAN /\ agents' \subseteq 1 .. panes.n
    BY <2>1, KillsKeeps
  <2> HIDE DEF r
  <2>3. QED BY <1>4, <1>a, <2>1, <2>2
<1>7. CASE StopFails(t)
  <2>1. r.pc \in {"stop", "call"} /\ call' = [call EXCEPT ![t] = Free]
    BY <1>7 DEF StopFails, Stops, At, Return
  <2>2. r.sess \in Held
    BY <1>a, <2>1 DEF Fit
  <2>3. closed' \subseteq closed \cup {r.sess} /\ requested' \subseteq requested
    BY <1>7 DEF StopFails, ClosesAnyway
  <2>4. home' \in BOOLEAN /\ leaked' \in BOOLEAN /\ agents' \subseteq 1 .. panes.n
    <3>1. UNCHANGED world \/ \E k \in BOOLEAN : Kills(k)
      BY <1>7 DEF StopFails, ClosesAnyway
    <3>2. QED BY <1>a, <3>1, KillsKeeps DEF world
  <2> HIDE DEF r
  <2>5. UNCHANGED <<rows, pending, ctl, mem, runtime, panes, restarts>>
    BY <1>7 DEF StopFails, durable, fixed
  <2>6. QED BY <1>a, <2>1, <2>2, <2>3, <2>4, <2>5, ReturnFits, MovesQuietly
<1>8. CASE Mark(t)
  <2> DEFINE x == [r EXCEPT !.pc = "record", !.saw = "none", !.out = "none"]
  <2>1. r.pc = "mark" /\ call' = [call EXCEPT ![t] = x]
    BY <1>a, <1>8 DEF Mark, Answers
  <2>2. x \in Calls /\ Fit(t, x) /\ r.sess \in Sessions
    BY <1>a, <2>1 DEF Calls, Fit
  <2>3. \E status \in Statuses : Sets(r.sess, status)
    BY <1>8 DEF Mark, Statuses
  <2>4. mem' \in Memory /\ \A u \in Sessions : mem'[u].pane = mem[u].pane
    BY <2>2, <2>3, SetsKeeps
  <2> HIDE DEF x, r
  <2>5. UNCHANGED <<rows, pending, ctl, closed, requested, home, agents, leaked, runtime, panes, restarts>>
    BY <1>8 DEF Mark, durable, world, fixed
  <2>6. QED BY <1>a, <2>1, <2>2, <2>4, <2>5, MovesQuietly
<1>9. QED BY <1>1, <1>2, <1>3, <1>5, <1>6, <1>7, <1>8

\* A call of the main thread that goes on with another place, report or result.
LEMMA MainMoves ==
  ASSUME IInv, call[Main].pc \notin {"idle", "told", "launch", "bind"},
         NEW pc \in {"turn", "write", "last", "read", "record"},
         NEW saw \in Statuses \cup {"none"},
         NEW out \in Statuses \cup {"none", "failed", "raise"},
         pc \in {"last", "read"} => out \notin {"failed", "raise"},
         pc = "write" /\ ~Headless => out # "failed"
  PROVE  LET x == [call[Main] EXCEPT !.pc = pc, !.saw = saw, !.out = out]
         IN  x \in Calls /\ Fit(Main, x)
<1> DEFINE r == call[Main]
           x == [r EXCEPT !.pc = pc, !.saw = saw, !.out = out]
<1>1. r \in Calls /\ Fit(Main, r) /\ r.pc \notin {"idle", "told", "launch", "bind"}
  BY Types
<1> HIDE DEF r
<1>2. x \in Calls /\ x.pc = pc /\ x.out = out /\ x.op = r.op /\ x.sess = r.sess
  BY <1>1 DEF Calls
<1> HIDE DEF x
<1>3. Fit(Main, x)
  BY <1>1, <1>2 DEF Fit
<1>4. QED BY <1>2, <1>3 DEF x, r

LEMMA SendIsQuiet ==
  ASSUME IInv, Send \/ TurnAnswers \/ TurnFails
  PROVE  Quiet
<1> DEFINE r == call[Main]
           X(pc, saw, out) == [r EXCEPT !.pc = pc, !.saw = saw, !.out = out]
<1>a. /\ call \in [Threads -> Calls] /\ r \in Calls /\ Fit(Main, r) /\ mem \in Memory /\ Main \in Threads
      /\ closed \subseteq Held /\ requested \subseteq Held /\ Held \subseteq Sessions
      /\ home \in BOOLEAN /\ leaked \in BOOLEAN /\ agents \subseteq 1 .. panes.n
      /\ \A s \in Held : mem[s].pane \in 1 .. panes.n
  BY Types
<1>b. r.pc \in {"call", "turn"} /\ r.sess \in Held /\ r.sess \in Sessions
  BY <1>a DEF Send, FakeSend, HeadlessSend, HerdrSend, TurnAnswers, TurnFails, At, Fit
<1>c. /\ r.saw \in Statuses \cup {"none"} /\ r.out \in Statuses \cup {"none", "failed", "raise"}
      /\ Pane(Main) \in 1 .. panes.n /\ Status(Main) \in Statuses \cup {"none"}
  BY <1>a, <1>b DEF Calls, Pane, Status, Memory
<1>1. CASE Send
  <2>1. PICK pc \in {"turn", "record"}, saw \in Statuses \cup {"none"}, out \in Statuses \cup {"none", "failed", "raise"} :
          call' = [call EXCEPT ![Main] = X(pc, saw, out)]
    <3>1. CASE Answers(Main)
      <4>1. call' = [call EXCEPT ![Main] = X("record", "none", "none")]
        BY <1>a, <3>1 DEF Answers
      <4>2. QED BY <4>1
    <3>2. CASE Goes(Main, "turn")
      <4>1. call' = [call EXCEPT ![Main] = X("turn", r.saw, r.out)]
        BY <1>a, <3>2 DEF Goes, Calls
      <4>2. QED BY <1>c, <4>1
    <3>3. CASE call' = [call EXCEPT ![Main].pc = "turn", ![Main].saw = Status(Main)]
      <4>1. call' = [call EXCEPT ![Main] = X("turn", Status(Main), r.out)]
        BY <1>a, <3>3 DEF Calls
      <4>2. QED BY <1>c, <4>1
    <3>4. QED BY <1>1, <3>1, <3>2, <3>3 DEF Send, FakeSend, HeadlessSend, HerdrSend
  <2>2. X(pc, saw, out) \in Calls /\ Fit(Main, X(pc, saw, out))
    BY <1>b, MainMoves
  <2> HIDE DEF X
  <2>3. mem' \in Memory /\ \A u \in Sessions : mem'[u].pane = mem[u].pane
    <3>1. UNCHANGED mem \/ Sets(r.sess, "running")
      BY <1>1 DEF Send, FakeSend, HeadlessSend, HerdrSend
    <3>2. "running" \in Statuses
      BY DEF Statuses
    <3>3. QED BY <1>a, <1>b, <3>1, <3>2, SetsKeeps
  <2>4. agents' \subseteq agents \cup {Pane(Main)}
    BY <1>1 DEF Send, FakeSend, HeadlessSend, HerdrSend
  <2>5. UNCHANGED <<rows, pending, ctl, closed, requested, home, leaked, runtime, panes, restarts>>
    BY <1>1 DEF Send, durable, fixed
  <2> HIDE DEF r
  <2>6. QED BY <1>a, <1>c, <2>1, <2>2, <2>3, <2>4, <2>5, MovesQuietly
<1>2. CASE TurnAnswers
  <2>1. PICK out \in Outcomes : Ends("write", out)
    BY <1>2 DEF TurnAnswers
  <2>2. /\ call' = [call EXCEPT ![Main] = X("write", r.saw, out)]
        /\ out \in Statuses \cup {"none", "failed", "raise"} /\ (~Headless => out # "failed")
    BY <1>a, <2>1 DEF Ends, Calls, Outcomes, Statuses, Reports
  <2>3. X("write", r.saw, out) \in Calls /\ Fit(Main, X("write", r.saw, out))
    BY <1>b, <1>c, <2>2, MainMoves
  <2> HIDE DEF X, r
  <2>4. /\ agents' \subseteq agents
        /\ UNCHANGED <<rows, pending, ctl, mem, closed, requested, home, leaked, runtime, panes, restarts>>
    BY <1>2 DEF TurnAnswers, durable, fixed
  <2>5. QED BY <1>a, <2>2, <2>3, <2>4, MovesQuietly
<1>3. CASE TurnFails
  <2>1. PICK x \in Calls : Fit(Main, x) /\ call' = [call EXCEPT ![Main] = x]
    <3>1. CASE Ends("write", "raise")
      <4>1. call' = [call EXCEPT ![Main] = X("write", r.saw, "raise")]
        BY <1>a, <3>1 DEF Ends, Calls
      <4>2. X("write", r.saw, "raise") \in Calls /\ Fit(Main, X("write", r.saw, "raise"))
        BY <1>b, <1>c, MainMoves
      <4>3. QED BY <4>1, <4>2
    <3>2. CASE Return(Main)
      BY <1>a, <3>2, ReturnFits DEF Return
    <3>3. QED BY <1>3, <3>1, <3>2 DEF TurnFails
  <2>2. home' \in BOOLEAN /\ leaked' \in BOOLEAN /\ agents' \subseteq 1 .. panes.n
    <3>1. UNCHANGED world \/ \E k \in BOOLEAN : Kills(k)
      BY <1>3 DEF TurnFails
    <3>2. QED BY <1>a, <3>1, KillsKeeps DEF world
  <2> HIDE DEF r
  <2>3. UNCHANGED <<rows, pending, ctl, mem, closed, requested, runtime, panes, restarts>>
    BY <1>3 DEF TurnFails, durable, fixed
  <2>4. QED BY <1>a, <2>1, <2>2, <2>3, MovesQuietly
<1>4. QED BY <1>1, <1>2, <1>3

LEMMA WriteIsQuiet ==
  ASSUME IInv, Write \/ StreamReads \/ StreamWrites \/ Reconnect \/ Reconnected
  PROVE  Quiet
<1> DEFINE r == call[Main]
           X(pc, saw, out) == [r EXCEPT !.pc = pc, !.saw = saw, !.out = out]
<1>a. /\ call \in [Threads -> Calls] /\ r \in Calls /\ Fit(Main, r) /\ mem \in Memory /\ Main \in Threads
      /\ closed \subseteq Held /\ requested \subseteq Held /\ Held \subseteq Sessions
      /\ home \in BOOLEAN /\ leaked \in BOOLEAN /\ agents \subseteq 1 .. panes.n
  BY Types
<1>b. r.pc \in {"write", "last", "call", "read"} /\ r.sess \in Held /\ r.sess \in Sessions
  BY <1>a DEF Write, HeadlessWrite, HerdrWrite, HerdrLastWrite, StreamReads, StreamWrites, Reconnect,
            Reconnected, At, Fit
<1>c. /\ r.saw \in Statuses \cup {"none"} /\ r.out \in Statuses \cup {"none", "failed", "raise"}
      /\ Status(Main) \in Statuses \cup {"none"}
  BY <1>a, <1>b DEF Calls, Status, Memory
<1>1. ASSUME \/ Answers(Main) \/ Return(Main) \/ (Goes(Main, "last") /\ r.out \notin {"raise", "failed"})
             \/ \E out \in Statuses \cup {"none"} : Ends("read", out)
      PROVE  \E x \in Calls : Fit(Main, x) /\ call' = [call EXCEPT ![Main] = x]
  <2>1. CASE Answers(Main)
    <3>1. call' = [call EXCEPT ![Main] = X("record", "none", "none")]
      BY <1>a, <2>1 DEF Answers
    <3>2. X("record", "none", "none") \in Calls /\ Fit(Main, X("record", "none", "none"))
      BY <1>b, MainMoves
    <3>3. QED BY <3>1, <3>2
  <2>2. CASE Return(Main)
    BY <1>a, <2>2, ReturnFits DEF Return
  <2>3. CASE Goes(Main, "last") /\ r.out \notin {"raise", "failed"}
    <3>1. call' = [call EXCEPT ![Main] = X("last", r.saw, r.out)]
      BY <1>a, <2>3 DEF Goes, Calls
    <3>2. X("last", r.saw, r.out) \in Calls /\ Fit(Main, X("last", r.saw, r.out))
      BY <1>b, <1>c, <2>3, MainMoves
    <3>3. QED BY <3>1, <3>2
  <2>4. ASSUME NEW out \in Statuses \cup {"none"}, Ends("read", out)
        PROVE  \E x \in Calls : Fit(Main, x) /\ call' = [call EXCEPT ![Main] = x]
    <3>1. call' = [call EXCEPT ![Main] = X("read", r.saw, out)]
      BY <1>a, <2>4 DEF Ends, Calls
    <3>2. out \notin {"raise", "failed"}
      BY <2>4 DEF Statuses
    <3>3. X("read", r.saw, out) \in Calls /\ Fit(Main, X("read", r.saw, out))
      BY <1>b, <1>c, <2>4, <3>2, MainMoves
    <3>4. QED BY <3>1, <3>3
  <2>5. QED BY <1>1, <2>1, <2>2, <2>3, <2>4
<1>2. CASE Write
  <2>1. \E x \in Calls : Fit(Main, x) /\ call' = [call EXCEPT ![Main] = x]
    <3>1. CASE HeadlessWrite
      BY <1>1, <3>1 DEF HeadlessWrite
    <3>2. CASE HerdrWrite
      <4>1. r.out # "failed"
        BY <1>a, <3>2 DEF HerdrWrite, At, Fit, Herdr, Headless
      <4>2. QED BY <1>1, <3>2, <4>1 DEF HerdrWrite
    <3>3. CASE HerdrLastWrite
      BY <1>1, <3>3 DEF HerdrLastWrite
    <3>4. QED BY <1>2, <3>1, <3>2, <3>3 DEF Write
  <2>2. mem' = mem \/ \E status \in Statuses \cup {"none"} : Sets(r.sess, status)
    <3>1. CASE HeadlessWrite
      BY <1>c, <3>1 DEF HeadlessWrite, Statuses
    <3>2. CASE HerdrWrite
      BY <1>c, <3>2 DEF HerdrWrite, Statuses
    <3>3. CASE HerdrLastWrite
      <4>1. r.out \in Statuses \cup {"none"} /\ Sets(r.sess, r.out)
        BY <1>a, <1>c, <3>3 DEF HerdrLastWrite, At, Fit
      <4>2. QED BY <4>1
    <3>4. QED BY <1>2, <3>1, <3>2, <3>3 DEF Write
  <2>3. mem' \in Memory /\ \A u \in Sessions : mem'[u].pane = mem[u].pane
    BY <1>a, <1>b, <2>2, SetsKeeps
  <2> HIDE DEF r
  <2>4. UNCHANGED <<rows, pending, ctl, closed, requested, home, agents, leaked, runtime, panes, restarts>>
    BY <1>2 DEF Write, durable, world, fixed
  <2>5. QED BY <1>a, <2>1, <2>3, <2>4, MovesQuietly
<1>3. CASE StreamReads
  <2>1. \E x \in Calls : Fit(Main, x) /\ call' = [call EXCEPT ![Main] = x]
    BY <1>1, <1>3, <1>c DEF StreamReads
  <2> HIDE DEF r
  <2>2. UNCHANGED <<rows, pending, ctl, mem, closed, requested, home, agents, leaked, runtime, panes, restarts>>
    BY <1>3 DEF StreamReads, durable, world, fixed
  <2>3. QED BY <1>a, <2>1, <2>2, MovesQuietly
<1>4. CASE StreamWrites
  <2>1. \E x \in Calls : Fit(Main, x) /\ call' = [call EXCEPT ![Main] = x]
    BY <1>1, <1>4 DEF StreamWrites
  <2>2. r.out \in Statuses \cup {"none"} /\ Sets(r.sess, r.out)
    BY <1>a, <1>c, <1>4 DEF StreamWrites, At, Fit
  <2>3. mem' \in Memory /\ \A u \in Sessions : mem'[u].pane = mem[u].pane
    BY <1>b, <2>2, SetsKeeps
  <2> HIDE DEF r
  <2>4. UNCHANGED <<rows, pending, ctl, closed, requested, home, agents, leaked, runtime, panes, restarts>>
    BY <1>4 DEF StreamWrites, durable, world, fixed
  <2>5. QED BY <1>a, <2>1, <2>3, <2>4, MovesQuietly
<1>5. ctl.bound # 0
  <2>1. r.sess \in ctl.known
    BY <1>a, <1>b DEF Fit
  <2>2. QED BY <2>1 DEF IInv, Knows, Tells, Fresh
<1>6. CASE Reconnect
  <2>1. Reports \subseteq Statuses
    BY DEF Reports, Statuses
  <2>2. \E x \in Calls : Fit(Main, x) /\ call' = [call EXCEPT ![Main] = x]
    BY <1>1, <1>6, <2>1 DEF Reconnect
  <2>3. ctl' \in {ctl, [ctl EXCEPT !.unconfirmed = FALSE]}
    BY <1>6 DEF Reconnect
  <2> HIDE DEF r
  <2>4. UNCHANGED <<rows, pending, mem, closed, requested, home, agents, leaked, runtime, panes, restarts>>
    BY <1>6 DEF Reconnect, durable, world, fixed
  <2>5. QED BY <1>5, <1>a, <2>2, <2>3, <2>4, MovesQuietly
<1>7. CASE Reconnected
  <2>1. \E x \in Calls : Fit(Main, x) /\ call' = [call EXCEPT ![Main] = x]
    BY <1>1, <1>7 DEF Reconnected
  <2>2. r.out \in Statuses \cup {"none"} /\ (mem' = mem \/ Sets(r.sess, r.out))
    BY <1>a, <1>c, <1>7 DEF Reconnected, At, Fit
  <2>3. mem' \in Memory /\ \A u \in Sessions : mem'[u].pane = mem[u].pane
    BY <1>a, <1>b, <2>2, SetsKeeps
  <2>4. ctl' \in {ctl, [ctl EXCEPT !.unconfirmed = FALSE]}
    BY <1>7 DEF Reconnected
  <2> HIDE DEF r
  <2>5. UNCHANGED <<rows, pending, closed, requested, home, agents, leaked, runtime, panes, restarts>>
    BY <1>7 DEF Reconnected, durable, world, fixed
  <2>6. QED BY <1>5, <1>a, <2>1, <2>3, <2>4, <2>5, MovesQuietly
<1>8. QED BY <1>2, <1>3, <1>4, <1>6, <1>7

-----------------------------------------------------------------------------
(***************************************************************************)
(* The steps that give the runtime a session.                              *)
(***************************************************************************)
LEMMA StartIsQuiet ==
  ASSUME IInv, StartAsks
  PROVE  Quiet
<1> DEFINE r == call[Main]
           lost == ctl.unconfirmed /\ ctl.bound # 0 /\ ctl.bound \notin Held
           x == [r EXCEPT !.op = "start", !.pc = "launch", !.lost = lost]
           Y(saw) == [Free EXCEPT !.op = "start", !.pc = "told", !.sess = ctl.bound, !.saw = saw]
<1>a. /\ call \in [Threads -> Calls] /\ r \in Calls /\ mem \in Memory /\ Main \in Threads
      /\ closed \subseteq Held /\ requested \subseteq Held /\ Held \subseteq Sessions
      /\ home \in BOOLEAN /\ leaked \in BOOLEAN /\ agents \subseteq 1 .. panes.n
  BY Types
<1>1. \/ call' = [call EXCEPT ![Main] = x]
      \/ ctl.bound \in Held /\ \E saw \in Reports : call' = [call EXCEPT ![Main] = Y(saw)]
  <2>1. \/ call' = [call EXCEPT ![Main].op = "start", ![Main].pc = "launch", ![Main].lost = lost]
        \/ ctl.bound \in Held /\ \E saw \in Reports : call' = [call EXCEPT ![Main] = Y(saw)]
    BY DEF StartAsks
  <2> HIDE DEF lost
  <2>2. QED BY <1>a, <2>1 DEF Calls
<1>2. runtime.naming = "id" /\ ctl.bound = 0 => Written = {}
  BY DEF StartAsks, RecoveredFirst, IInv, Knows, Tells, Fresh
<1>3. x \in Calls /\ Fit(Main, x)
  <2>1. lost \in BOOLEAN
    BY Types DEF Controller
  <2> HIDE DEF lost
  <2>2. x \in Calls /\ x.pc = "launch"
    BY <1>a, <2>1 DEF Calls
  <2> HIDE DEF x
  <2>3. QED BY <1>2, <2>2 DEF Fit
<1>4. ASSUME ctl.bound \in Held, NEW saw \in Reports PROVE Y(saw) \in Calls /\ Fit(Main, Y(saw))
  <2>1. saw \in Statuses
    BY <1>4 DEF Reports, Statuses
  <2>2. Y(saw) \in Calls /\ Y(saw).pc = "told" /\ Y(saw).sess = ctl.bound
    BY <1>4, <1>a, <2>1 DEF Calls, Free
  <2> HIDE DEF Y
  <2>3. QED BY <1>2, <1>4, <2>2 DEF Fit
<1> HIDE DEF x, r, Y
<1>5. UNCHANGED <<rows, pending, ctl, mem, closed, requested, home, agents, leaked, runtime, panes, restarts>>
  BY DEF StartAsks, durable, world, fixed
<1>6. QED BY <1>a, <1>1, <1>3, <1>4, <1>5, MovesQuietly

LEMMA ToldIsQuiet ==
  ASSUME IInv, StartTold
  PROVE  Quiet
<1> DEFINE r == call[Main]
           x == [r EXCEPT !.pc = "launch", !.saw = "none"]
<1>a. /\ call \in [Threads -> Calls] /\ r \in Calls /\ Fit(Main, r) /\ mem \in Memory /\ Main \in Threads
      /\ closed \subseteq Held /\ requested \subseteq Held /\ Held \subseteq Sessions
      /\ home \in BOOLEAN /\ leaked \in BOOLEAN /\ agents \subseteq 1 .. panes.n
  BY Types
<1>1. call' = [call EXCEPT ![Main] = x] /\ r.pc = "told" /\ Sets(r.sess, r.saw)
  BY <1>a DEF StartTold
<1>2. x \in Calls /\ x.pc = "launch"
  BY <1>a DEF Calls
<1>3. r.sess \in Sessions /\ r.saw \in Statuses \cup {"none"}
  BY <1>a, <1>1 DEF Fit, Calls
<1>4. mem' \in Memory /\ \A u \in Sessions : mem'[u].pane = mem[u].pane
  BY <1>a, <1>1, <1>3, SetsKeeps
<1> HIDE DEF x
<1>5. Fit(Main, x)
  BY <1>a, <1>1, <1>2 DEF Fit
<1> HIDE DEF r
<1>6. UNCHANGED <<rows, pending, ctl, closed, requested, home, agents, leaked, runtime, panes, restarts>>
  BY DEF StartTold, durable, world, fixed
<1>7. QED BY <1>a, <1>1, <1>2, <1>4, <1>5, <1>6, MovesQuietly

LEMMA Alone ==
  ASSUME IInv, Held = {}, NEW t \in Threads
  PROVE  call[t].pc \in {"idle", "launch"} /\ (call[t].pc = "launch" => t = Main)
         /\ closed = {} /\ requested = {}
<1>1. Fit(t, call[t]) /\ call[t] \in Calls /\ closed \subseteq Held /\ requested \subseteq Held
  BY Types
<1>2. QED BY <1>1 DEF Fit, Calls

\* A new binding, with a new pane or the one of a snapshot.
LEMMA Holds ==
  ASSUME IInv, Held = {}, NEW s \in Sessions, NEW x \in Statuses,
         panes' \in [n : Nat, of : [Sessions -> 0 .. panes'.n]], panes.n <= panes'.n,
         NEW p \in 1 .. panes'.n, mem' = [mem EXCEPT ![s] = [status |-> x, pane |-> p]],
         UNCHANGED <<rows, pending, ctl, runtime, restarts, closed, requested, leaked>>,
         home' \in BOOLEAN, agents' \subseteq 1 .. panes'.n,
         call' \in [Threads -> Calls],
         \A t \in Threads : \/ call'[t] = call[t] /\ call[t].pc = "idle"
                            \/ /\ t = Main /\ call[t].pc = "launch" /\ call'[t].pc = "bind"
                               /\ call'[t].sess = s,
         runtime.naming = "name" => s = 1 /\ \A u \in Sessions : panes'.of[u] # 0 => u = 1
  PROVE  IInv' /\ Held' = {s}
<1>0. panes.n \in Nat /\ panes'.n \in Nat /\ p # 0 /\ mem \in Memory /\ closed = {} /\ requested = {}
  BY Alone, Types DEF IInv, TypeOK
<1>1. Written' = Written
  BY DEF Written
<1>2. Held' = {s}
  <2>1. \A u \in Sessions : u # s => mem'[u].pane = 0
    BY <1>0 DEF Held, Memory
  <2>2. mem'[s].pane = p
    BY <1>0 DEF Memory
  <2>3. QED BY <1>0, <2>1, <2>2 DEF Held
<1>3. TypeOK'
  <2>1. Events \subseteq Events'
    BY <1>0 DEF Events
  <2>2. rows' \subseteq Events' /\ pending' \subseteq Events'
    BY <2>1 DEF IInv, TypeOK
  <2>3. mem' \in [Sessions -> [status : Statuses \cup {"none"}, pane : 0 .. panes'.n]]
    BY <1>0 DEF Memory
  <2>4. \A u, v \in Held' : u = v
    BY <1>2
  <2>5. QED BY <1>0, <1>2, <2>2, <2>3, <2>4 DEF IInv, TypeOK, Calls, Herdr
<1>4. Knows'
  BY <1>1 DEF IInv, Knows
<1>5. OneName'
  BY <1>1, <1>2 DEF IInv, OneName
<1>6. InCall'
  <2>1. SUFFICES ASSUME NEW t \in Threads PROVE Fit(t, call[t])'
    BY DEF InCall
  <2>2. CASE call'[t].pc = "idle"
    BY <2>2 DEF Fit
  <2>3. CASE t = Main /\ call[t].pc = "launch" /\ call'[t].pc = "bind" /\ call'[t].sess = s
    <3>1. runtime.naming = "id" /\ ctl.bound = 0 => Written = {}
      BY <2>3, Types DEF Fit
    <3>2. QED BY <1>1, <1>2, <2>3, <3>1 DEF Fit
  <2>4. QED BY <2>2, <2>3
<1>7. QED BY <1>1, <1>2, <1>3, <1>4, <1>5, <1>6 DEF IInv

LEMMA LaunchKeeps ==
  ASSUME IInv, Launch
  PROVE  IInv'
<1> DEFINE r == call[Main]
<1>a. /\ call \in [Threads -> Calls] /\ r \in Calls /\ Fit(Main, r) /\ mem \in Memory /\ Main \in Threads
      /\ closed \subseteq Held /\ requested \subseteq Held /\ Held \subseteq Sessions
      /\ home \in BOOLEAN /\ leaked \in BOOLEAN /\ agents \subseteq 1 .. panes.n
  BY Types
<1>b. r.pc = "launch" /\ (runtime.naming = "id" /\ ctl.bound = 0 => Written = {})
  BY <1>a DEF Launch, Fit
<1>c. UNCHANGED <<rows, pending, ctl, closed, requested, runtime, restarts>>
  BY DEF Launch, durable
<1>1. ASSUME NEW x \in Calls, Fit(Main, x), call' = [call EXCEPT ![Main] = x],
             UNCHANGED <<mem, world, panes>>
      PROVE  IInv'
  <2>1. Quiet
    BY <1>1, <1>a, <1>c, MovesQuietly DEF world
  <2>2. QED BY <2>1, QuietKeeps
<1>2. ASSUME NEW s \in Held, Returns(s), UNCHANGED <<mem, world, panes>> PROVE IInv'
  <2> DEFINE x == [r EXCEPT !.pc = "bind", !.sess = s]
  <2>1. call' = [call EXCEPT ![Main] = x] /\ x \in Calls /\ x.pc = "bind" /\ x.sess = s
    BY <1>a, <1>2 DEF Returns, Calls
  <2> HIDE DEF x
  <2>2. Fit(Main, x)
    BY <1>b, <2>1 DEF Fit
  <2>3. QED BY <1>1, <1>2, <2>1, <2>2
<1>3. ASSUME Return(Main), UNCHANGED <<mem, world, panes>> PROVE IInv'
  BY <1>1, <1>3, <1>a, ReturnFits DEF Return
<1>4. ASSUME Held = {}, NEW s \in NewSession, Returns(s),
             mem' = [mem EXCEPT ![s] = [status |-> Launched, pane |-> panes.n + 1]],
             panes' = [n |-> panes.n + 1, of |-> [panes.of EXCEPT ![s] = panes.n + 1]],
             agents' = IF Headless THEN agents ELSE agents \cup {panes.n + 1},
             home' = TRUE, UNCHANGED leaked
      PROVE  IInv'
  <2>1. s \in Sessions /\ (runtime.naming = "name" => s = 1)
    BY BoundAssumption DEF NewSession, Sessions
  <2>2. panes.n \in Nat /\ panes.of \in [Sessions -> 0 .. panes.n]
    BY DEF IInv, TypeOK
  <2>3. panes' \in [n : Nat, of : [Sessions -> 0 .. panes'.n]] /\ panes'.n = panes.n + 1
    BY <1>4, <2>1, <2>2
  <2>4. runtime.naming = "name" => \A u \in Sessions : panes'.of[u] # 0 => u = 1
    BY <1>4, <2>1, <2>2 DEF IInv, OneName
  <2>5. agents' \subseteq 1 .. panes'.n
    <3>1. agents' \subseteq agents \cup {panes.n + 1}
      BY <1>4
    <3>2. QED BY <1>a, <2>2, <2>3, <3>1
  <2>6. Launched \in Statuses
    BY DEF Launched, Statuses
  <2>7. /\ call' \in [Threads -> Calls] /\ call'[Main].pc = "bind" /\ call'[Main].sess = s
        /\ \A t \in Threads : t # Main => call'[t] = call[t]
    BY <1>4, <1>a, <2>1 DEF Returns, Calls
  <2>8. \A t \in Threads : t # Main => call[t].pc = "idle"
    BY <1>4, Alone
  <2>9. panes.n <= panes'.n /\ panes.n + 1 \in 1 .. panes'.n
    BY <2>2, <2>3
  <2> DEFINE p == panes.n + 1
             x == Launched
  <2>10. x \in Statuses /\ p \in 1 .. panes'.n /\ mem' = [mem EXCEPT ![s] = [status |-> x, pane |-> p]]
    BY <1>4, <2>6, <2>9
  <2> HIDE DEF p, x, r
  <2>11. \A t \in Threads : \/ call'[t] = call[t] /\ call[t].pc = "idle"
                            \/ /\ t = Main /\ call[t].pc = "launch" /\ call'[t].pc = "bind"
                               /\ call'[t].sess = s
    BY <1>b, <2>7, <2>8 DEF r
  <2>12. /\ UNCHANGED <<rows, pending, ctl, runtime, restarts, closed, requested, leaked>>
         /\ home' \in BOOLEAN /\ Held = {} /\ panes.n <= panes'.n
         /\ runtime.naming = "name" => s = 1 /\ \A u \in Sessions : panes'.of[u] # 0 => u = 1
    BY <1>4, <1>c, <2>1, <2>4, <2>9
  <2>13. QED BY <2>1, <2>3, <2>5, <2>7, <2>10, <2>11, <2>12, Holds
<1>5. QED BY <1>2, <1>3, <1>4 DEF Launch

LEMMA RestoreKeeps ==
  ASSUME IInv, Restore
  PROVE  IInv'
<1>a. call \in [Threads -> Calls] /\ agents \subseteq 1 .. panes.n
  BY Types
<1>1. PICK s \in Snapshots : /\ mem' = [mem EXCEPT ![s] = [status |-> "running", pane |-> panes.of[s]]]
                              /\ home' \in {FALSE, panes.of[s] \in agents}
  BY DEF Restore
<1>2. s \in Sessions /\ panes.of[s] # 0
  BY DEF Snapshots
<1>3. panes \in [n : Nat, of : [Sessions -> 0 .. panes.n]] /\ panes.of[s] \in 1 .. panes.n /\ panes.n <= panes.n
  BY <1>2 DEF IInv, TypeOK
<1>4. /\ UNCHANGED <<rows, pending, ctl, closed, requested, agents, leaked, runtime, panes, restarts, call>>
      /\ Held = {} /\ call[Main].pc = "idle"
  BY DEF Restore, durable, fixed
<1>5. \A t \in Threads : call'[t] = call[t] /\ call[t].pc = "idle"
  BY <1>4, Alone
<1>6. runtime.naming = "name" => s = 1 /\ \A u \in Sessions : panes'.of[u] # 0 => u = 1
  BY <1>2, <1>4 DEF IInv, OneName
<1>7. "running" \in Statuses
  BY DEF Statuses
<1>8. home' \in BOOLEAN
  <2>1. home' = FALSE \/ home' = (panes.of[s] \in agents)
    BY <1>1, Zenon
  <2>2. (panes.of[s] \in agents) \in BOOLEAN
    OBVIOUS
  <2>3. QED BY <2>1, <2>2, Zenon
<1>9. QED BY <1>a, <1>1, <1>2, <1>3, <1>4, <1>5, <1>6, <1>7, <1>8, Holds

-----------------------------------------------------------------------------
(***************************************************************************)
(* Recovering, committing and dying.                                       *)
(***************************************************************************)
LEMMA RecoverKeeps ==
  ASSUME IInv, Recover
  PROVE  IInv'
<1>a. /\ UNCHANGED <<rows, pending, mem, closed, requested, home, agents, leaked, runtime, panes, restarts, call>>
      /\ ctl' = Replay(ctl, Written) /\ call[Main].pc = "idle"
  BY DEF Recover, durable, world, fixed
<1>b. Written' = Written /\ Held' = Held
  BY <1>a DEF Written, Held
<1>c. Recorded(Written) /\ Tells(ctl, Written) /\ ctl \in Controller
  BY Types DEF IInv, Knows
<1>d. runtime.naming \in {"name", "id"}
  BY RuntimeAssumption DEF IInv, TypeOK
<1>1. /\ ctl' \in Controller /\ Tells(ctl', Written)
      /\ runtime.naming = "id" => Keyed(ctl', Written)
      /\ ctl.bound = 0 \/ (ctl'.bound = ctl.bound /\ ctl'.known = ctl.known)
  <2>1. CASE ctl.bound = 0
    <3>1. ctl = Fresh
      BY <1>c, <2>1 DEF Tells
    <3>2. QED BY <1>a, <1>c, <2>1, <3>1, ReplayOfFresh
  <2>2. CASE ctl.bound # 0 /\ runtime.naming = "id"
    <3>1. Keyed(ctl, Written)
      BY <2>2 DEF IInv, Knows
    <3>2. QED BY <1>a, <1>c, <2>2, <3>1, ReplayOfBound
  <2>3. CASE ctl.bound # 0 /\ runtime.naming = "name"
    <3>1. SessionsOf(Written) \subseteq {1} /\ ctl.bound \in SessionsOf(Written)
      BY <1>c, <2>3 DEF IInv, OneName, SessionsOf, Tells
    <3>2. SessionsOf(Written) \subseteq {ctl.bound}
      BY <3>1
    <3>3. QED BY <1>a, <1>c, <2>3, <3>2, ReplayOfBound
  <2>4. QED BY <1>d, <2>1, <2>2, <2>3
<1>2. TypeOK'
  <2>1. \A s, u \in Held' : s = u
    BY <1>b DEF IInv, TypeOK
  <2>2. rows' \subseteq Events' /\ pending' \subseteq Events'
    BY <1>a DEF IInv, TypeOK, Events
  <2>3. QED BY <1>a, <1>b, <1>1, <2>1, <2>2 DEF IInv, TypeOK, Controller, Herdr
<1>3. Knows' /\ OneName'
  BY <1>a, <1>b, <1>1 DEF IInv, Knows, OneName
<1>4. InCall'
  <2>1. SUFFICES ASSUME NEW t \in Threads PROVE Fit(t, call[t])'
    BY DEF InCall
  <2>2. CASE ctl.bound = 0
    <3>1. ctl.known = {}
      BY <1>c, <2>2 DEF Tells, Fresh
    <3>2. call[t].pc = "idle"
      <4>1. call[t].pc \notin {"told", "launch", "bind"}
        BY <1>a, Types DEF Fit
      <4>2. QED BY <3>1, <4>1, Types DEF Fit
    <3>3. QED BY <1>a, <3>2 DEF Fit
  <2>3. CASE ctl.bound # 0
    <3>1. Fit(t, call[t])
      BY Types
    <3>2. QED BY <1>a, <1>b, <1>1, <2>3, <3>1 DEF Fit, Headless
  <2>4. QED BY <2>2, <2>3
<1>5. QED BY <1>a, <1>b, <1>2, <1>3, <1>4 DEF IInv

LEMMA CommitKeeps ==
  ASSUME IInv, Commit
  PROVE  IInv'
<1>a. /\ UNCHANGED <<ctl, mem, closed, requested, home, agents, leaked, runtime, panes, restarts, call>>
      /\ rows' = Written /\ pending' = {}
  BY DEF Commit, world, fixed
<1>b. Written' = Written /\ Held' = Held
  BY <1>a DEF Written, Held
<1>1. TypeOK'
  <2>1. \A s, u \in Held' : s = u
    BY <1>b DEF IInv, TypeOK
  <2>2. rows' \subseteq Events' /\ pending' \subseteq Events'
    BY <1>a DEF IInv, TypeOK, Events, Written
  <2>3. QED BY <1>a, <1>b, <2>1, <2>2 DEF IInv, TypeOK, Herdr
<1>2. Knows' /\ OneName'
  BY <1>a, <1>b DEF IInv, Knows, OneName
<1>3. InCall'
  BY <1>a, <1>b DEF IInv, InCall, Fit, Headless
<1>4. QED BY <1>a, <1>b, <1>1, <1>2, <1>3 DEF IInv

LEMMA CrashKeeps ==
  ASSUME IInv, Crash
  PROVE  IInv' /\ Held' = {}
<1>a. /\ UNCHANGED <<rows, leaked, runtime, panes>> /\ restarts' = restarts + 1
      /\ pending' = {} /\ ctl' = Fresh /\ mem' = Lost /\ closed' = {} /\ requested' = {} /\ home' = FALSE
      /\ call' = [t \in Threads |-> Free] /\ agents' \subseteq agents
  BY DEF Crash
<1>b. Written' = rows /\ Held' = {}
  BY <1>a DEF Written, Held, Lost
<1>1. TypeOK'
  <2>1. rows' \subseteq Events' /\ pending' \subseteq Events'
    BY <1>a DEF IInv, TypeOK, Events
  <2>2. ctl' \in Controller
    BY <1>a, FreshIsController
  <2>3. mem' \in [Sessions -> [status : Statuses \cup {"none"}, pane : 0 .. panes'.n]]
    BY <1>a DEF Lost, IInv, TypeOK
  <2>4. call' \in [Threads -> Calls]
    BY <1>a, ReturnFits
  <2>5. runtime' \in [kind : Runtimes, naming : Namings] /\ (runtime'.naming = "id" => Herdr')
    BY <1>a DEF IInv, TypeOK, Herdr
  <2>6. panes' \in [n : Nat, of : [Sessions -> 0 .. panes'.n]] /\ restarts' \in Nat
    BY <1>a DEF IInv, TypeOK
  <2>7. home' \in BOOLEAN /\ leaked' \in BOOLEAN /\ agents' \subseteq 1 .. panes'.n
    BY <1>a DEF IInv, TypeOK
  <2>8. (\A s, u \in Held' : s = u) /\ closed' \subseteq Held' /\ requested' \subseteq Held'
    BY <1>a, <1>b
  <2>9. QED BY <2>1, <2>2, <2>3, <2>4, <2>5, <2>6, <2>7, <2>8 DEF TypeOK, Controller, Calls
<1>2. Knows'
  <2>1. Fresh.bound = 0 /\ Fresh.known = {} /\ \A s \in Sessions : Fresh.seqs[s] = 0
    BY DEF Fresh, Nobody
  <2>2. Tells(Fresh, rows)
    BY <2>1 DEF Tells
  <2>3. QED BY <1>a, <1>b, <2>1, <2>2 DEF Knows
<1>3. OneName'
  BY <1>a, <1>b DEF IInv, OneName, Written
<1>4. InCall'
  <2>1. \A t \in Threads : call'[t].pc = "idle"
    BY <1>a DEF Free
  <2>2. QED BY <2>1 DEF InCall, Fit
<1>5. QED BY <1>a, <1>b, <1>1, <1>2, <1>3, <1>4 DEF IInv

-----------------------------------------------------------------------------
(***************************************************************************)
(* The steps that record an event.                                         *)
(***************************************************************************)
LEMMA LastNumber ==
  ASSUME NEW k \in Nat
  PROVE  Max((1 .. k) \cup {0}) = k
<1>1. (1 .. k) \cup {0} = 0 .. k
  OBVIOUS
<1>2. \A x \in 0 .. k : (\A y \in 0 .. k : x >= y) <=> x = k
  OBVIOUS
<1>3. (CHOOSE x \in 0 .. k : \A y \in 0 .. k : x >= y) = k
  <2>1. \E x \in 0 .. k : \A y \in 0 .. k : x >= y
    BY <1>2
  <2>2. QED BY <1>2, <2>1
<1>4. QED BY <1>1, <1>3 DEF Max

\* _record takes the number after the last one, whether it remembers the stream
\* or asks the sink.
LEMMA NextNumber ==
  ASSUME IInv, NEW s \in Sessions
  PROVE  \E k \in Nat : Numbers(Written, s) = 1 .. k /\ Numbered(s) = k
<1>1. PICK k \in Nat : Numbers(Written, s) = 1 .. k
  BY DEF IInv, Recorded, Whole
<1>2. LastSequence(s) = k
  <2>1. {e.n : e \in Stream(s)} = Numbers(Written, s)
    BY DEF Stream, Numbers
  <2>2. QED BY <1>1, <2>1, LastNumber DEF LastSequence
<1>3. ctl.seqs[s] # 0 => ctl.seqs[s] = k
  <2>1. SUFFICES ASSUME ctl.seqs[s] # 0 PROVE ctl.seqs[s] = k
    OBVIOUS
  <2>2. Numbers(Written, s) = 1 .. ctl.seqs[s] /\ ctl.seqs[s] \in Nat
    BY <2>1, Types DEF IInv, Knows, Tells, Controller
  <2>3. QED BY <1>1, <2>1, <2>2
<1>4. Numbered(s) = k
  BY <1>2, <1>3 DEF Numbered
<1>5. QED BY <1>1, <1>4

\* What a step adds to the record, of a session that nobody superseded.
Speaks(s, kind) ==
  \E e \in Event : /\ pending' = pending \cup {e} /\ Written' = Written \cup {e}
                   /\ e.sess = s /\ e.kind = kind
                   /\ e.pane = mem[s].pane /\ s \notin Retired(Written)

LEMMA RecordKeeps ==
  ASSUME IInv, NEW c \in Controller, NEW kind \in Kinds, NEW s \in Held, NEW old \in Sessions \cup {0},
         Record(c, kind, s, old), c.seqs = ctl.seqs, c.keys = ctl.keys,
         kind = "started" \/ s \in SessionsOf(Written),
         old = 0 => Written = {} \/ s \in SessionsOf(Written),
         old # 0 => /\ kind = "started" /\ s \notin SessionsOf(Written)
                    /\ old \in SessionsOf(Written) \ Retired(Written),
         s \notin Retired(Written),
         c.bound \in SessionsOf(Written) \cup {s}, c.bound \notin Retired(Written) \cup {old, 0},
         c.bound \in c.known, c.known \subseteq SessionsOf(Written) \cup {s}, ctl.known \subseteq c.known,
         \A u \in c.known \ {s} : ctl.seqs[u] # 0,
         \A u \in Retired(Written) \cup ({old} \ {0}) : c.superseded[u] # 0,
         runtime.naming = "id" => Keyed(ctl, Written),
         runtime.naming = "name" => s = 1 /\ old = 0,
         UNCHANGED <<rows, mem, closed, requested, home, agents, leaked, runtime, panes, restarts>>,
         call' \in [Threads -> Calls],
         \A t \in Threads : \/ call'[t] = Free
                            \/ call'[t] = call[t] /\ (old = 0 \/ call[t].pc = "idle")
  PROVE  IInv' /\ Speaks(s, kind)
<1>a. /\ s \in Sessions /\ mem[s].pane \in 1 .. panes.n /\ panes.n \in Nat
      /\ Recorded(Written) /\ Recorded(rows) /\ Tells(ctl, Written)
  BY Types DEF IInv, TypeOK, Knows
<1>1. PICK k \in Nat : Numbers(Written, s) = 1 .. k /\ Numbered(s) = k
  BY <1>a, NextNumber
<1> DEFINE e == [sess |-> s, n |-> k + 1, kind |-> kind, old |-> old, pane |-> mem[s].pane]
<1>2. /\ pending' = pending \cup {e}
      /\ ctl' = [c EXCEPT !.seqs = [c.seqs EXCEPT ![s] = k + 1], !.keys = c.keys \cup {<<s, k + 1>>}]
  BY <1>1 DEF Record, Controller
<1>3. e \in Event /\ e \in Events /\ e.sess = s /\ e.n = k + 1 /\ e.kind = kind /\ e.old = old
      /\ e.pane = mem[s].pane
  BY <1>a DEF Event, Events
<1> HIDE DEF e
<1>4. Written' = Written \cup {e}
  BY <1>2 DEF Written
<1>5. Held' = Held
  BY DEF Held
<1>6. k = 0 => kind = "started"
  <2>1. s \in SessionsOf(Written) => Numbers(Written, s) # {}
    BY DEF SessionsOf, Numbers
  <2>2. QED BY <1>1, <2>1
<1>7. Fits(Written, e)
  BY <1>1, <1>3, <1>6 DEF Fits
<1>8. Recorded(Written')
  BY <1>3, <1>4, <1>7, <1>a, RecordedGrows
<1>9. /\ ctl' \in Controller /\ ctl'.bound = c.bound /\ ctl'.known = c.known /\ ctl'.superseded = c.superseded
      /\ ctl'.seqs = [ctl.seqs EXCEPT ![s] = k + 1] /\ ctl'.keys = ctl.keys \cup {<<s, k + 1>>}
  <2> DEFINE y == [c.seqs EXCEPT ![s] = k + 1]
             z == c.keys \cup {<<s, k + 1>>}
  <2>1. y \in [Sessions -> Nat] /\ z \in SUBSET (Sessions \X Nat)
    BY <1>a DEF Controller
  <2>2. y = [ctl.seqs EXCEPT ![s] = k + 1] /\ z = ctl.keys \cup {<<s, k + 1>>}
    OBVIOUS
  <2>3. ctl' = [c EXCEPT !.seqs = y, !.keys = z]
    BY <1>2
  <2> HIDE DEF y, z
  <2>4. ctl' \in Controller /\ ctl'.bound = c.bound /\ ctl'.known = c.known /\ ctl'.superseded = c.superseded
        /\ ctl'.seqs = y /\ ctl'.keys = z
    BY <2>1, <2>3 DEF Controller
  <2>5. QED BY <2>2, <2>4
<1>10. SessionsOf(Written') = SessionsOf(Written) \cup {s} /\ Retired(Written') = Retired(Written) \cup ({old} \ {0})
  BY <1>3, <1>4 DEF SessionsOf, Retired
<1>11. \A u \in Sessions : Numbers(Written', u) = Numbers(Written, u) \cup (IF u = s THEN {k + 1} ELSE {})
  BY <1>3, <1>4 DEF Numbers
<1>12. ctl.seqs \in [Sessions -> Nat]
  BY Types DEF Controller
<1>13. Tells(ctl', Written')
  <2>1. ctl'.bound # 0 /\ ctl'.bound \in SessionsOf(Written') \ Retired(Written') /\ ctl'.bound \in ctl'.known
        /\ \A u \in Retired(Written') : ctl'.superseded[u] # 0
    BY <1>9, <1>10
  <2>2. ctl'.known \subseteq SessionsOf(Written')
    BY <1>9, <1>10
  <2>3. \A u \in ctl'.known : ctl'.seqs[u] # 0
    <3>1. \A u \in c.known : u \in Sessions
      BY DEF Controller
    <3>2. QED BY <1>9, <1>12, <3>1
  <2>4. ASSUME NEW u \in Sessions, ctl'.seqs[u] # 0 PROVE Numbers(Written', u) = 1 .. ctl'.seqs[u]
    <3>1. CASE u = s
      <4>1. ctl'.seqs[u] = k + 1 /\ Numbers(Written', u) = (1 .. k) \cup {k + 1}
        BY <1>1, <1>9, <1>11, <1>12, <3>1
      <4>2. (1 .. k) \cup {k + 1} = 1 .. (k + 1)
        OBVIOUS
      <4>3. QED BY <4>1, <4>2
    <3>2. CASE u # s
      <4>1. ctl'.seqs[u] = ctl.seqs[u]
        BY <1>9, <1>12, <3>2
      <4>2. Numbers(Written', u) = Numbers(Written, u) \cup {}
        BY <1>11, <3>2
      <4>3. Numbers(Written, u) = 1 .. ctl.seqs[u]
        BY <1>a, <2>4, <4>1 DEF Tells
      <4>4. QED BY <4>1, <4>2, <4>3
    <3>3. QED BY <3>1, <3>2
  <2>5. QED BY <2>1, <2>2, <2>3, <2>4 DEF Tells
<1>14. Knows'
  <2>1. Keyed(ctl, Written) => Keyed(ctl', Written')
    BY <1>3, <1>4, <1>9 DEF Keyed
  <2>2. QED BY <1>13, <2>1 DEF Knows
<1>15. OneName'
  BY <1>3, <1>4, <1>5 DEF IInv, OneName
<1>16. TypeOK'
  <2>1. \A v, u \in Held' : v = u
    BY <1>5 DEF IInv, TypeOK
  <2>2. rows' \subseteq Events' /\ pending' \subseteq Events'
    BY <1>2, <1>3 DEF IInv, TypeOK, Events
  <2>3. QED BY <1>5, <1>9, <2>1, <2>2 DEF IInv, TypeOK, Controller, Calls, Herdr
<1>17. InCall'
  <2>1. SUFFICES ASSUME NEW t \in Threads PROVE Fit(t, call[t])'
    BY DEF InCall
  <2>2. CASE call'[t].pc = "idle"
    BY <2>2 DEF Fit
  <2>3. CASE call'[t] = call[t] /\ old = 0
    <3>1. Fit(t, call[t]) /\ Retired(Written') = Retired(Written) /\ ctl'.bound # 0 /\ ctl.known \subseteq ctl'.known
      BY <1>9, <1>10, <2>3, Types
    <3>2. QED BY <1>5, <2>3, <3>1 DEF Fit, Headless
  <2>4. QED BY <2>2, <2>3 DEF Free
<1>18. Speaks(s, kind)
  BY <1>2, <1>3, <1>4 DEF Speaks
<1>19. QED BY <1>8, <1>a, <1>14, <1>15, <1>16, <1>17, <1>18 DEF IInv

LEMMA ObserveKeeps ==
  ASSUME IInv, NEW t \in Threads, Observe(t)
  PROVE  IInv' /\ Speaks(call[t].sess, KindOf(call[t].op))
<1> DEFINE s == call[t].sess
           kind == KindOf(call[t].op)
<1>a. /\ Fit(t, call[t]) /\ call \in [Threads -> Calls] /\ ctl \in Controller
      /\ call[t].pc = "record" /\ Tells(ctl, Written)
  BY Types DEF Observe, IInv, Knows
<1>1. s \in Held /\ s \in ctl.known /\ s \notin Retired(Written)
  BY <1>a DEF Fit
<1>2. ctl.bound # 0 /\ s \in SessionsOf(Written)
  BY <1>1, <1>a DEF Tells, Fresh
<1>3. kind \in Kinds
  <2>1. kind = "cancelled" \/ kind = "terminated" \/ kind = "observed"
    BY Zenon DEF KindOf
  <2>2. QED BY <2>1 DEF Kinds
<1>4. runtime.naming = "name" => s = 1
  BY <1>1 DEF IInv, OneName
<1>5. runtime.naming = "id" => Keyed(ctl, Written)
  BY <1>2 DEF IInv, Knows
<1>6. /\ call' \in [Threads -> Calls]
      /\ \A u \in Threads : call'[u] = Free \/ call'[u] = call[u]
  <2>1. call' = [call EXCEPT ![t] = Free] /\ Free \in Calls
    BY ReturnFits DEF Observe, Return
  <2>2. QED BY <1>a, <2>1
<1>7. /\ Record(ctl, kind, s, 0)
      /\ UNCHANGED <<rows, mem, closed, requested, home, agents, leaked, runtime, panes, restarts>>
  BY DEF Observe, world, fixed
<1>8. /\ ctl.bound \in SessionsOf(Written) \cup {s} /\ ctl.bound \notin Retired(Written) \cup {0, 0}
      /\ ctl.bound \in ctl.known /\ ctl.known \subseteq SessionsOf(Written) \cup {s}
      /\ \A u \in ctl.known \ {s} : ctl.seqs[u] # 0
      /\ \A u \in Retired(Written) \cup ({0} \ {0}) : ctl.superseded[u] # 0
  BY <1>2, <1>a DEF Tells
<1> HIDE DEF s, kind
<1>9. IInv' /\ Speaks(s, kind)
  <2> DEFINE old == 0
  <2>1. /\ old \in Sessions \cup {0} /\ old = 0 /\ Record(ctl, kind, s, old)
        /\ ctl.bound \notin Retired(Written) \cup {old, 0}
        /\ \A u \in Retired(Written) \cup ({old} \ {0}) : ctl.superseded[u] # 0
    BY <1>7, <1>8
  <2> HIDE DEF old
  <2>2. QED BY <1>1, <1>2, <1>3, <1>4, <1>5, <1>6, <1>7, <1>8, <1>a, <2>1, RecordKeeps
<1>10. QED BY <1>9 DEF s, kind

LEMMA ChainIsClosed ==
  ASSUME NEW E, Recorded(E)
  PROVE  /\ Retired(E) \subseteq SessionsOf(E) /\ SessionsOf(E) \subseteq Sessions
         /\ \A u, v \in SessionsOf(E) \ Retired(E) : u = v
<1>1. E \subseteq Event /\ Chain(E)
  BY DEF Recorded
<1>2. PICK pos \in [Sessions -> Nat] : Placed(E, pos)
  BY <1>1 DEF Chain
<1>3. Retired(E) \subseteq SessionsOf(E)
  BY <1>2 DEF Retired, Placed
<1>4. SessionsOf(E) \subseteq Sessions
  BY <1>1 DEF SessionsOf, Event
<1>5. QED BY <1>1, <1>3, <1>4 DEF Chain

LEMMA BindKeeps ==
  ASSUME IInv, Bind
  PROVE  IInv' /\ (UNCHANGED <<pending, Written>> \/ Speaks(call[Main].sess, "started"))
<1> DEFINE s == call[Main].sess
           lost == call[Main].lost
           previous == ctl.bound
           refused == ctl.superseded[s] # 0 \/ (previous # 0 /\ previous # s /\ ~lost)
           bound == [ctl EXCEPT !.bound = s, !.known = ctl.known \cup {s}, !.unconfirmed = FALSE]
<1>a. /\ Fit(Main, call[Main]) /\ call \in [Threads -> Calls] /\ ctl \in Controller /\ Main \in Threads
      /\ call[Main].pc = "bind" /\ Tells(ctl, Written) /\ Held \subseteq Sessions /\ 0 \notin Sessions
      /\ mem \in Memory /\ closed \subseteq Held /\ requested \subseteq Held
      /\ home \in BOOLEAN /\ leaked \in BOOLEAN /\ agents \subseteq 1 .. panes.n
  BY Types DEF Bind, IInv, Knows
<1>b. s \in Held /\ s \in Sessions /\ (runtime.naming = "id" /\ ctl.bound = 0 => Written = {})
  BY <1>a DEF Fit
<1>c. runtime.naming = "name" => s = 1 /\ SessionsOf(Written) \subseteq {1} /\ Retired(Written) = {}
  BY <1>b DEF IInv, OneName, SessionsOf, Retired
<1>d. /\ Retired(Written) \subseteq SessionsOf(Written) /\ SessionsOf(Written) \subseteq Sessions
      /\ \A u, v \in SessionsOf(Written) \ Retired(Written) : u = v
  BY ChainIsClosed DEF IInv, Recorded
<1>e. runtime.naming \in {"name", "id"}
  BY RuntimeAssumption DEF IInv, TypeOK
<1>f. /\ call' = [call EXCEPT ![Main] = Free]
      /\ UNCHANGED <<rows, mem, closed, requested, home, agents, leaked, runtime, panes, restarts>>
      /\ IF refused THEN UNCHANGED <<ctl, pending>>
         ELSE IF previous # 0 /\ ~lost THEN ctl' = bound /\ UNCHANGED pending
         ELSE IF previous # 0 /\ previous # s
              THEN Record([bound EXCEPT !.superseded[previous] = s], "started", s, previous)
              ELSE Record(bound, "started", s, 0)
  BY DEF Bind, Return, world, fixed
<1>g. Free \in Calls /\ Fit(Main, Free)
  BY <1>a, ReturnFits
<1>h. call' \in [Threads -> Calls] /\ \A t \in Threads : call'[t] = Free \/ (t # Main /\ call'[t] = call[t])
  BY <1>a, <1>f, <1>g
<1>i. "started" \in Kinds
  BY DEF Kinds
<1>j. /\ bound \in Controller /\ bound.bound = s /\ bound.known = ctl.known \cup {s}
      /\ bound.seqs = ctl.seqs /\ bound.keys = ctl.keys /\ bound.superseded = ctl.superseded
  BY <1>a, <1>b DEF Controller
<1>k. ~refused => s \notin Retired(Written)
  BY <1>a, <1>c, <1>e, <1>b DEF Tells, Retired
<1>1. ASSUME UNCHANGED pending,
             ctl' \in {ctl, [ctl EXCEPT !.unconfirmed = FALSE]}, ctl' = ctl \/ ctl.bound # 0
      PROVE  IInv' /\ UNCHANGED <<pending, Written>>
  <2>1. Quiet
    BY <1>1, <1>a, <1>f, <1>g, MovesQuietly
  <2>2. Written' = Written
    BY <1>1, <1>f DEF Written
  <2>3. QED BY <1>1, <2>1, <2>2, QuietKeeps
<1>2. CASE refused
  BY <1>1, <1>2, <1>f
<1>3. CASE ~refused /\ previous # 0 /\ ~lost
  <2>1. s = previous /\ ctl' = bound /\ UNCHANGED pending
    BY <1>3, <1>f
  <2>2. s \in ctl.known
    BY <1>3, <1>a, <2>1 DEF Tells
  <2> DEFINE w == ctl.known \cup {s}
  <2>3. w = ctl.known /\ s = ctl.bound /\ ctl' = [ctl EXCEPT !.bound = s, !.known = w, !.unconfirmed = FALSE]
    BY <2>1, <2>2
  <2> HIDE DEF w, s
  <2>4. ctl' = [ctl EXCEPT !.unconfirmed = FALSE]
    BY <1>a, <2>3 DEF Controller
  <2>5. QED BY <1>1, <1>3, <2>1, <2>4
<1>4. CASE ~refused /\ previous # 0 /\ previous # s /\ lost
  <2> DEFINE c == [bound EXCEPT !.superseded[previous] = s]
             z == [ctl.superseded EXCEPT ![previous] = s]
  <2>1. Record(c, "started", s, previous)
    BY <1>4, <1>f
  <2>2. /\ previous \in Sessions /\ previous \in SessionsOf(Written) \ Retired(Written)
        /\ previous \in ctl.known
    BY <1>4, <1>a, <1>d DEF Tells
  <2>3. runtime.naming = "id"
    BY <1>4, <1>c, <1>e, <2>2
  <2>4. s \notin Retired(Written)
    BY <1>4, <1>k
  <2>5. s \notin SessionsOf(Written)
    BY <1>4, <1>d, <2>2, <2>4
  <2>6. /\ z \in [Sessions -> Sessions \cup {0}] /\ z[previous] = s
        /\ \A u \in Sessions : u # previous => z[u] = ctl.superseded[u]
    BY <1>a, <1>b, <2>2 DEF Controller
  <2>7. c = [bound EXCEPT !.superseded = z]
    BY <1>j
  <2> HIDE DEF bound, z, c
  <2>8. /\ c \in Controller /\ c.bound = s /\ c.known = ctl.known \cup {s}
        /\ c.seqs = ctl.seqs /\ c.keys = ctl.keys /\ c.superseded = z
    BY <1>j, <2>6, <2>7 DEF Controller
  <2>9. /\ c.bound \notin Retired(Written) \cup {previous, 0} /\ c.known \subseteq SessionsOf(Written) \cup {s}
        /\ \A u \in c.known \ {s} : ctl.seqs[u] # 0
    BY <1>4, <1>a, <1>b, <2>4, <2>8 DEF Tells
  <2>10. \A u \in Retired(Written) \cup ({previous} \ {0}) : c.superseded[u] # 0
    <3>1. SUFFICES ASSUME NEW u \in Retired(Written) \cup {previous} PROVE z[u] # 0
      BY <2>8
    <3>2. CASE u = previous
      BY <1>a, <1>b, <2>6, <3>2
    <3>3. CASE u \in Retired(Written) /\ u # previous
      <4>1. u \in Sessions /\ ctl.superseded[u] # 0
        BY <1>4, <1>a, <1>d, <3>3 DEF Tells
      <4>2. QED BY <2>6, <3>3, <4>1
    <3>4. QED BY <3>2, <3>3
  <2>11. Keyed(ctl, Written)
    BY <1>4, <2>3 DEF IInv, Knows
  <2>12. \A t \in Threads : call'[t] = Free \/ (call'[t] = call[t] /\ call[t].pc = "idle")
    <3>1. SUFFICES ASSUME NEW t \in Threads, t # Main, call[t].pc # "idle" PROVE FALSE
      BY <1>h
    <3>2. Fit(t, call[t])
      BY Types
    <3>3. call[t].sess \in Held /\ call[t].sess \in ctl.known
      BY <3>1, <3>2 DEF Fit
    <3>4. call[t].sess = s
      BY <1>b, <3>3 DEF IInv, TypeOK
    <3>5. QED BY <1>a, <2>5, <3>3, <3>4 DEF Tells
  <2> DEFINE k == "started"
             old == previous
  <2>13. /\ k \in Kinds /\ k = "started" /\ old \in Sessions \cup {0} /\ old # 0 /\ old \in SessionsOf(Written) \ Retired(Written)
         /\ Record(c, k, s, old) /\ c.bound \notin Retired(Written) \cup {old, 0}
         /\ \A u \in Retired(Written) \cup ({old} \ {0}) : c.superseded[u] # 0
    BY <1>4, <1>i, <2>1, <2>2, <2>9, <2>10
  <2>14. /\ c.bound \in SessionsOf(Written) \cup {s} /\ c.bound \in c.known /\ ctl.known \subseteq c.known
         /\ runtime.naming # "name"
    BY <2>3, <2>8
  <2> HIDE DEF k, old, s
  <2>15. IInv' /\ Speaks(s, k)
    BY <1>b, <1>f, <1>h, <2>4, <2>5, <2>8, <2>9, <2>11, <2>12, <2>13, <2>14, RecordKeeps
  <2>16. QED BY <2>13, <2>15 DEF s
<1>5. CASE ~refused /\ (previous = 0 \/ (previous = s /\ lost))
  <2>1. Record(bound, "started", s, 0)
    BY <1>5, <1>f
  <2>2. s \notin Retired(Written)
    BY <1>5, <1>k
  <2>3. Written = {} \/ s \in SessionsOf(Written)
    <3>1. CASE previous = s
      BY <1>a, <1>b, <3>1 DEF Tells
    <3>2. CASE previous = 0 /\ runtime.naming = "id"
      BY <1>b, <3>2
    <3>3. CASE previous = 0 /\ runtime.naming = "name"
      <4>1. Written # {} => SessionsOf(Written) # {}
        BY DEF SessionsOf
      <4>2. QED BY <1>c, <3>3, <4>1
    <3>4. QED BY <1>5, <1>e, <3>1, <3>2, <3>3
  <2>4. \A u \in Retired(Written) : ctl.superseded[u] # 0
    <3>1. CASE previous # 0
      BY <1>a, <3>1 DEF Tells
    <3>2. CASE previous = 0
      <4>1. Retired(Written) = {}
        BY <1>b, <1>c, <1>e, <3>2 DEF Retired
      <4>2. QED BY <4>1
    <3>3. QED BY <3>1, <3>2
  <2>5. runtime.naming = "id" => Keyed(ctl, Written)
    BY <1>b DEF IInv, Knows, Keyed
  <2>6. ctl.known \subseteq SessionsOf(Written) /\ \A u \in ctl.known : ctl.seqs[u] # 0
    BY <1>a DEF Tells
  <2> DEFINE k == "started"
             old == 0
             c == bound
  <2>7. /\ k \in Kinds /\ k = "started" /\ old = 0 /\ old \in Sessions \cup {0} /\ Record(c, k, s, old)
        /\ c \in Controller /\ c.bound = s /\ c.known = ctl.known \cup {s}
        /\ c.seqs = ctl.seqs /\ c.keys = ctl.keys /\ c.superseded = ctl.superseded
    BY <1>i, <1>j, <2>1
  <2> HIDE DEF k, old, c, bound
  <2>8. /\ c.bound \in SessionsOf(Written) \cup {s} /\ c.bound \notin Retired(Written) \cup {old, 0}
        /\ c.bound \in c.known /\ c.known \subseteq SessionsOf(Written) \cup {s} /\ ctl.known \subseteq c.known
        /\ \A u \in c.known \ {s} : ctl.seqs[u] # 0
        /\ \A u \in Retired(Written) \cup ({old} \ {0}) : c.superseded[u] # 0
    BY <1>a, <1>b, <2>2, <2>4, <2>6, <2>7
  <2>9. /\ \A t \in Threads : call'[t] = Free \/ (call'[t] = call[t] /\ (old = 0 \/ call[t].pc = "idle"))
        /\ runtime.naming = "name" => s = 1 /\ old = 0
    BY <1>c, <1>h, <2>7
  <2> HIDE DEF s
  <2>10. IInv' /\ Speaks(s, k)
    BY <1>b, <1>f, <1>h, <2>2, <2>3, <2>5, <2>7, <2>8, <2>9, RecordKeeps
  <2>11. QED BY <2>7, <2>10 DEF s
<1>6. QED
  <2>1. lost \in BOOLEAN
    BY <1>a DEF Calls
  <2>2. QED BY <1>2, <1>3, <1>4, <1>5, <2>1

-----------------------------------------------------------------------------
(***************************************************************************)
(* Every step, and what follows.                                           *)
(***************************************************************************)
LEMMA StutterIsQuiet ==
  ASSUME IInv, UNCHANGED vars
  PROVE  Quiet
<1> DEFINE r == call[Main]
<1>1. /\ call \in [Threads -> Calls] /\ r \in Calls /\ Fit(Main, r) /\ mem \in Memory /\ Main \in Threads
      /\ closed \subseteq Held /\ requested \subseteq Held
      /\ home \in BOOLEAN /\ leaked \in BOOLEAN /\ agents \subseteq 1 .. panes.n
  BY Types
<1>2. UNCHANGED <<rows, pending, ctl, mem, closed, requested, home, agents, leaked, runtime, panes, restarts, call>>
  BY DEF vars
<1>3. call' = [call EXCEPT ![Main] = r]
  BY <1>1, <1>2
<1> HIDE DEF r
<1>4. QED BY <1>1, <1>2, <1>3, MovesQuietly

LEMMA Step ==
  ASSUME IInv, [Next]_vars
  PROVE  /\ IInv'
         /\ \/ UNCHANGED pending \/ pending' = {}
            \/ \E s \in Sessions, kind \in Kinds : Speaks(s, kind)
<1>1. CASE Quiet
  BY <1>1, QuietKeeps DEF Quiet
<1>2. CASE Launch
  BY <1>2, LaunchKeeps DEF Launch, durable
<1>3. CASE Restore
  BY <1>3, RestoreKeeps DEF Restore, durable
<1>4. CASE Recover
  BY <1>4, RecoverKeeps DEF Recover, durable
<1>5. CASE Commit
  BY <1>5, CommitKeeps DEF Commit
<1>6. CASE Crash
  BY <1>6, CrashKeeps DEF Crash
<1>7. CASE Bind
  <2>1. IInv' /\ (UNCHANGED pending \/ Speaks(call[Main].sess, "started"))
    BY <1>7, BindKeeps
  <2>2. Fit(Main, call[Main]) /\ call[Main].pc = "bind" /\ Held \subseteq Sessions
    BY <1>7, Types DEF Bind
  <2>3. call[Main].sess \in Sessions /\ "started" \in Kinds
    BY <2>2 DEF Fit, Kinds
  <2>4. QED BY <2>1, <2>3
<1>8. ASSUME NEW t \in Threads, Observe(t)
      PROVE  IInv' /\ \E s \in Sessions, kind \in Kinds : Speaks(s, kind)
  <2>1. IInv' /\ Speaks(call[t].sess, KindOf(call[t].op))
    BY <1>8, ObserveKeeps
  <2>2. Fit(t, call[t]) /\ call[t].pc = "record" /\ Held \subseteq Sessions
    BY <1>8, Types DEF Observe
  <2>3. call[t].sess \in Sessions
    BY <2>2 DEF Fit
  <2>4. KindOf(call[t].op) \in Kinds
    <3>1. \/ KindOf(call[t].op) = "cancelled" \/ KindOf(call[t].op) = "terminated"
          \/ KindOf(call[t].op) = "observed"
      BY Zenon DEF KindOf
    <3>2. QED BY <3>1 DEF Kinds
  <2>5. QED BY <2>1, <2>3, <2>4
<1>9. CASE \/ StartAsks \/ StartTold \/ Send \/ TurnAnswers \/ TurnFails \/ Write
           \/ StreamReads \/ StreamWrites \/ Reconnect \/ Reconnected
  BY <1>1, <1>9, StartIsQuiet, ToldIsQuiet, SendIsQuiet, WriteIsQuiet
<1>10. ASSUME NEW t \in Threads,
              \/ \E op \in CallsOf(t), s \in Sessions : Check(t, op, s)
              \/ Asked(t) \/ Claim(t) \/ Stopped(t) \/ Stop(t) \/ StopFails(t) \/ Mark(t)
       PROVE  Quiet
  BY <1>10, ThreadIsQuiet
<1>11. CASE UNCHANGED vars
  BY <1>1, <1>11, StutterIsQuiet
<1>12. QED BY <1>1, <1>2, <1>3, <1>4, <1>5, <1>6, <1>7, <1>8, <1>9, <1>10, <1>11 DEF Next, MainThread, Thread

LEMMA Always == Spec => []IInv
<1>1. IInv /\ [Next]_vars => IInv'
  BY Step
<1>2. QED BY <1>1, InitIsGood, PTL DEF Spec

\* Every variable keeps its type; the runtime has one session at most, so the
\* environments it closes are those of that session.
THEOREM SessionsTyped == Spec => []TypeOK
<1>1. IInv => TypeOK
  BY DEF IInv
<1>2. QED BY <1>1, Always, PTL

\* The streams have no gap, no number twice and a start at the head, for any
\* number of sessions, events and crashes (_record, last_sequence).
THEOREM StreamsAreWhole == Spec => []StreamIsWhole
<1>1. IInv => StreamIsWhole
  <2>1. SUFFICES ASSUME IInv, NEW s \in Sessions
                 PROVE  /\ Gaps(s) = {}
                        /\ \A e, f \in Stream(s) : e.n = f.n => e = f
                        /\ \A e \in Stream(s) : e.n = 1 => e.kind = "started"
    BY DEF StreamIsWhole
  <2>2. Whole(Written)
    BY <2>1 DEF IInv, Recorded
  <2>3. PICK k \in Nat : Numbers(Written, s) = 1 .. k
    BY <2>2 DEF Whole
  <2>4. {e.n : e \in Stream(s)} = Numbers(Written, s)
    BY DEF Stream, Numbers
  <2>5. LastSequence(s) = k
    BY <2>3, <2>4, LastNumber DEF LastSequence
  <2>6. Gaps(s) = {}
    BY <2>3, <2>4, <2>5 DEF Gaps
  <2>7. QED BY <2>2, <2>6 DEF Whole, Stream
<1>2. QED BY <1>1, Always, PTL

(***************************************************************************)
(* The next two theorems rest on RecoveredFirst, a duty of the caller that *)
(* start does not check: under new ids an Attempt with events is started   *)
(* only after recover.  ADR 0029 (line 110) says that recover is not yet   *)
(* wired into LiveRunAdapter.  The other theorems share the inductive      *)
(* invariant, so they are stated for the same callers.                     *)
(***************************************************************************)
\* A controller is bound to the last session of the recorded chain, and a restart
\* that recovers the Attempt binds to the same one (recover, replay).
THEOREM BindingIsRecorded == Spec => []BindingFollowsTheRecord
<1>1. IInv => BindingFollowsTheRecord
  <2>1. SUFFICES ASSUME IInv PROVE BindingFollowsTheRecord
    OBVIOUS
  <2> DEFINE c == Replay(Fresh, Written)
             heads == SessionsOf(Written) \ {e.old : e \in Written}
  <2>2. Recorded(Written) /\ Tells(ctl, Written)
    BY <2>1 DEF IInv, Knows
  <2>3. Tells(c, Written) /\ (Written # {} => c.bound # 0)
    BY <2>2, ReplayOfFresh
  <2>4. \A u, v \in SessionsOf(Written) \ Retired(Written) : u = v
    BY <2>2, ChainIsClosed
  <2>5. heads \subseteq SessionsOf(Written) \ Retired(Written)
    BY DEF Retired
  <2>6. ctl.bound # 0 => ctl.bound \in heads
    BY <2>2 DEF Tells, Retired
  <2> HIDE DEF c
  <2>7. \A s \in heads : c.bound = s
    <3>1. SUFFICES ASSUME NEW s \in heads PROVE c.bound = s
      OBVIOUS
    <3>2. Written # {}
      BY DEF SessionsOf
    <3>3. QED BY <2>3, <2>4, <2>5, <3>2 DEF Tells
  <2>8. QED BY <2>6, <2>7 DEF BindingFollowsTheRecord, c, SessionsOf
<1>2. QED BY <1>1, Always, PTL

\* No event is recorded for a session that another one superseded, and no two
\* sessions supersede the same one.
THEOREM RetiredIsSilent == Spec => RetiredStaysSilent
<1> DEFINE Silent == \A e \in pending' \ pending :
                       /\ ~ \E f \in Written : f.old = e.sess
                       /\ \A f, g \in Written \cup {e} : f.old # 0 /\ f.old = g.old => f.sess = g.sess
<1>1. IInv /\ [Next]_vars => Silent
  <2>1. SUFFICES ASSUME IInv, [Next]_vars, NEW e \in pending' \ pending
                 PROVE  /\ ~ \E f \in Written : f.old = e.sess
                        /\ \A f, g \in Written \cup {e} : f.old # 0 /\ f.old = g.old => f.sess = g.sess
    OBVIOUS
  <2>2. PICK s \in Sessions, kind \in Kinds : Speaks(s, kind)
    BY <2>1, Step
  <2>3. /\ Written' = Written \cup {e} /\ e.sess = s /\ s \notin Retired(Written)
    BY <2>1, <2>2 DEF Speaks
  <2>4. ~ \E f \in Written : f.old = e.sess
    BY <2>3 DEF Retired, Sessions
  <2>5. Recorded(Written \cup {e})
    <3>1. IInv'
      BY <2>1, Step
    <3>2. QED BY <2>3, <3>1 DEF IInv
  <2> DEFINE E == Written \cup {e}
  <2>6. PICK pos \in [Sessions -> Nat] : Placed(E, pos)
    BY <2>5 DEF Recorded, Chain
  <2> HIDE DEF E
  <2>7. \A f, g \in E : f.old # 0 /\ f.old = g.old => f.sess = g.sess
    <3>1. \A f \in E : f.sess \in SessionsOf(E)
      BY DEF SessionsOf
    <3>2. QED BY <2>6, <3>1 DEF Placed
  <2>8. QED BY <2>4, <2>7 DEF E
<1>2. QED BY <1>1, Always, PTL DEF Spec, RetiredStaysSilent

\* The number that _record allocates is new in its stream: append never finds
\* another event there and never refuses.
THEOREM AppendsNeverConflict == Spec => [](\A s \in Sessions : \A e \in Stream(s) : e.n <= Numbered(s))
<1>1. IInv => \A s \in Sessions : \A e \in Stream(s) : e.n <= Numbered(s)
  <2>1. SUFFICES ASSUME IInv, NEW s \in Sessions, NEW e \in Stream(s) PROVE e.n <= Numbered(s)
    OBVIOUS
  <2>2. PICK k \in Nat : Numbers(Written, s) = 1 .. k /\ Numbered(s) = k
    BY <2>1, NextNumber
  <2>3. e.n \in Numbers(Written, s)
    BY DEF Stream, Numbers
  <2>4. QED BY <2>2, <2>3
<1>2. QED BY <1>1, Always, PTL

-----------------------------------------------------------------------------
(***************************************************************************)
(* Ended means stopped.  The panes of ended sessions, of calls that have    *)
(* stopped their agent and of closed environments are silent.  A headless   *)
(* turn starts the agent of the pane anew, but only while the transport has *)
(* its sandbox: whoever stopped it took the sandbox as well.               *)
(***************************************************************************)
Silenced(p) == p \notin agents /\ (Headless /\ home => \A s \in Held : mem[s].pane # p)

Stopping ==
  \/ leaked
  \/ /\ \A e \in Written : e.kind \in Ended => Silenced(e.pane)
     /\ \A t \in Threads : call[t].op \in {"cancel", "terminate"} /\ call[t].pc \in {"mark", "record"} =>
                             Silenced(Pane(t))
     /\ \A s \in closed : Silenced(mem[s].pane)
     /\ Headless /\ ~home => \A s \in Held : mem[s].pane \notin agents

\* Only a call that stops has stopped.
Marking == \A t \in Threads : call[t].pc = "mark" => call[t].op \in {"cancel", "terminate"}

SInv == IInv /\ Marking /\ Stopping

\* A call that claims nothing about the agent.
Hush(r) == r.pc # "mark" /\ (r.pc = "record" => r.op \notin {"cancel", "terminate"})

\* A quiet step may start an agent in the pane of a headless session that has its
\* sandbox, and may end agents; what is closed or stopped in it is silent after it.
LEMMA CalmKeeps ==
  ASSUME SInv, Quiet, leaked => leaked',
         \A u \in Threads : \/ call'[u] = call[u] \/ Hush(call'[u])
                            \/ /\ call'[u].op \in {"cancel", "terminate"}
                               /\ leaked' \/ (/\ mem[call'[u].sess].pane \notin agents'
                                              /\ Headless => ~home'),
         \/ leaked'
         \/ /\ \A p \in agents' : p \in agents \/ (Headless /\ home /\ \E s \in Held : p = mem[s].pane)
            /\ home' => home
            /\ home /\ ~home' => \A s \in Held : mem[s].pane \notin agents'
            /\ \A s \in closed' \ closed : mem[s].pane \notin agents' /\ (Headless => ~home')
  PROVE  SInv'
<1>a. /\ Written' = Written /\ Held' = Held /\ runtime' = runtime /\ Held \subseteq Sessions
      /\ \A u \in Sessions : mem'[u].pane = mem[u].pane
      /\ closed' \subseteq Held /\ leaked \in BOOLEAN /\ leaked' \in BOOLEAN /\ home \in BOOLEAN /\ home' \in BOOLEAN
  BY Types DEF Quiet, Written, Held, SInv
<1>1. IInv'
  BY QuietKeeps DEF SInv
<1>b. \A u \in Threads : Fit(u, call[u])' /\ Fit(u, call[u])
  BY <1>1, Types DEF SInv, IInv, InCall
<1>2. Marking'
  BY DEF SInv, Marking, Hush
<1>3. Stopping'
  <2>1. CASE leaked'
    BY <2>1 DEF Stopping
  <2>2. CASE ~leaked'
    <3>0. /\ \A e \in Written : e.kind \in Ended => Silenced(e.pane)
          /\ \A t \in Threads : call[t].op \in {"cancel", "terminate"} /\ call[t].pc \in {"mark", "record"} =>
                                  Silenced(Pane(t))
          /\ \A s \in closed : Silenced(mem[s].pane)
          /\ Headless /\ ~home => \A s \in Held : mem[s].pane \notin agents
      BY <2>2, <1>a DEF SInv, Stopping
    <3>1. ASSUME NEW p, Silenced(p) PROVE Silenced(p)'
      <4>1. p \notin agents'
        BY <2>2, <3>1 DEF Silenced
      <4>2. ASSUME Headless, home', NEW s \in Held PROVE mem[s].pane # p
        BY <2>2, <3>1, <4>2 DEF Silenced
      <4>3. QED BY <1>a, <4>1, <4>2 DEF Silenced, Headless
    <3>2. \A e \in Written' : e.kind \in Ended => Silenced(e.pane)'
      BY <1>a, <3>0, <3>1
    <3>3. ASSUME NEW t \in Threads, call'[t].op \in {"cancel", "terminate"}, call'[t].pc \in {"mark", "record"}
          PROVE  Silenced(Pane(t))'
      <4>1. call'[t].sess \in Held
        BY <1>a, <1>b, <3>3 DEF Fit
      <4>2. CASE call'[t] = call[t]
        <5>1. Silenced(Pane(t)) /\ Pane(t)' = Pane(t)
          BY <1>a, <3>0, <3>3, <4>1, <4>2 DEF Pane
        <5>2. Pane(t) \notin agents' /\ (Headless /\ home' => \A u \in Held : mem[u].pane # Pane(t))
          BY <2>2, <5>1 DEF Silenced
        <5>3. QED BY <1>a, <5>1, <5>2 DEF Silenced, Headless
      <4>3. CASE mem[call'[t].sess].pane \notin agents' /\ (Headless => ~home')
        <5>1. Pane(t)' \notin agents' /\ (Headless' => ~home')
          BY <1>a, <4>1, <4>3 DEF Pane, Headless
        <5>2. QED BY <5>1 DEF Silenced
      <4>4. QED BY <2>2, <3>3, <4>2, <4>3 DEF Hush
    <3>4. ASSUME NEW s \in closed' PROVE Silenced(mem[s].pane)'
      <4>1. mem'[s].pane = mem[s].pane /\ s \in Held
        BY <1>a
      <4>2. CASE s \in closed
        <5>1. Silenced(mem[s].pane)
          BY <3>0, <4>2
        <5>2. mem[s].pane \notin agents' /\ (Headless /\ home' => \A u \in Held : mem[u].pane # mem[s].pane)
          BY <2>2, <5>1 DEF Silenced
        <5>3. QED BY <1>a, <4>1, <5>2 DEF Silenced, Headless
      <4>3. CASE s \notin closed
        <5>1. mem[s].pane \notin agents' /\ (Headless => ~home')
          BY <2>2, <4>3
        <5>2. QED BY <1>a, <4>1, <5>1 DEF Silenced, Headless
      <4>4. QED BY <4>2, <4>3
    <3>5. Headless' /\ ~home' => \A s \in Held' : mem'[s].pane \notin agents'
      <4>1. ASSUME Headless, ~home', NEW s \in Held PROVE mem[s].pane \notin agents'
        BY <2>2, <3>0, <4>1
      <4>2. QED BY <1>a, <4>1 DEF Headless
    <3>6. QED BY <3>2, <3>3, <3>4, <3>5 DEF Stopping
  <2>3. QED BY <2>1, <2>2
<1>4. QED BY <1>1, <1>2, <1>3 DEF SInv

LEMMA ThreadStops ==
  ASSUME SInv, NEW t \in Threads,
         \/ \E op \in CallsOf(t), s \in Sessions : Check(t, op, s)
         \/ Asked(t) \/ Claim(t) \/ Stopped(t) \/ Stop(t) \/ StopFails(t) \/ Mark(t)
  PROVE  SInv'
<1> DEFINE r == call[t]
<1>a. /\ Quiet /\ call \in [Threads -> Calls] /\ r \in Calls /\ Fit(t, r) /\ Held \subseteq Sessions
      /\ leaked \in BOOLEAN /\ home \in BOOLEAN
  BY ThreadIsQuiet, Types DEF SInv
<1>b. \/ leaked
      \/ /\ r.op \in {"cancel", "terminate"} /\ r.pc \in {"mark", "record"} => Silenced(Pane(t))
         /\ \A s \in closed : Silenced(mem[s].pane)
         /\ Headless /\ ~home => \A s \in Held : mem[s].pane \notin agents
  BY DEF SInv, Stopping
<1>1. ASSUME UNCHANGED <<closed, home, agents, leaked>>,
             \A u \in Threads : call'[u] = call[u] \/ Hush(call'[u])
      PROVE  SInv'
  BY <1>1, <1>a, CalmKeeps
<1>2. ASSUME NEW op \in CallsOf(t), NEW s \in Sessions, Check(t, op, s) PROVE SInv'
  <2>1. PICK pc \in {"asked", "call"}, saw \in Reports \cup {"none"} : Begins(t, op, s, pc, saw)
    BY <1>2 DEF Check
  <2>2. \A u \in Threads : call'[u] = call[u] \/ call'[u].pc \in {"asked", "call"}
    BY <1>a, <2>1 DEF Begins, Calls
  <2>3. QED BY <1>1, <1>2, <2>2 DEF Check, world, Hush
<1>3. CASE Asked(t)
  <2>1. \A u \in Threads : call'[u] = call[u] \/ call'[u].pc = "call"
    BY <1>3, <1>a DEF Asked, Calls
  <2>2. QED BY <1>1, <1>3, <2>1 DEF Asked, world, Hush
<1>4. CASE Claim(t)
  <2>1. \A u \in Threads : call'[u] = call[u] \/ call'[u].pc = "stop"
    BY <1>4, <1>a DEF Claim, Goes, Calls
  <2>2. QED BY <1>1, <1>4, <2>1 DEF Claim, world, Hush
<1>5. ASSUME Stops(t), Goes(t, "mark"), home' => home, leaked' = leaked, agents' \subseteq agents,
             closed' \subseteq closed \cup {r.sess},
             leaked \/ (Pane(t) \notin agents' /\ (Headless => ~home')),
             leaked \/ (home /\ ~home' => \A s \in Held : mem[s].pane \notin agents')
      PROVE  SInv'
  <2>1. r.op \in {"cancel", "terminate"}
    BY <1>5 DEF Stops, At
  <2>2. \A u \in Threads : call'[u] = call[u] \/ (call'[u].op = r.op /\ call'[u].sess = r.sess)
    BY <1>5, <1>a DEF Goes, Calls
  <2>3. leaked' \/ (mem[r.sess].pane \notin agents' /\ (Headless => ~home'))
    BY <1>5 DEF Pane
  <2>4. \A u \in Threads : \/ call'[u] = call[u] \/ Hush(call'[u])
                           \/ /\ call'[u].op \in {"cancel", "terminate"}
                              /\ leaked' \/ (/\ mem[call'[u].sess].pane \notin agents'
                                             /\ Headless => ~home')
    BY <2>1, <2>2, <2>3
  <2>5. \/ leaked'
        \/ /\ \A p \in agents' : p \in agents \/ (Headless /\ home /\ \E s \in Held : p = mem[s].pane)
           /\ home' => home
           /\ home /\ ~home' => \A s \in Held : mem[s].pane \notin agents'
           /\ \A s \in closed' \ closed : mem[s].pane \notin agents' /\ (Headless => ~home')
    BY <1>5, <2>3
  <2> HIDE DEF r
  <2>6. QED BY <1>5, <1>a, <2>4, <2>5, CalmKeeps
<1>c. Stops(t) => r.sess \in Held
  BY <1>a DEF Stops, At, Fit
<1>6. CASE Stopped(t)
  <2>1. /\ Stops(t) /\ Goes(t, "mark") /\ UNCHANGED <<closed, home, leaked>> /\ agents' \subseteq agents
    BY <1>6 DEF Stopped
  <2>2. leaked \/ (Pane(t) \notin agents' /\ (Headless => ~home'))
    <3>1. CASE Fake
      BY <1>6, <3>1 DEF Stopped, Fake, Headless, Herdr
    <3>2. CASE ~Fake
      <4>1. r.sess \in closed /\ agents' = agents
        BY <1>6, <3>2 DEF Stopped
      <4>2. leaked \/ Silenced(Pane(t))
        BY <1>b, <4>1 DEF Pane
      <4>3. QED BY <1>c, <2>1, <4>1, <4>2 DEF Silenced, Pane
    <3>3. QED BY <3>1, <3>2
  <2> HIDE DEF r
  <2>3. QED BY <1>5, <2>1, <2>2
<1>7. CASE Stop(t)
  <2>1. /\ Stops(t) /\ Goes(t, "mark") /\ closed' = closed \cup {r.sess} /\ Kills(TRUE) /\ (Herdr => home)
        /\ ~Fake
    BY <1>7 DEF Stop
  <2>2. ~home' /\ leaked' = leaked /\ agents' \subseteq agents
        /\ (home => \A s \in Held : mem[s].pane \notin agents') /\ (~home => agents' = agents)
    BY <1>a, <2>1 DEF Kills
  <2>3. Headless \/ Herdr
    BY <2>1, RuntimeAssumption DEF SInv, IInv, TypeOK, Fake, Headless, Herdr
  <2>4. leaked \/ Pane(t) \notin agents'
    BY <1>b, <1>c, <2>1, <2>2, <2>3 DEF Pane
  <2> HIDE DEF r
  <2>5. QED BY <1>5, <2>1, <2>2, <2>4
<1>8. CASE StopFails(t)
  <2>1. \A u \in Threads : call'[u] = call[u] \/ call'[u] = Free
    BY <1>8, <1>a DEF StopFails, Return
  <2>2. \A u \in Threads : call'[u] = call[u] \/ Hush(call'[u])
    BY <2>1 DEF Hush, Free
  <2>3. Stops(t) /\ r.sess \in Held
    BY <1>8, <1>c DEF StopFails
  <2>4. CASE UNCHANGED <<world, closed>>
    BY <1>1, <2>2, <2>4 DEF world
  <2>5. ASSUME NEW k \in BOOLEAN, Kills(k), closed' \subseteq closed \cup {r.sess} PROVE SInv'
    <3>1. ~home' /\ agents' \subseteq agents /\ (leaked => leaked') /\ (home /\ ~k => leaked')
          /\ (home /\ k => \A s \in Held : mem[s].pane \notin agents') /\ (~home => agents' = agents)
      BY <1>a, <2>5 DEF Kills
    <3>2. CASE leaked'
      BY <1>a, <2>2, <3>1, <3>2, CalmKeeps
    <3>3. CASE ~leaked' /\ (Headless \/ closed' = closed)
      <4>1. \A s \in closed' \ closed : mem[s].pane \notin agents'
        BY <1>b, <2>3, <2>5, <3>1, <3>3
      <4>2. home => \A s \in Held : mem[s].pane \notin agents'
        BY <2>5, <3>1, <3>3
      <4> HIDE DEF r
      <4>3. QED BY <1>a, <2>2, <3>1, <3>3, <4>1, <4>2, CalmKeeps
    <3>4. Headless \/ closed' = closed
      BY <1>8, <2>5, <3>1 DEF StopFails, ClosesAnyway
    <3>5. QED BY <3>2, <3>3, <3>4
  <2>6. QED BY <1>8, <2>4, <2>5 DEF StopFails, ClosesAnyway
<1>9. CASE Mark(t)
  <2>1. r.op \in {"cancel", "terminate"} /\ r.pc = "mark" /\ UNCHANGED <<closed, home, agents, leaked>>
    BY <1>9 DEF SInv, Marking, Mark, world
  <2>2. r.sess \in Held
    BY <1>a, <2>1 DEF Fit
  <2>3. leaked \/ (mem[r.sess].pane \notin agents /\ (Headless => ~home))
    BY <1>b, <2>1, <2>2 DEF Silenced, Pane
  <2>4. \A u \in Threads : call'[u] = call[u] \/ (call'[u].op = r.op /\ call'[u].sess = r.sess)
    BY <1>9, <1>a DEF Mark, Answers, Calls
  <2>5. \A u \in Threads : \/ call'[u] = call[u] \/ Hush(call'[u])
                           \/ /\ call'[u].op \in {"cancel", "terminate"}
                              /\ leaked' \/ (/\ mem[call'[u].sess].pane \notin agents'
                                             /\ Headless => ~home')
    BY <2>1, <2>3, <2>4
  <2> HIDE DEF r
  <2>6. QED BY <1>a, <2>1, <2>5, CalmKeeps
<1>10. QED BY <1>2, <1>3, <1>4, <1>6, <1>7, <1>8, <1>9

LEMMA MainStops ==
  ASSUME SInv,
         \/ StartAsks \/ StartTold \/ Send \/ TurnAnswers \/ TurnFails \/ Write
         \/ StreamReads \/ StreamWrites \/ Reconnect \/ Reconnected
  PROVE  SInv'
<1> DEFINE r == call[Main]
<1>a. /\ Quiet /\ call \in [Threads -> Calls] /\ r \in Calls /\ Fit(Main, r) /\ Main \in Threads
      /\ leaked \in BOOLEAN /\ home \in BOOLEAN
  BY StartIsQuiet, ToldIsQuiet, SendIsQuiet, WriteIsQuiet, Types DEF SInv
<1>b. r.op \in {"send", "stream", "reconnect"} \/ StartAsks \/ StartTold
  BY DEF Send, FakeSend, HeadlessSend, HerdrSend, TurnAnswers, TurnFails, Write, HeadlessWrite, HerdrWrite,
         HerdrLastWrite, StreamReads, StreamWrites, Reconnect, Reconnected, At
<1>1. \A u \in Threads : call'[u] = call[u] \/ Hush(call'[u])
  <2>1. ASSUME r.op \in {"send", "stream", "reconnect"},
               \/ Answers(Main) \/ Return(Main)
               \/ \E pc \in {"turn", "last"} : Goes(Main, pc)
               \/ \E pc \in {"write", "read"}, out \in Statuses \cup {"none", "failed", "raise"} : Ends(pc, out)
               \/ call' = [call EXCEPT ![Main].pc = "turn", ![Main].saw = Status(Main)]
        PROVE  \A u \in Threads : call'[u] = call[u] \/ Hush(call'[u])
    <3>1. CASE Answers(Main)
      <4>1. \A u \in Threads : call'[u] = call[u] \/ (call'[u].pc = "record" /\ call'[u].op = r.op)
        BY <1>a, <3>1 DEF Answers, Calls
      <4>2. QED BY <2>1, <4>1 DEF Hush
    <3>2. CASE Return(Main)
      <4>1. \A u \in Threads : call'[u] = call[u] \/ call'[u] = Free
        BY <1>a, <3>2 DEF Return
      <4>2. QED BY <4>1 DEF Hush, Free
    <3>3. ASSUME NEW pc \in {"turn", "last"}, Goes(Main, pc)
          PROVE  \A u \in Threads : call'[u] = call[u] \/ Hush(call'[u])
      <4>1. \A u \in Threads : call'[u] = call[u] \/ call'[u].pc = pc
        BY <1>a, <3>3 DEF Goes, Calls
      <4>2. QED BY <4>1 DEF Hush
    <3>4. ASSUME NEW pc \in {"write", "read"}, NEW out \in Statuses \cup {"none", "failed", "raise"}, Ends(pc, out)
          PROVE  \A u \in Threads : call'[u] = call[u] \/ Hush(call'[u])
      <4>1. \A u \in Threads : call'[u] = call[u] \/ call'[u].pc = pc
        BY <1>a, <3>4 DEF Ends, Calls
      <4>2. QED BY <4>1 DEF Hush
    <3>5. CASE call' = [call EXCEPT ![Main].pc = "turn", ![Main].saw = Status(Main)]
      <4>1. \A u \in Threads : call'[u] = call[u] \/ call'[u].pc = "turn"
        BY <1>a, <3>5 DEF Calls
      <4>2. QED BY <4>1 DEF Hush
    <3>6. QED BY <2>1, <3>1, <3>2, <3>3, <3>4, <3>5
  <2>2. CASE StartAsks \/ StartTold
    <3>1. \A u \in Threads : call'[u] = call[u] \/ call'[u].pc \in {"launch", "told"}
      <4>1. CASE StartTold
        BY <1>a, <4>1 DEF StartTold, Calls
      <4>2. CASE StartAsks
        <5> DEFINE lost == ctl.unconfirmed /\ ctl.bound # 0 /\ ctl.bound \notin Held
                   Y(saw) == [Free EXCEPT !.op = "start", !.pc = "told", !.sess = ctl.bound, !.saw = saw]
        <5>1. \/ call' = [call EXCEPT ![Main].op = "start", ![Main].pc = "launch", ![Main].lost = lost]
              \/ \E saw \in Reports : call' = [call EXCEPT ![Main] = Y(saw)]
          BY <4>2 DEF StartAsks
        <5>2. \A saw : Y(saw).pc = "told"
          BY DEF Free
        <5> HIDE DEF lost, Y
        <5>3. QED BY <1>a, <5>1, <5>2 DEF Calls
      <4>3. QED BY <2>2, <4>1, <4>2
    <3>2. QED BY <3>1 DEF Hush
  <2>3. CASE Send /\ ~(StartAsks \/ StartTold)
    BY <1>b, <2>1, <2>3 DEF Send, FakeSend, HeadlessSend, HerdrSend
  <2>4. CASE TurnAnswers /\ ~(StartAsks \/ StartTold)
    <3>1. Outcomes \subseteq Statuses \cup {"none", "failed", "raise"}
      BY DEF Outcomes, Reports, Statuses
    <3>2. QED BY <1>b, <2>1, <2>4, <3>1 DEF TurnAnswers
  <2>5. CASE TurnFails /\ ~(StartAsks \/ StartTold)
    BY <1>b, <2>1, <2>5 DEF TurnFails
  <2>6. CASE Write /\ ~(StartAsks \/ StartTold)
    BY <1>b, <2>1, <2>6 DEF Write, HeadlessWrite, HerdrWrite, HerdrLastWrite
  <2>7. CASE StreamReads /\ ~(StartAsks \/ StartTold)
    <3>1. Status(Main) \in Statuses \cup {"none", "failed", "raise"}
      <4>1. r.sess \in Sessions /\ mem \in Memory
        BY <1>a, <2>7, Types DEF StreamReads, At, Fit, SInv
      <4>2. QED BY <4>1 DEF Status, Memory
    <3>2. QED BY <1>b, <2>1, <2>7, <3>1 DEF StreamReads
  <2>8. CASE StreamWrites /\ ~(StartAsks \/ StartTold)
    BY <1>b, <2>1, <2>8 DEF StreamWrites
  <2>9. CASE Reconnect /\ ~(StartAsks \/ StartTold)
    <3>1. Reports \subseteq Statuses \cup {"none", "failed", "raise"}
      BY DEF Reports, Statuses
    <3>2. QED BY <1>b, <2>1, <2>9, <3>1 DEF Reconnect
  <2>10. CASE Reconnected /\ ~(StartAsks \/ StartTold)
    BY <1>b, <2>1, <2>10 DEF Reconnected
  <2>11. QED BY <2>2, <2>3, <2>4, <2>5, <2>6, <2>7, <2>8, <2>9, <2>10
<1> HIDE DEF r
<1>2. CASE UNCHANGED <<closed, home, agents, leaked>>
  BY <1>a, <1>1, <1>2, CalmKeeps
<1>3. CASE Send
  <2>1. UNCHANGED <<closed, home, leaked>>
    BY <1>3 DEF Send
  <2>2. \A p \in agents' : p \in agents \/ (Headless /\ home /\ \E s \in Held : p = mem[s].pane)
    <3>1. CASE FakeSend \/ HerdrSend
      BY <3>1 DEF FakeSend, HerdrSend
    <3>2. CASE HeadlessSend
      <4>1. r.sess \in Held /\ Pane(Main) = mem[r.sess].pane
        BY <1>a, <3>2 DEF HeadlessSend, At, Fit, Pane, r
      <4>2. Headless /\ \A p \in agents' : p \in agents \/ (home /\ p = Pane(Main))
        BY <3>2 DEF HeadlessSend
      <4>3. QED BY <4>1, <4>2
    <3>3. QED BY <1>3, <3>1, <3>2 DEF Send
  <2>3. QED BY <1>a, <1>1, <2>1, <2>2, CalmKeeps
<1>4. CASE TurnAnswers
  <2>1. UNCHANGED <<closed, home, leaked>> /\ agents' \subseteq agents
    BY <1>4 DEF TurnAnswers
  <2>2. QED BY <1>a, <1>1, <2>1, CalmKeeps
<1>5. CASE TurnFails
  <2>1. CASE UNCHANGED world
    BY <1>2, <1>5, <2>1 DEF TurnFails, world
  <2>2. ASSUME NEW k \in BOOLEAN, Kills(k) PROVE SInv'
    <3>1. closed' = closed /\ ~home' /\ agents' \subseteq agents /\ (leaked => leaked') /\ (home /\ ~k => leaked')
          /\ (home /\ k => \A s \in Held : mem[s].pane \notin agents')
      BY <1>5, <1>a, <2>2 DEF TurnFails, Kills
    <3>2. QED BY <1>a, <1>1, <2>2, <3>1, CalmKeeps
  <2>3. QED BY <1>5, <2>1, <2>2 DEF TurnFails
<1>6. CASE StartAsks \/ StartTold \/ Write \/ StreamReads \/ StreamWrites \/ Reconnect \/ Reconnected
  BY <1>2, <1>6 DEF StartAsks, StartTold, Write, StreamReads, StreamWrites, Reconnect, Reconnected, world
<1>7. QED BY <1>3, <1>4, <1>5, <1>6

\* A step that leaves the agents and the runtime alone, and may record what is true.
LEMMA WordIsTrue ==
  ASSUME SInv, IInv', UNCHANGED <<runtime, mem, closed, home, agents, leaked>>,
         \A u \in Threads : call'[u] = call[u] \/ Hush(call'[u]),
         \A e \in Written' \ Written : e.kind \in Ended => leaked \/ Silenced(e.pane)
  PROVE  SInv'
<1>1. Marking'
  BY DEF SInv, Marking, Hush
<1>2. Held' = Held /\ \A p : Silenced(p)' <=> Silenced(p)
  BY DEF Held, Silenced, Headless
<1>3. Stopping'
  <2>1. CASE leaked'
    BY <2>1 DEF Stopping
  <2>2. CASE ~leaked
    <3>0. /\ \A e \in Written : e.kind \in Ended => Silenced(e.pane)
          /\ \A t \in Threads : call[t].op \in {"cancel", "terminate"} /\ call[t].pc \in {"mark", "record"} =>
                                  Silenced(Pane(t))
          /\ \A s \in closed : Silenced(mem[s].pane)
          /\ Headless /\ ~home => \A s \in Held : mem[s].pane \notin agents
      BY <2>2 DEF SInv, Stopping
    <3>1. \A e \in Written' : e.kind \in Ended => Silenced(e.pane)'
      BY <1>2, <2>2, <3>0
    <3>2. ASSUME NEW t \in Threads, call'[t].op \in {"cancel", "terminate"}, call'[t].pc \in {"mark", "record"}
          PROVE  Silenced(Pane(t))'
      <4>1. call'[t] = call[t]
        BY <3>2 DEF Hush
      <4>2. Pane(t)' = Pane(t) /\ Silenced(Pane(t))
        BY <3>0, <3>2, <4>1 DEF Pane
      <4>3. QED BY <1>2, <4>2 DEF Silenced, Headless
    <3>3. ASSUME NEW s \in closed' PROVE Silenced(mem[s].pane)'
      BY <1>2, <3>0 DEF Silenced, Headless
    <3>4. Headless' /\ ~home' => \A s \in Held' : mem'[s].pane \notin agents'
      BY <1>2, <3>0 DEF Headless
    <3>5. QED BY <3>1, <3>2, <3>3, <3>4 DEF Stopping
  <2>3. QED BY <2>1, <2>2
<1>4. QED BY <1>1, <1>3 DEF SInv

\* A runtime that had no session gets one, in a pane that no ended event is about
\* unless no headless turn can start an agent there.
LEMMA HoldingStops ==
  ASSUME SInv, IInv', Held = {}, UNCHANGED <<rows, pending, runtime, closed, leaked>>,
         \A u \in Threads : call'[u] = call[u] \/ Hush(call'[u]),
         \A e \in Written : e.pane \notin agents' \ agents,
         Headless => home' /\ \A e \in Written, s \in Held' : mem'[s].pane # e.pane
  PROVE  SInv'
<1>1. Written' = Written /\ closed' = {} /\ Main \in Threads
  BY Alone DEF SInv, Written, Threads
<1>2. \A u \in Threads : call[u].pc \in {"idle", "launch"}
  BY Alone DEF SInv
<1>3. \A u \in Threads : Hush(call'[u])
  BY <1>2 DEF Hush
<1>4. Marking'
  BY <1>3 DEF Marking, Hush
<1>5. Stopping'
  <2>1. CASE leaked
    BY <2>1 DEF Stopping
  <2>2. CASE ~leaked
    <3>1. ASSUME NEW e \in Written, e.kind \in Ended PROVE Silenced(e.pane)'
      <4>1. e.pane \notin agents
        BY <2>2, <3>1 DEF SInv, Stopping, Silenced
      <4>2. e.pane \notin agents'
        BY <4>1
      <4>3. QED BY <4>2 DEF Silenced, Headless
    <3>2. \A t \in Threads : ~(call'[t].op \in {"cancel", "terminate"} /\ call'[t].pc \in {"mark", "record"})
      BY <1>3 DEF Hush
    <3>3. ~(Headless' /\ ~home')
      BY DEF Headless
    <3>4. QED BY <1>1, <3>1, <3>2, <3>3 DEF Stopping
  <2>3. QED BY <2>1, <2>2
<1>6. QED BY <1>4, <1>5 DEF SInv

LEMMA OtherStops ==
  ASSUME SInv, Launch \/ Restore \/ Recover \/ Commit \/ Crash \/ Bind \/ \E t \in Threads : Observe(t)
  PROVE  SInv'
<1>a. /\ IInv /\ call \in [Threads -> Calls] /\ Main \in Threads /\ mem \in Memory /\ panes.n \in Nat
      /\ \A t \in Threads : Fit(t, call[t])
  BY Types DEF SInv, IInv, TypeOK
<1>b. \A e \in Written : e.pane \in 1 .. panes.n
  BY DEF SInv, IInv, TypeOK, Written, Events
<1>c. Hush(Free)
  BY DEF Hush, Free
<1>1. CASE Launch
  <2>1. IInv' /\ UNCHANGED <<rows, pending, runtime, closed>> /\ call[Main].pc = "launch"
    BY <1>1, <1>a, LaunchKeeps DEF Launch, durable
  <2>2. \A u \in Threads : call'[u] = call[u] \/ Hush(call'[u])
    <3>1. \A u \in Threads : call'[u] = call[u] \/ call'[u] = Free \/ call'[u].pc = "bind"
      BY <1>1, <1>a DEF Launch, Returns, Return, Calls
    <3>2. QED BY <1>c, <3>1 DEF Hush
  <2>3. CASE UNCHANGED <<mem, world, panes>>
    BY <2>1, <2>2, <2>3, WordIsTrue DEF world, Written
  <2>4. ASSUME Held = {}, NEW s \in NewSession,
               mem' = [mem EXCEPT ![s] = [status |-> Launched, pane |-> panes.n + 1]],
               agents' = IF Headless THEN agents ELSE agents \cup {panes.n + 1}, home' = TRUE, UNCHANGED leaked
        PROVE  SInv'
    <3>1. \A e \in Written : e.pane # panes.n + 1
      BY <1>a, <1>b
    <3>2. \A e \in Written : e.pane \notin agents' \ agents
      BY <2>4, <3>1
    <3>3. \A u \in Held' : mem'[u].pane = panes.n + 1
      BY <1>a, <2>4 DEF Held, Memory
    <3>4. QED BY <2>1, <2>2, <2>4, <3>1, <3>2, <3>3, HoldingStops
  <2>5. QED BY <1>1, <2>3, <2>4 DEF Launch
<1>2. CASE Restore
  <2>1. /\ IInv' /\ Held = {} /\ UNCHANGED <<rows, pending, runtime, closed, agents, leaked, call>> /\ Herdr
    BY <1>2, <1>a, RestoreKeeps DEF Restore, durable, fixed
  <2>2. ~Headless
    BY <2>1 DEF Headless, Herdr
  <2>3. QED BY <2>1, <2>2, HoldingStops
<1>3. CASE Recover
  <2>1. /\ IInv' /\ UNCHANGED <<rows, pending, runtime, mem, closed, home, agents, leaked, call>>
    BY <1>3, <1>a, RecoverKeeps DEF Recover, durable, world, fixed
  <2>2. QED BY <2>1, WordIsTrue DEF Written
<1>4. CASE Commit
  <2>1. /\ IInv' /\ UNCHANGED <<runtime, mem, closed, home, agents, leaked, call>> /\ rows' = Written /\ pending' = {}
    BY <1>4, <1>a, CommitKeeps DEF Commit, world, fixed
  <2>2. Written' = Written
    BY <2>1 DEF Written
  <2>3. QED BY <2>1, <2>2, WordIsTrue
<1>5. CASE Crash
  <2>1. /\ IInv' /\ Held' = {} /\ closed' = {} /\ UNCHANGED <<rows, leaked, runtime>> /\ pending' = {}
        /\ agents' \subseteq agents /\ call' = [t \in Threads |-> Free]
    BY <1>5, <1>a, CrashKeeps DEF Crash
  <2>2. Written' \subseteq Written /\ \A u \in Threads : Hush(call'[u])
    BY <1>c, <2>1 DEF Written
  <2>3. Marking'
    BY <2>2 DEF Marking, Hush
  <2>4. Stopping'
    <3>1. CASE leaked
      BY <2>1, <3>1 DEF Stopping
    <3>2. CASE ~leaked
      <4>1. \A e \in Written' : e.kind \in Ended => Silenced(e.pane)'
        BY <2>1, <2>2, <3>2 DEF SInv, Stopping, Silenced
      <4>2. \A t \in Threads : ~(call'[t].op \in {"cancel", "terminate"} /\ call'[t].pc \in {"mark", "record"})
        BY <2>2 DEF Hush
      <4>3. QED BY <2>1, <4>1, <4>2 DEF Stopping
    <3>3. QED BY <3>1, <3>2
  <2>5. QED BY <2>1, <2>3, <2>4 DEF SInv
<1>6. CASE Bind
  <2>1. /\ IInv' /\ (UNCHANGED <<pending, Written>> \/ Speaks(call[Main].sess, "started"))
        /\ UNCHANGED <<runtime, mem, closed, home, agents, leaked>>
    BY <1>6, <1>a, BindKeeps DEF Bind, world, fixed
  <2>2. \A u \in Threads : call'[u] = call[u] \/ Hush(call'[u])
    BY <1>6, <1>a, <1>c DEF Bind, Return
  <2>3. \A e \in Written' \ Written : e.kind \notin Ended
    BY <2>1 DEF Speaks, Ended
  <2>4. QED BY <2>1, <2>2, <2>3, WordIsTrue
<1>7. ASSUME NEW t \in Threads, Observe(t) PROVE SInv'
  <2>1. /\ IInv' /\ Speaks(call[t].sess, KindOf(call[t].op))
        /\ UNCHANGED <<runtime, mem, closed, home, agents, leaked>> /\ call[t].pc = "record"
    BY <1>7, <1>a, ObserveKeeps DEF Observe, world, fixed
  <2>2. \A u \in Threads : call'[u] = call[u] \/ Hush(call'[u])
    BY <1>7, <1>a, <1>c DEF Observe, Return
  <2>3. call[t].op \in {"cancel", "terminate"} \/ KindOf(call[t].op) = "observed"
    BY Zenon DEF KindOf
  <2>4. \A e \in Written' \ Written : e.kind = KindOf(call[t].op) /\ e.pane = Pane(t)
    BY <2>1 DEF Speaks, Pane
  <2>5. call[t].op \in {"cancel", "terminate"} => leaked \/ Silenced(Pane(t))
    BY <2>1 DEF SInv, Stopping
  <2>6. \A e \in Written' \ Written : e.kind \in Ended => leaked \/ Silenced(e.pane)
    BY <2>3, <2>4, <2>5 DEF Ended
  <2>7. QED BY <2>1, <2>2, <2>6, WordIsTrue
<1>8. QED BY <1>1, <1>2, <1>3, <1>4, <1>5, <1>6, <1>7

\* A recorded cancellation or termination is the word of a stopped agent, and no
\* later turn, start or restart brings the process of that binding back, unless a
\* provider failed to kill a sandbox (cancel, terminate, _close_environment).
THEOREM EndedIsStopped == Spec => []EndedMeansStopped
<1>1. Init => SInv
  <2>1. SUFFICES ASSUME Init PROVE SInv
    OBVIOUS
  <2>2. Written = {} /\ closed = {} /\ agents = {} /\ \A t \in Threads : call[t] = Free
    BY <2>1 DEF Init, Written
  <2>3. QED BY <2>1, <2>2, InitIsGood DEF SInv, Marking, Stopping, Free
<1>2. SInv /\ [Next]_vars => SInv'
  <2>1. SUFFICES ASSUME SInv, [Next]_vars PROVE SInv'
    OBVIOUS
  <2>2. CASE UNCHANGED vars
    <3>1. Quiet /\ UNCHANGED <<closed, home, agents, leaked, call>>
      BY <2>1, <2>2, StutterIsQuiet DEF SInv, vars
    <3>2. QED BY <2>1, <3>1, CalmKeeps
  <2>3. CASE Next
    BY <2>1, <2>3, ThreadStops, MainStops, OtherStops DEF Next, MainThread, Thread
  <2>4. QED BY <2>1, <2>2, <2>3
<1>3. SInv => EndedMeansStopped
  BY DEF SInv, Stopping, Silenced, EndedMeansStopped
<1>4. QED BY <1>1, <1>2, <1>3, PTL DEF Spec
=============================================================================
