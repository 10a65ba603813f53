-------------------------- MODULE ToolDeliveryProofs --------------------------
(***************************************************************************)
(* Proofs about ToolDelivery, for every number of deliveries and actions.  *)
(*                                                                         *)
(* Nothing in the code locks the event stream of an Attempt, yet it is one *)
(* delivery's at a time: the committed rows fill 1..n, an open transaction *)
(* fills n+1..m, and whoever wants to insert next has read the end of what *)
(* it sees, so its number is taken and it waits (Filled, WantInv).  All    *)
(* the other results rest on that.                                         *)
(***************************************************************************)
EXTENDS ToolDelivery, FiniteSetTheorems, TLAPS

\* The rows of S have exactly the numbers from a to b.
Fills(S, a, b) == \A k \in Nat : (\E r \in S : r.seq = k) <=> (a <= k /\ k <= b)

\* The committed rows fill 1..n, and the rows of an open transaction go on.
Filled(n) ==
  /\ Fills(stream, 1, n)
  /\ \A d \in Deliveries : open[d] = {} \/ \E m \in Nat : m > n /\ Fills(open[d], n + 1, m)
FillInv == \E n \in Nat : Filled(n)

\* A number that was read follows a row that is still seen; when the delivery
\* holds rows itself, nobody else can have taken the number since.
WantInv ==
  \A d \in Deliveries : want[d] # 0 =>
    /\ pc[d] \in Emitting
    /\ want[d] = 1 \/ \E r \in Visible(d) : r.seq = want[d] - 1
    /\ open[d] # {} => \A r \in Visible(d) : r.seq # want[d]

\* Past its decision a delivery holds its own event of it.
Decided == {"executed?", "failed?", "claim", "run", "outcome", "commit"}
HoldInv ==
  \A d \in Deliveries :
    /\ pc[d] \in Decided => open[d] # {}
    /\ pc[d] \notin Busy => open[d] = {}
    /\ \A r \in open[d] : r.event.kind # "requested" => r.event.by = d /\ pc[d] \in Decided
    /\ \A r \in stream : r.event.kind # "requested" /\ r.event.by = d => pc[d] = "answered"

\* The claim of an action is held by the delivery that runs it and by no other,
\* and is committed with the run.
ClaimInv ==
  \A d \in Deliveries :
    /\ mine[d] # {} => pc[d] \in {"run", "outcome", "commit"}
    /\ pc[d] \in {"run", "outcome"} \/ (d \in ran /\ pc[d] = "commit") =>
         /\ [act |-> ActionOf[d], mark |-> "claimed"] \in mine[d]
         /\ [act |-> ActionOf[d], mark |-> "claimed"] \notin audit
    /\ d \in ran => pc[d] \in {"outcome", "commit", "answered", "lost"}
    /\ d \in ran /\ pc[d] = "answered" => [act |-> ActionOf[d], mark |-> "claimed"] \in audit

IInv == TypeOK /\ FillInv /\ StreamIsSerial /\ WantInv /\ HoldInv /\ ClaimInv
          /\ OneStandingRun /\ ConflictRanNothing

USE DeliveryAssumption

-----------------------------------------------------------------------------
(* The operators the events are made of *)

\* The event of a delivery's place is well typed.
LEMMA EventTyped ==
  ASSUME TypeOK, NEW d \in Deliveries, pc[d] \in Emitting
  PROVE  Event(d) \in EventType
<1>1. ActionOf[d] \in Actions /\ PrincipalOf[d] \in Principals OBVIOUS
<1>2. effect[d] \in Effects /\ result[d] \in Results BY DEF TypeOK
<1>3. CASE pc[d] = "requested" BY <1>1, <1>3 DEF Event, EventType, Emitting
<1>4. CASE pc[d] = "decided" BY <1>1, <1>2, <1>4 DEF Event, EventType, Emitting
<1>5. CASE pc[d] = "outcome" BY <1>1, <1>2, <1>5 DEF Event, EventType, Emitting
<1> QED BY <1>3, <1>4, <1>5 DEF Emitting

\* After an event a delivery is at a place of its own.
LEMMA AfterTyped ==
  ASSUME NEW d \in Deliveries, pc[d] \in Emitting
  PROVE  /\ pc[d] = "requested" => After(d) = "decide"
         /\ pc[d] = "decided" => After(d) = IF effect[d] = "allow" THEN "executed?" ELSE "commit"
         /\ pc[d] = "outcome" => After(d) = "commit"
BY DEF After, Emitting

\* _emit finds the highest number that a delivery sees.
LEMMA LastIs ==
  ASSUME TypeOK, FillInv, NEW d \in Deliveries
  PROVE  /\ Last(d) \in Nat
         /\ Last(d) = 0 \/ \E r \in Visible(d) : r.seq = Last(d)
         /\ \A r \in Visible(d) : r.seq <= Last(d)
<1>1. PICK n \in Nat : Filled(n) BY DEF FillInv
<1>2. \A r \in Visible(d) : r.seq \in Nat BY DEF TypeOK, Visible, RowType
<1>3. \E k \in {0} \cup {r.seq : r \in Visible(d)} : \A r \in Visible(d) : r.seq <= k
  <2>1. CASE open[d] = {}
    <3>1. Visible(d) = stream BY <2>1 DEF Visible
    <3>2. \A r \in stream : r.seq <= n BY <1>1, <1>2, <3>1 DEF Filled, Fills
    <3>3. n = 0 \/ \E r \in stream : r.seq = n BY <1>1 DEF Filled, Fills
    <3> QED BY <3>1, <3>2, <3>3
  <2>2. CASE open[d] # {}
    <3>1. PICK m \in Nat : m > n /\ Fills(open[d], n + 1, m) BY <1>1, <2>2 DEF Filled
    <3>2. \A r \in stream : r.seq <= n BY <1>1, <1>2 DEF Filled, Fills, Visible
    <3>3. \A r \in open[d] : r.seq <= m BY <1>2, <3>1 DEF Fills, Visible
    <3>4. \E r \in open[d] : r.seq = m BY <3>1 DEF Fills
    <3>5. \A r \in stream : r.seq <= m BY <1>2, <3>1, <3>2 DEF Visible
    <3> QED BY <3>3, <3>4, <3>5 DEF Visible
  <2> QED BY <2>1, <2>2
<1>4. Last(d) \in {0} \cup {r.seq : r \in Visible(d)} /\ \A r \in Visible(d) : r.seq <= Last(d)
  BY <1>3 DEF Last
<1> QED BY <1>2, <1>4

-----------------------------------------------------------------------------
(* The inductive invariant *)

\* It holds of an empty stream.
LEMMA InitInv == Init => IInv
<1> SUFFICES ASSUME Init PROVE IInv OBVIOUS
<1>1. TypeOK BY DEF Init, TypeOK, Effects, Results
<1>2. FillInv
  <2>1. Filled(0) BY DEF Init, Filled, Fills
  <2> QED BY <2>1 DEF FillInv
<1>3. StreamIsSerial /\ WantInv BY DEF Init, StreamIsSerial, WantInv
<1>4. HoldInv BY DEF Init, HoldInv, Decided, Busy, Emitting
<1>5. ClaimInv /\ OneStandingRun /\ ConflictRanNothing
  BY DEF Init, ClaimInv, OneStandingRun, ConflictRanNothing
<1> QED BY <1>1, <1>2, <1>3, <1>4, <1>5 DEF IInv

\* A step that leaves the rows of the stream alone keeps them filled and serial.
LEMMA RowsKept ==
  ASSUME IInv, UNCHANGED <<stream, open>>
  PROVE  FillInv' /\ StreamIsSerial'
<1>1. PICK n \in Nat : Filled(n) BY DEF IInv, FillInv
<1>2. Filled(n)' BY <1>1 DEF Filled, Fills
<1> QED BY <1>2 DEF FillInv, StreamIsSerial, IInv

\* The Attempt is loaded: no row is touched.
LEMMA ArriveKeeps == ASSUME IInv, NEW d \in Deliveries, Arrive(d) PROVE IInv'
<1>1. TypeOK' BY DEF IInv, Arrive, TypeOK, Busy, Emitting, Effects, Results, Marks, MarkType
<1>2. FillInv' /\ StreamIsSerial' BY RowsKept DEF Arrive
<1>3. WantInv' BY DEF IInv, Arrive, WantInv, Visible, TypeOK, Emitting
<1>4. HoldInv' BY DEF IInv, Arrive, HoldInv, TypeOK, Busy, Emitting, Decided
<1>5. ClaimInv' BY DEF IInv, Arrive, ClaimInv, TypeOK
<1>6. OneStandingRun' BY DEF IInv, Arrive, OneStandingRun, ClaimInv, TypeOK
<1>7. ConflictRanNothing' BY DEF IInv, Arrive, ConflictRanNothing, TypeOK
<1> QED BY <1>1, <1>2, <1>3, <1>4, <1>5, <1>6, <1>7 DEF IInv

\* The decision is taken: no row is touched.
LEMMA DecideKeeps == ASSUME IInv, NEW d \in Deliveries, Decide(d) PROVE IInv'
<1>1. TypeOK' BY DEF IInv, Decide, TypeOK, Busy, Emitting, Effects, Results, Marks, MarkType
<1>2. FillInv' /\ StreamIsSerial' BY RowsKept DEF Decide
<1>3. WantInv' BY DEF IInv, Decide, WantInv, Visible, TypeOK, Emitting
<1>4. HoldInv' BY DEF IInv, Decide, HoldInv, TypeOK, Busy, Emitting, Decided
<1>5. ClaimInv' BY DEF IInv, Decide, ClaimInv, TypeOK
<1>6. OneStandingRun' BY DEF IInv, Decide, OneStandingRun, ClaimInv, TypeOK
<1>7. ConflictRanNothing' BY DEF IInv, Decide, ConflictRanNothing, TypeOK
<1> QED BY <1>1, <1>2, <1>3, <1>4, <1>5, <1>6, <1>7 DEF IInv

\* The fence is asked for an executed row.
LEMMA LookupExecutedKeeps == ASSUME IInv, NEW d \in Deliveries, LookupExecuted(d) PROVE IInv'
<1>1. TypeOK' BY DEF IInv, LookupExecuted, TypeOK, Busy, Emitting, Effects, Results, Marks, MarkType
<1>2. FillInv' /\ StreamIsSerial' BY RowsKept DEF LookupExecuted
<1>3. WantInv' BY DEF IInv, LookupExecuted, WantInv, Visible, TypeOK, Emitting
<1>4. HoldInv' BY DEF IInv, LookupExecuted, HoldInv, TypeOK, Busy, Emitting, Decided
<1>5. ClaimInv' BY DEF IInv, LookupExecuted, ClaimInv, TypeOK
<1>6. OneStandingRun' BY DEF IInv, LookupExecuted, OneStandingRun, ClaimInv, TypeOK
<1>7. ConflictRanNothing' BY DEF IInv, LookupExecuted, ConflictRanNothing, TypeOK
<1> QED BY <1>1, <1>2, <1>3, <1>4, <1>5, <1>6, <1>7 DEF IInv

\* The fence is asked for a failed row.
LEMMA LookupFailedKeeps == ASSUME IInv, NEW d \in Deliveries, LookupFailed(d) PROVE IInv'
<1>1. TypeOK' BY DEF IInv, LookupFailed, TypeOK, Busy, Emitting, Effects, Results, Marks, MarkType
<1>2. FillInv' /\ StreamIsSerial' BY RowsKept DEF LookupFailed
<1>3. WantInv' BY DEF IInv, LookupFailed, WantInv, Visible, TypeOK, Emitting
<1>4. HoldInv' BY DEF IInv, LookupFailed, HoldInv, TypeOK, Busy, Emitting, Decided
<1>5. ClaimInv' BY DEF IInv, LookupFailed, ClaimInv, TypeOK
<1>6. OneStandingRun' BY DEF IInv, LookupFailed, OneStandingRun, ClaimInv, TypeOK
<1>7. ConflictRanNothing' BY DEF IInv, LookupFailed, ConflictRanNothing, TypeOK
<1> QED BY <1>1, <1>2, <1>3, <1>4, <1>5, <1>6, <1>7 DEF IInv

\* A number is read: it follows the last row the delivery sees.
LEMMA EmitReadKeeps == ASSUME IInv, NEW d \in Deliveries, EmitRead(d) PROVE IInv'
<1> USE DEF EmitRead
<1>1. CASE Duplicate(d)
  <2>1. pc' = [pc EXCEPT ![d] = After(d)] /\ UNCHANGED <<active, cached, effect, result, want, stream, open, audit, mine, ran>>
    BY <1>1
  <2>2. \/ pc[d] = "requested" /\ After(d) = "decide"
        \/ pc[d] = "outcome" /\ After(d) = "commit"
    BY <1>1, AfterTyped DEF Duplicate, Emitting
  <2>3. TypeOK' BY <2>1, <2>2 DEF IInv, TypeOK, Busy, Emitting
  <2>4. FillInv' /\ StreamIsSerial' BY RowsKept, <2>1
  <2>5. WantInv' BY <2>1, <2>2 DEF IInv, WantInv, Visible, TypeOK, Emitting
  <2>6. HoldInv' BY <2>1, <2>2 DEF IInv, HoldInv, TypeOK, Busy, Emitting, Decided
  <2>7. ClaimInv' BY <2>1, <2>2 DEF IInv, ClaimInv, TypeOK
  <2>8. OneStandingRun' /\ ConflictRanNothing'
    BY <2>1, <2>2 DEF IInv, OneStandingRun, ConflictRanNothing, ClaimInv, TypeOK
  <2> QED BY <2>3, <2>4, <2>5, <2>6, <2>7, <2>8 DEF IInv
<1>2. CASE ~Duplicate(d)
  <2>1. want' = [want EXCEPT ![d] = Last(d) + 1] /\ UNCHANGED <<active, pc, cached, effect, result, stream, open, audit, mine, ran>>
    BY <1>2
  <2>2. /\ Last(d) \in Nat
        /\ Last(d) = 0 \/ \E r \in Visible(d) : r.seq = Last(d)
        /\ \A r \in Visible(d) : r.seq <= Last(d)
    BY LastIs DEF IInv
  <2>3. \A r \in Visible(d) : r.seq \in Nat BY DEF IInv, TypeOK, Visible, RowType
  <2>4. TypeOK' BY <2>1, <2>2 DEF IInv, TypeOK
  <2>5. FillInv' /\ StreamIsSerial' BY RowsKept, <2>1
  <2>6. WantInv'
    <3> SUFFICES ASSUME NEW e \in Deliveries, want'[e] # 0
                 PROVE  /\ pc[e] \in Emitting
                        /\ want'[e] = 1 \/ \E r \in Visible(e) : r.seq = want'[e] - 1
                        /\ open[e] # {} => \A r \in Visible(e) : r.seq # want'[e]
      BY <2>1 DEF WantInv, Visible
    <3>1. CASE e = d
      <4>1. want'[d] = Last(d) + 1 BY <2>1 DEF IInv, TypeOK
      <4>2. want'[d] = 1 \/ \E r \in Visible(d) : r.seq = want'[d] - 1 BY <4>1, <2>2
      <4>3. \A r \in Visible(d) : r.seq # want'[d] BY <4>1, <2>2, <2>3
      <4> QED BY <3>1, <4>2, <4>3
    <3>2. CASE e # d
      <4>1. want'[e] = want[e] BY <3>2, <2>1 DEF IInv, TypeOK
      <4> QED BY <4>1 DEF IInv, WantInv
    <3> QED BY <3>1, <3>2
  <2>7. HoldInv' /\ ClaimInv' BY <2>1 DEF IInv, HoldInv, ClaimInv
  <2>8. OneStandingRun' /\ ConflictRanNothing' BY <2>1 DEF IInv, OneStandingRun, ConflictRanNothing
  <2> QED BY <2>4, <2>5, <2>6, <2>7, <2>8 DEF IInv
<1> QED BY <1>1, <1>2

\* An event is written, or the same one is found: the heart of the argument.
\* A new row follows what its delivery sees, and if another transaction held
\* rows, that number would be the first of them.
LEMMA EmitInsertKeeps == ASSUME IInv, NEW d \in Deliveries, EmitInsert(d) PROVE IInv'
<1> DEFINE found == \E r \in Visible(d) : r.seq = want[d]
<1> DEFINE new == Row(want[d], Event(d))
<1>1. /\ pc[d] \in Emitting /\ want[d] # 0 /\ ~NumberHeld(d)
      /\ pc' = [pc EXCEPT ![d] = After(d)] /\ want' = [want EXCEPT ![d] = 0]
      /\ UNCHANGED <<active, cached, effect, result, stream, audit, mine, ran>>
      /\ \A r \in Visible(d) : r.seq = want[d] => r.event = Event(d)
  BY DEF EmitInsert, Compatible
<1>2. open' = [open EXCEPT ![d] = IF found THEN @ ELSE @ \cup {new}] BY DEF EmitInsert
<1>3. Event(d) \in EventType BY <1>1, EventTyped DEF IInv
<1>4. new \in RowType /\ new.seq = want[d] /\ new.event = Event(d) /\ want[d] \in Nat \ {0}
  BY <1>1, <1>3 DEF IInv, TypeOK, Row, RowType
<1>5. /\ Event(d).kind = pc[d]
      /\ pc[d] # "requested" => Event(d).by = d
  BY DEF Event
<1>6. /\ pc[d] = "requested" => After(d) = "decide"
      /\ pc[d] = "decided" => After(d) \in {"executed?", "commit"}
      /\ pc[d] = "outcome" => After(d) = "commit"
  BY <1>1, AfterTyped
<1>7. open[d] # {} => ~found BY <1>1 DEF IInv, WantInv
<1>8. pc[d] # "requested" => ~found
  <2>1. SUFFICES ASSUME pc[d] # "requested", NEW r \in Visible(d), r.seq = want[d] PROVE FALSE OBVIOUS
  <2>2. r.event.kind # "requested" /\ r.event.by = d BY <1>1, <1>5, <2>1
  <2>3. open[d] = {} BY <1>7, <2>1
  <2>4. r \in stream BY <2>3 DEF Visible
  <2>5. pc[d] = "answered" BY <2>2, <2>4 DEF IInv, HoldInv
  <2> QED BY <2>5, <1>1 DEF Emitting
<1>9. TypeOK'
  <2>1. open' \in [Deliveries -> SUBSET RowType] BY <1>2, <1>4 DEF IInv, TypeOK
  <2>2. pc' \in [Deliveries -> {"idle", "answered", "conflict", "lost"} \cup Busy]
    BY <1>1, <1>6 DEF IInv, TypeOK, Busy, Emitting
  <2>3. want' \in [Deliveries -> Nat] BY <1>1 DEF IInv, TypeOK
  <2> QED BY <1>1, <2>1, <2>2, <2>3 DEF IInv, TypeOK
<1>10. FillInv' /\ StreamIsSerial'
  <2>1. CASE found
    <3>1. open' = open BY <1>2, <2>1 DEF IInv, TypeOK
    <3> QED BY <1>1, <3>1, RowsKept
  <2>2. CASE ~found
    <3>1. PICK n \in Nat : Filled(n) BY DEF IInv, FillInv
    <3>2. \A r \in Visible(d) : r.seq \in Nat BY DEF IInv, TypeOK, Visible, RowType
    <3>3. want[d] = 1 \/ \E r \in Visible(d) : r.seq = want[d] - 1 BY <1>1 DEF IInv, WantInv
    <3>4. CASE open[d] = {}
      <4>1. want[d] = n + 1
        BY <3>1, <3>2, <3>3, <3>4, <2>2, <1>4 DEF Filled, Fills, Visible
      <4>2. \A e \in Deliveries \ {d} : open[e] = {}
        <5>1. SUFFICES ASSUME NEW e \in Deliveries \ {d}, open[e] # {} PROVE FALSE OBVIOUS
        <5>2. PICK m \in Nat : m > n /\ Fills(open[e], n + 1, m) BY <3>1, <5>1 DEF Filled
        <5>3. \E r \in open[e] : r.seq = n + 1 BY <5>2 DEF Fills
        <5> QED BY <1>1, <4>1, <5>3 DEF NumberHeld
      <4>3. open' = [open EXCEPT ![d] = {new}] BY <1>2, <2>2, <3>4 DEF IInv, TypeOK
      <4>4. open'[d] = {new} /\ \A e \in Deliveries \ {d} : open'[e] = {} BY <4>2, <4>3 DEF IInv, TypeOK
      <4>5. Fills({new}, n + 1, n + 1) BY <4>1, <1>4 DEF Fills
      <4>6. Filled(n)' BY <3>1, <4>4, <4>5, <1>1 DEF Filled, Fills
      <4> QED BY <4>4, <4>6 DEF FillInv, StreamIsSerial
    <3>5. CASE open[d] # {}
      <4>1. PICK m \in Nat : m > n /\ Fills(open[d], n + 1, m) BY <3>1, <3>5 DEF Filled
      <4>2. Fills(stream, 1, n) BY <3>1 DEF Filled
      <4>3. want[d] = m + 1
        BY <4>1, <4>2, <3>2, <3>3, <2>2, <1>4 DEF Fills, Visible
      <4>4. open'[d] = open[d] \cup {new} /\ \A e \in Deliveries \ {d} : open'[e] = open[e]
        BY <1>2, <2>2 DEF IInv, TypeOK
      <4>5. \A e \in Deliveries \ {d} : open[e] = {} BY <3>5 DEF IInv, StreamIsSerial
      <4>6. Fills(open[d] \cup {new}, n + 1, m + 1) BY <4>1, <4>3, <1>4 DEF Fills
      <4>7. Filled(n)'
        <5>1. m + 1 \in Nat /\ m + 1 > n BY <4>1
        <5>2. Fills(stream, 1, n)' BY <4>2, <1>1 DEF Fills
        <5>3. Fills(open[d], n + 1, m + 1)' BY <4>4, <4>6 DEF Fills
        <5>4. \A e \in Deliveries \ {d} : open'[e] = {} BY <4>4, <4>5
        <5> QED BY <5>1, <5>2, <5>3, <5>4 DEF Filled
      <4> QED BY <4>4, <4>5, <4>7 DEF FillInv, StreamIsSerial
    <3> QED BY <3>4, <3>5
  <2> QED BY <2>1, <2>2
<1>11. WantInv'
  <2> SUFFICES ASSUME NEW e \in Deliveries, want'[e] # 0
               PROVE  /\ pc'[e] \in Emitting
                      /\ want'[e] = 1 \/ \E r \in Visible(e)' : r.seq = want'[e] - 1
                      /\ open'[e] # {} => \A r \in Visible(e)' : r.seq # want'[e]
    BY DEF WantInv
  <2>1. e # d BY <1>1 DEF IInv, TypeOK
  <2>2. want'[e] = want[e] /\ pc'[e] = pc[e] /\ open'[e] = open[e] BY <1>1, <1>2, <2>1 DEF IInv, TypeOK
  <2>3. Visible(e)' = Visible(e) BY <1>1, <2>2 DEF Visible
  <2> QED BY <2>2, <2>3 DEF IInv, WantInv
<1>12. HoldInv'
  <2> SUFFICES ASSUME NEW e \in Deliveries
               PROVE  /\ pc'[e] \in Decided => open'[e] # {}
                      /\ pc'[e] \notin Busy => open'[e] = {}
                      /\ \A r \in open'[e] : r.event.kind # "requested" => r.event.by = e /\ pc'[e] \in Decided
                      /\ \A r \in stream : r.event.kind # "requested" /\ r.event.by = e => pc'[e] = "answered"
    BY <1>1 DEF HoldInv
  <2>1. CASE e = d
    <3>1. pc'[d] = After(d) /\ After(d) \in Busy BY <1>1, <1>6 DEF IInv, TypeOK, Busy, Emitting
    <3>2. open'[d] = IF found THEN open[d] ELSE open[d] \cup {new} BY <1>2 DEF IInv, TypeOK
    <3>3. pc'[d] \in Decided => open'[d] # {} BY <3>1, <3>2, <1>6, <1>8, <1>1 DEF Decided, Emitting
    <3>4. \A r \in open'[d] : r.event.kind # "requested" => r.event.by = d /\ pc'[d] \in Decided
      <4>1. SUFFICES ASSUME NEW r \in open'[d], r.event.kind # "requested"
                     PROVE  r.event.by = d /\ pc'[d] \in Decided
        OBVIOUS
      <4>2. CASE r \in open[d]
        <5>1. r.event.by = d /\ pc[d] \in Decided BY <4>1, <4>2 DEF IInv, HoldInv
        <5>2. pc[d] = "outcome" BY <5>1, <1>1 DEF Decided, Emitting
        <5> QED BY <5>1, <5>2, <3>1, <1>6 DEF Decided
      <4>3. CASE r = new
        <5>1. pc[d] # "requested" BY <4>1, <4>3, <1>4, <1>5
        <5> QED BY <5>1, <4>3, <1>4, <1>5, <1>6, <3>1, <1>1 DEF Decided, Emitting
      <4> QED BY <4>2, <4>3, <3>2
    <3>5. \A r \in stream : r.event.kind # "requested" => r.event.by # d
      BY <1>1 DEF IInv, HoldInv, Emitting
    <3> QED BY <2>1, <3>1, <3>3, <3>4, <3>5
  <2>2. CASE e # d
    <3>1. pc'[e] = pc[e] /\ open'[e] = open[e] BY <1>1, <1>2, <2>2 DEF IInv, TypeOK
    <3> QED BY <3>1 DEF IInv, HoldInv
  <2> QED BY <2>1, <2>2
<1>13. ClaimInv' BY <1>1, <1>6 DEF IInv, ClaimInv, TypeOK, Emitting
<1>14. OneStandingRun' /\ ConflictRanNothing'
  BY <1>1, <1>6 DEF IInv, OneStandingRun, ConflictRanNothing, ClaimInv, TypeOK, Emitting
<1> QED BY <1>9, <1>10, <1>11, <1>12, <1>13, <1>14 DEF IInv

\* Rows of one delivery are taken back: what is left is as before.
LEMMA RollbackFills ==
  ASSUME IInv, NEW d \in Deliveries, open' = [open EXCEPT ![d] = {}], stream' = stream,
         want' = [want EXCEPT ![d] = 0], \A e \in Deliveries \ {d} : pc'[e] = pc[e]
  PROVE  FillInv' /\ StreamIsSerial' /\ WantInv'
<1>1. open'[d] = {} /\ \A e \in Deliveries \ {d} : open'[e] = open[e] BY DEF IInv, TypeOK
<1>2. PICK n \in Nat : Filled(n) BY DEF IInv, FillInv
<1>3. Filled(n)'
  <2>1. Fills(stream, 1, n)' BY <1>2 DEF Filled, Fills
  <2>2. \A e \in Deliveries \ {d} : open[e] = {} \/ \E m \in Nat : m > n /\ Fills(open[e], n + 1, m)
    BY <1>2 DEF Filled
  <2>3. \A e \in Deliveries : open'[e] = {} \/ \E m \in Nat : m > n /\ Fills(open'[e], n + 1, m)
    BY <1>1, <2>2
  <2> QED BY <2>1, <2>3 DEF Filled, Fills
<1>4. StreamIsSerial' BY <1>1 DEF IInv, StreamIsSerial
<1>5. WantInv'
  <2> SUFFICES ASSUME NEW e \in Deliveries, want'[e] # 0
               PROVE  /\ pc'[e] \in Emitting
                      /\ want'[e] = 1 \/ \E r \in Visible(e)' : r.seq = want'[e] - 1
                      /\ open'[e] # {} => \A r \in Visible(e)' : r.seq # want'[e]
    BY DEF WantInv
  <2>1. e # d BY DEF IInv, TypeOK
  <2>2. want'[e] = want[e] /\ pc'[e] = pc[e] BY <2>1 DEF IInv, TypeOK
  <2>3. Visible(e)' = Visible(e) BY <1>1, <2>1 DEF Visible
  <2> QED BY <1>1, <2>1, <2>2, <2>3 DEF IInv, WantInv
<1> QED BY <1>3, <1>4, <1>5 DEF FillInv

\* A refused number: the delivery holds no row, since otherwise its number were free, so it has not run.
LEMMA EmitConflictKeeps == ASSUME IInv, NEW d \in Deliveries, EmitConflict(d) PROVE IInv'
<1>1. /\ open' = [open EXCEPT ![d] = {}] /\ mine' = [mine EXCEPT ![d] = {}]
      /\ pc' = [pc EXCEPT ![d] = "conflict"] /\ want' = [want EXCEPT ![d] = 0]
      /\ UNCHANGED <<active, cached, effect, result, stream, audit, ran>>
  BY DEF EmitConflict
<1>2. pc[d] \in Busy BY DEF EmitConflict, Busy
<1>3. TypeOK' BY <1>1 DEF IInv, TypeOK
<1>4. FillInv' /\ StreamIsSerial' /\ WantInv' BY <1>1, RollbackFills DEF IInv, TypeOK
<1>5. HoldInv' BY <1>1, <1>2 DEF IInv, HoldInv, TypeOK, Busy, Emitting, Decided
<1>6. open[d] = {} BY DEF EmitConflict, IInv, WantInv
<1>7. d \notin ran
  <2>1. pc[d] \notin Decided BY <1>6 DEF IInv, HoldInv
  <2> QED BY <1>2, <2>1 DEF IInv, ClaimInv, Decided, Busy, Emitting
<1>8. ClaimInv' BY <1>1, <1>7 DEF IInv, ClaimInv, TypeOK
<1>9. OneStandingRun' /\ ConflictRanNothing' BY <1>1, <1>7 DEF IInv, OneStandingRun, ConflictRanNothing, TypeOK
<1> QED BY <1>3, <1>4, <1>5, <1>8, <1>9 DEF IInv

\* A lost delivery leaves its run behind, if it had one.
LEMMA CrashKeeps == ASSUME IInv, NEW d \in Deliveries, Crash(d) PROVE IInv'
<1>1. /\ open' = [open EXCEPT ![d] = {}] /\ mine' = [mine EXCEPT ![d] = {}]
      /\ pc' = [pc EXCEPT ![d] = "lost"] /\ want' = [want EXCEPT ![d] = 0]
      /\ UNCHANGED <<active, cached, effect, result, stream, audit, ran>>
  BY DEF Crash
<1>2. pc[d] \in Busy BY DEF Crash, Busy
<1>3. TypeOK' BY <1>1 DEF IInv, TypeOK
<1>4. FillInv' /\ StreamIsSerial' /\ WantInv' BY <1>1, RollbackFills DEF IInv, TypeOK
<1>5. HoldInv' BY <1>1, <1>2 DEF IInv, HoldInv, TypeOK, Busy, Emitting, Decided
<1>6. ClaimInv' BY <1>1 DEF IInv, ClaimInv, TypeOK
<1>7. OneStandingRun' BY <1>1 DEF IInv, OneStandingRun, TypeOK
<1>8. ConflictRanNothing' BY <1>1 DEF IInv, ConflictRanNothing, TypeOK
<1> QED BY <1>3, <1>4, <1>5, <1>6, <1>7, <1>8 DEF IInv

\* The claim is inserted only when nobody has committed one.
LEMMA ClaimActionKeeps == ASSUME IInv, NEW d \in Deliveries, ClaimAction(d) PROVE IInv'
<1>1. pc[d] = "claim" /\ UNCHANGED <<active, cached, effect, want, stream, open, audit, ran>>
  BY DEF ClaimAction
<1>2. d \notin ran /\ mine[d] = {} BY <1>1 DEF IInv, ClaimInv
<1>3. CASE ClaimLost(d)
  <2>1. result' = [result EXCEPT ![d] = "failed"] /\ pc' = [pc EXCEPT ![d] = "commit"] /\ mine' = mine
    BY <1>3 DEF ClaimAction
  <2>2. TypeOK' BY <1>1, <2>1 DEF IInv, TypeOK, Busy, Results
  <2>3. FillInv' /\ StreamIsSerial' BY <1>1, RowsKept
  <2>4. WantInv' BY <1>1, <2>1 DEF IInv, WantInv, Visible, TypeOK, Emitting
  <2>5. HoldInv' BY <1>1, <2>1 DEF IInv, HoldInv, TypeOK, Busy, Emitting, Decided
  <2>6. ClaimInv' BY <1>1, <1>2, <2>1 DEF IInv, ClaimInv, TypeOK
  <2>7. OneStandingRun' /\ ConflictRanNothing'
    BY <1>1, <1>2, <2>1 DEF IInv, OneStandingRun, ConflictRanNothing, TypeOK
  <2> QED BY <2>2, <2>3, <2>4, <2>5, <2>6, <2>7 DEF IInv
<1>4. CASE ~ClaimLost(d)
  <2> DEFINE c == [act |-> ActionOf[d], mark |-> "claimed"]
  <2>1. mine' = [mine EXCEPT ![d] = @ \cup {c}] /\ pc' = [pc EXCEPT ![d] = "run"] /\ result' = result
    BY <1>4 DEF ClaimAction
  <2>2. c \in MarkType /\ c \notin audit BY <1>4 DEF MarkType, Marks, ClaimLost, Marked
  <2>3. TypeOK' BY <1>1, <2>1, <2>2 DEF IInv, TypeOK, Busy
  <2>4. FillInv' /\ StreamIsSerial' BY <1>1, RowsKept
  <2>5. WantInv' BY <1>1, <2>1 DEF IInv, WantInv, Visible, TypeOK, Emitting
  <2>6. HoldInv' BY <1>1, <2>1 DEF IInv, HoldInv, TypeOK, Busy, Emitting, Decided
  <2>7. ClaimInv' BY <1>1, <1>2, <2>1, <2>2 DEF IInv, ClaimInv, TypeOK
  <2>8. OneStandingRun' /\ ConflictRanNothing'
    BY <1>1, <1>2, <2>1 DEF IInv, OneStandingRun, ConflictRanNothing, TypeOK
  <2> QED BY <2>3, <2>4, <2>5, <2>6, <2>7, <2>8 DEF IInv
<1> QED BY <1>3, <1>4

\* A run starts under a claim that is not committed: a run of the action that
\* stands has committed it, or holds rows of the stream, which this one does.
LEMMA ExecuteKeeps == ASSUME IInv, NEW d \in Deliveries, Execute(d) PROVE IInv'
<1>1. PICK f \in {"executed", "failed"} :
        /\ result' = [result EXCEPT ![d] = f]
        /\ mine' = [mine EXCEPT ![d] = @ \cup {[act |-> ActionOf[d], mark |-> f]}]
  BY DEF Execute
<1>2. /\ pc[d] = "run" /\ pc' = [pc EXCEPT ![d] = "outcome"] /\ ran' = ran \cup {d}
      /\ UNCHANGED <<active, cached, effect, want, stream, open, audit>>
  BY DEF Execute
<1>3. [act |-> ActionOf[d], mark |-> f] \in MarkType BY DEF MarkType, Marks
<1>4. TypeOK' BY <1>1, <1>2, <1>3 DEF IInv, TypeOK, Busy, Emitting, Results
<1>5. FillInv' /\ StreamIsSerial' BY <1>2, RowsKept
<1>6. WantInv' BY <1>2 DEF IInv, WantInv, Visible, TypeOK, Emitting
<1>7. HoldInv' BY <1>2 DEF IInv, HoldInv, TypeOK, Busy, Emitting, Decided
<1>8. ClaimInv' BY <1>1, <1>2 DEF IInv, ClaimInv, TypeOK
<1>9. OneStandingRun'
  <2>1. \A e \in ran : ActionOf[e] = ActionOf[d] => pc[e] = "lost"
    <3> SUFFICES ASSUME NEW e \in ran, ActionOf[e] = ActionOf[d], pc[e] # "lost" PROVE FALSE OBVIOUS
    <3>1. e \in Deliveries /\ e # d BY <1>2 DEF IInv, TypeOK, ClaimInv
    <3>2. CASE pc[e] = "answered" BY <3>1, <3>2, <1>2 DEF IInv, ClaimInv
    <3>3. CASE pc[e] \in {"outcome", "commit"}
      BY <3>1, <3>3, <1>2 DEF IInv, HoldInv, Decided, StreamIsSerial
    <3> QED BY <3>1, <3>2, <3>3 DEF IInv, ClaimInv
  <2> QED BY <2>1, <1>2 DEF IInv, OneStandingRun, TypeOK
<1>10. ConflictRanNothing' BY <1>2 DEF IInv, ConflictRanNothing, TypeOK
<1> QED BY <1>4, <1>5, <1>6, <1>7, <1>8, <1>9, <1>10 DEF IInv

\* A commit appends the rows of the one delivery that has any.
LEMMA CommitKeeps == ASSUME IInv, NEW d \in Deliveries, Commit(d) PROVE IInv'
<1>1. /\ pc[d] = "commit" /\ pc' = [pc EXCEPT ![d] = "answered"]
      /\ stream' = stream \cup open[d] /\ open' = [open EXCEPT ![d] = {}]
      /\ audit' = audit \cup mine[d] /\ mine' = [mine EXCEPT ![d] = {}]
      /\ UNCHANGED <<active, cached, effect, result, want, ran>>
  BY DEF Commit, tx
<1>2. open[d] # {} BY <1>1 DEF IInv, HoldInv, Decided
<1>3. \A e \in Deliveries \ {d} : open[e] = {} /\ open'[e] = {} BY <1>1, <1>2 DEF IInv, StreamIsSerial, TypeOK
<1>4. open'[d] = {} BY <1>1 DEF IInv, TypeOK
<1>5. \A e \in Deliveries \ {d} : pc[e] \notin {"run", "outcome", "commit"} /\ mine[e] = {}
  BY <1>3 DEF IInv, HoldInv, Decided, ClaimInv
<1>6. TypeOK' BY <1>1 DEF IInv, TypeOK, Busy
<1>7. FillInv'
  <2>1. PICK n \in Nat : Filled(n) BY DEF IInv, FillInv
  <2>2. PICK m \in Nat : m > n /\ Fills(open[d], n + 1, m) BY <1>2, <2>1 DEF Filled
  <2>3. Fills(stream \cup open[d], 1, m) BY <2>1, <2>2 DEF Filled, Fills
  <2>4. Filled(m)' BY <1>1, <1>3, <1>4, <2>3 DEF Filled
  <2> QED BY <2>4 DEF FillInv
<1>8. StreamIsSerial' BY <1>3, <1>4 DEF StreamIsSerial
<1>9. WantInv' BY <1>1, <1>3, <1>4 DEF IInv, WantInv, Visible, TypeOK, Emitting
<1>10. HoldInv'
  <2> SUFFICES ASSUME NEW e \in Deliveries
               PROVE  /\ pc'[e] \in Decided => open'[e] # {}
                      /\ open'[e] = {}
                      /\ \A r \in stream' : r.event.kind # "requested" /\ r.event.by = e => pc'[e] = "answered"
    BY DEF HoldInv
  <2>1. open'[e] = {} BY <1>3, <1>4
  <2>2. pc'[e] \notin Decided BY <1>1, <1>3 DEF IInv, HoldInv, TypeOK, Decided
  <2>3. \A r \in open[d] : r.event.kind # "requested" => r.event.by = d BY DEF IInv, HoldInv
  <2>4. \A r \in stream : r.event.kind # "requested" /\ r.event.by = e => pc[e] = "answered" BY DEF IInv, HoldInv
  <2>5. pc'[e] = IF e = d THEN "answered" ELSE pc[e] BY <1>1 DEF IInv, TypeOK
  <2> QED BY <1>1, <2>1, <2>2, <2>3, <2>4, <2>5
<1>11. ClaimInv' BY <1>1, <1>5 DEF IInv, ClaimInv, TypeOK
<1>12. OneStandingRun' /\ ConflictRanNothing'
  BY <1>1 DEF IInv, OneStandingRun, ConflictRanNothing, TypeOK
<1> QED BY <1>6, <1>7, <1>8, <1>9, <1>10, <1>11, <1>12 DEF IInv

\* The Attempt is settled elsewhere, or nothing happens.
LEMMA IdleKeeps == ASSUME IInv, Settle \/ UNCHANGED vars PROVE IInv'
<1>1. /\ UNCHANGED <<pc, cached, effect, result, want, stream, open, audit, mine, ran>>
      /\ active' \in BOOLEAN
  BY DEF Settle, tx, vars, IInv, TypeOK
<1>2. FillInv' /\ StreamIsSerial' BY <1>1, RowsKept
<1>3. TypeOK' BY <1>1 DEF IInv, TypeOK
<1>4. WantInv' BY <1>1 DEF IInv, WantInv, Visible
<1>6. HoldInv' BY <1>1 DEF IInv, HoldInv
<1>7. ClaimInv' BY <1>1 DEF IInv, ClaimInv
<1>5. OneStandingRun' /\ ConflictRanNothing' BY <1>1 DEF IInv, OneStandingRun, ConflictRanNothing
<1> QED BY <1>2, <1>3, <1>4, <1>5, <1>6, <1>7 DEF IInv

-----------------------------------------------------------------------------
(* Results *)

\* The inductive invariant holds of every reachable state of the Tool Proxy.
THEOREM DeliveryInvariance == Spec => []IInv
<1>1. IInv /\ [Next]_vars => IInv'
  BY ArriveKeeps, EmitReadKeeps, EmitInsertKeeps, EmitConflictKeeps, DecideKeeps, LookupExecutedKeeps,
     LookupFailedKeeps, ClaimActionKeeps, ExecuteKeeps, CommitKeeps, CrashKeeps, IdleKeeps
  DEF Next, Proxy, Emit
<1> QED BY InitInv, <1>1, PTL DEF Spec

\* The numbers of the event stream serialise the deliveries of an Attempt.
THEOREM NumbersSerialise == Spec => []StreamIsSerial
<1>1. IInv => StreamIsSerial BY DEF IInv
<1> QED BY <1>1, DeliveryInvariance, PTL

\* At most one run of the executor stands for an action.
THEOREM RunStandsOnce == Spec => []OneStandingRun
<1>1. IInv => OneStandingRun BY DEF IInv
<1> QED BY <1>1, DeliveryInvariance, PTL

\* A RuntimeEventConflictError never takes the record of a run with it.
THEOREM RefusedBeforeRun == Spec => []ConflictRanNothing
<1>1. IInv => ConflictRanNothing BY DEF IInv
<1> QED BY <1>1, DeliveryInvariance, PTL

-----------------------------------------------------------------------------
(* The story of the stream *)

\* A request of the delivery's action, and the delivery's own decision.
IsRequest(q, act) == q.event.kind = "requested" /\ q.event.act = act
IsDecision(a, d, word) == a.event.kind = "decided" /\ a.event.by = d /\ a.event.word = word
IsOutcome(o) == o.event.kind = "outcome"

\* The outcome o comes after an allow of its delivery, and that after a request.
Told(o, S) ==
  \E q, a \in S : /\ q.seq < a.seq /\ a.seq < o.seq
                  /\ IsRequest(q, o.event.act) /\ IsDecision(a, o.event.by, "allow")

\* A delivery sees each number once, and so does every reader of the stream.
NumberInv ==
  /\ \A r, z \in stream : r.seq = z.seq => r = z
  /\ \A d \in Deliveries : \A r, z \in Visible(d) : r.seq = z.seq => r = z

\* Who has emitted its request sees one; who has decided holds its decision behind
\* it; who goes on to the fence was allowed; who has an outcome ran the executor;
\* who is answered left its decision.
DecisionInv ==
  \A d \in Deliveries :
    /\ pc[d] \in {"decide", "decided"} => \E q \in Visible(d) : IsRequest(q, ActionOf[d])
    /\ pc[d] \in Decided =>
         \E q \in Visible(d), a \in open[d] :
           q.seq < a.seq /\ IsRequest(q, ActionOf[d]) /\ IsDecision(a, d, effect[d])
    /\ pc[d] \in Decided \ {"commit"} => effect[d] = "allow"
    /\ pc[d] = "outcome" => d \in ran
    /\ pc[d] = "answered" => \E a \in stream : IsDecision(a, d, effect[d])

\* An uncommitted outcome belongs to the one run whose claim is not committed; a
\* committed outcome has its claim beside it, so the action gets no second one.
OutcomeInv ==
  /\ \A d \in Deliveries : \A o \in open[d] : IsOutcome(o) =>
       /\ o.event.act = ActionOf[d] /\ pc[d] = "commit" /\ d \in ran
       /\ Told(o, Visible(d))
       /\ \A p \in open[d] : IsOutcome(p) => p = o
  /\ \A o \in stream : IsOutcome(o) =>
       /\ [act |-> o.event.act, mark |-> "claimed"] \in audit
       /\ Told(o, stream)
       /\ \A p \in stream : IsOutcome(p) /\ p.event.act = o.event.act => p = o

StoryInv == NumberInv /\ DecisionInv /\ OutcomeInv

\* A row that a delivery adds comes after every row it sees.
LEMMA InsertIsLast ==
  ASSUME IInv, NEW d \in Deliveries, EmitInsert(d), ~\E r \in Visible(d) : r.seq = want[d]
  PROVE  \A r \in Visible(d) : r.seq < want[d]
<1>1. PICK n \in Nat : Filled(n) BY DEF IInv, FillInv
<1>2. \A r \in Visible(d) : r.seq \in Nat BY DEF IInv, TypeOK, Visible, RowType
<1>3. want[d] \in Nat \ {0} BY DEF EmitInsert, IInv, TypeOK
<1>4. want[d] = 1 \/ \E r \in Visible(d) : r.seq = want[d] - 1 BY <1>3 DEF IInv, WantInv
<1>5. Fills(stream, 1, n) BY <1>1 DEF Filled
<1>6. CASE open[d] = {}
  <2>1. Visible(d) = stream BY <1>6 DEF Visible
  <2>2. want[d] = n + 1 BY <1>2, <1>3, <1>4, <1>5, <2>1 DEF Fills
  <2> QED BY <1>2, <1>5, <2>1, <2>2 DEF Fills
<1>7. CASE open[d] # {}
  <2>1. PICK m \in Nat : m > n /\ Fills(open[d], n + 1, m) BY <1>1, <1>7 DEF Filled
  <2>2. want[d] = m + 1 BY <1>2, <1>3, <1>4, <1>5, <2>1 DEF Fills, Visible
  <2>3. \A r \in stream : r.seq < want[d] BY <1>2, <1>5, <2>1, <2>2 DEF Fills, Visible
  <2>4. \A r \in open[d] : r.seq < want[d] BY <1>2, <2>1, <2>2 DEF Fills, Visible
  <2> QED BY <2>3, <2>4 DEF Visible
<1> QED BY <1>6, <1>7

\* The first event is the first of the stream: nothing was told before.
LEMMA StoryInit == Init => StoryInv
BY DEF Init, StoryInv, NumberInv, DecisionInv, OutcomeInv, Visible, Decided

\* A step of delivery d that touches no row of the stream keeps the story when the
\* place it comes to asks for no more than the place it leaves.
LEMMA QuietTells ==
  ASSUME IInv, StoryInv, UNCHANGED <<stream, open, audit>>, NEW d \in Deliveries,
         \A e \in Deliveries \ {d} : pc'[e] = pc[e] /\ effect'[e] = effect[e],
         ran \subseteq ran', pc[d] # "commit",
         pc'[d] \in {"decide", "decided"} => \E q \in Visible(d) : IsRequest(q, ActionOf[d]),
         pc'[d] \in Decided => pc[d] \in Decided /\ effect'[d] = effect[d],
         pc'[d] = "outcome" => d \in ran', pc'[d] # "answered"
  PROVE  StoryInv'
<1>1. \A e \in Deliveries : Visible(e)' = Visible(e) BY DEF Visible
<1>2. NumberInv' BY <1>1 DEF StoryInv, NumberInv
<1>3. DecisionInv'
  <2> SUFFICES ASSUME NEW e \in Deliveries
               PROVE  /\ pc'[e] \in {"decide", "decided"} => \E q \in Visible(e) : IsRequest(q, ActionOf[e])
                      /\ pc'[e] \in Decided =>
                           \E q \in Visible(e), a \in open[e] :
                             q.seq < a.seq /\ IsRequest(q, ActionOf[e]) /\ IsDecision(a, e, effect'[e])
                      /\ pc'[e] \in Decided \ {"commit"} => effect'[e] = "allow"
                      /\ pc'[e] = "outcome" => e \in ran'
                      /\ pc'[e] = "answered" => \E a \in stream : IsDecision(a, e, effect'[e])
    BY <1>1 DEF DecisionInv, IsRequest, IsDecision
  <2>1. CASE e = d BY <2>1 DEF StoryInv, DecisionInv
  <2>2. CASE e # d BY <2>2 DEF StoryInv, DecisionInv
  <2> QED BY <2>1, <2>2
<1>4. OutcomeInv'
  <2>1. ASSUME NEW e \in Deliveries, NEW o \in open'[e], IsOutcome(o)
        PROVE  /\ o.event.act = ActionOf[e] /\ pc'[e] = "commit" /\ e \in ran'
               /\ Told(o, Visible(e)')
               /\ \A p \in open'[e] : IsOutcome(p) => p = o
    <3>1. /\ o.event.act = ActionOf[e] /\ pc[e] = "commit" /\ e \in ran
          /\ Told(o, Visible(e))
          /\ \A p \in open[e] : IsOutcome(p) => p = o
      BY <2>1 DEF StoryInv, OutcomeInv
    <3>2. pc'[e] = pc[e] BY <3>1
    <3> QED BY <1>1, <3>1, <3>2
  <2>2. \A o \in stream : IsOutcome(o) =>
          /\ [act |-> o.event.act, mark |-> "claimed"] \in audit
          /\ Told(o, stream)
          /\ \A p \in stream : IsOutcome(p) /\ p.event.act = o.event.act => p = o
    BY DEF StoryInv, OutcomeInv
  <2> QED BY <2>1, <2>2 DEF OutcomeInv, Told, IsOutcome, IsRequest, IsDecision
<1> QED BY <1>2, <1>3, <1>4 DEF StoryInv

\* The steps that read keep the story.
LEMMA ReadsTell ==
  ASSUME IInv, StoryInv, NEW d \in Deliveries,
         \/ Arrive(d) \/ EmitRead(d) \/ Decide(d) \/ LookupExecuted(d) \/ LookupFailed(d)
         \/ ClaimAction(d) \/ Execute(d)
  PROVE  StoryInv'
<1>a. pc \in [Deliveries -> {"idle", "answered", "conflict", "lost"} \cup Busy]
      /\ effect \in [Deliveries -> Effects]
  BY DEF IInv, TypeOK
<1>1. CASE Arrive(d)
  <2>1. /\ UNCHANGED <<stream, open, audit, effect, ran>> /\ pc[d] = "idle"
        /\ pc' = [pc EXCEPT ![d] = "requested"]
    BY <1>1 DEF Arrive
  <2> QED BY <2>1, <1>a, QuietTells DEF Decided
<1>2. CASE EmitRead(d) /\ ~Duplicate(d)
  <2>1. UNCHANGED <<stream, open, audit, effect, ran, pc>> /\ pc[d] \in Emitting
    BY <1>2 DEF EmitRead
  <2>2. /\ pc[d] \in {"decide", "decided"} => \E q \in Visible(d) : IsRequest(q, ActionOf[d])
        /\ pc[d] = "outcome" => d \in ran
    BY DEF StoryInv, DecisionInv
  <2> QED BY <2>1, <2>2, <1>a, QuietTells DEF Emitting
<1>3. CASE EmitRead(d) /\ Duplicate(d)
  <2>1. /\ UNCHANGED <<stream, open, audit, effect, ran>>
        /\ pc' = [pc EXCEPT ![d] = After(d)] /\ pc[d] \in Emitting
    BY <1>3 DEF EmitRead
  <2>2. \/ pc[d] = "requested" /\ After(d) = "decide"
        \/ pc[d] = "outcome" /\ After(d) = "commit"
    BY <1>3, <2>1, AfterTyped DEF Duplicate, Emitting
  <2>3. pc[d] = "requested" => \E q \in Visible(d) : IsRequest(q, ActionOf[d])
    BY <1>3 DEF Duplicate, IsRequest
  <2> QED BY <2>1, <2>2, <2>3, <1>a, QuietTells DEF Decided
<1>4. CASE Decide(d)
  <2>1. /\ UNCHANGED <<stream, open, audit, ran>> /\ pc[d] = "decide"
        /\ pc' = [pc EXCEPT ![d] = "decided"] /\ \E f \in Effects : effect' = [effect EXCEPT ![d] = f]
    BY <1>4 DEF Decide
  <2>2. \E q \in Visible(d) : IsRequest(q, ActionOf[d]) BY <2>1 DEF StoryInv, DecisionInv
  <2> QED BY <2>1, <2>2, <1>a, QuietTells DEF Decided
<1>5. CASE LookupExecuted(d) \/ LookupFailed(d)
  <2>1. /\ UNCHANGED <<stream, open, audit, effect, ran>> /\ pc[d] \in {"executed?", "failed?"}
        /\ \E x \in {"failed?", "claim", "commit"} : pc' = [pc EXCEPT ![d] = x]
    BY <1>5 DEF LookupExecuted, LookupFailed
  <2> QED BY <2>1, <1>a, QuietTells DEF Decided
<1>6. CASE ClaimAction(d)
  <2>1. /\ UNCHANGED <<stream, open, audit, effect, ran>> /\ pc[d] = "claim"
        /\ \E x \in {"run", "commit"} : pc' = [pc EXCEPT ![d] = x]
    BY <1>6 DEF ClaimAction
  <2> QED BY <2>1, <1>a, QuietTells DEF Decided
<1>7. CASE Execute(d)
  <2>1. /\ UNCHANGED <<stream, open, audit, effect>> /\ pc[d] = "run" /\ ran' = ran \cup {d}
        /\ pc' = [pc EXCEPT ![d] = "outcome"]
    BY <1>7 DEF Execute
  <2> QED BY <2>1, <1>a, QuietTells DEF Decided
<1> QED BY <1>1, <1>2, <1>3, <1>4, <1>5, <1>6, <1>7

\* Who loses its rows was in the middle of its delivery: the rest of the story stands.
LEMMA RollbackTells ==
  ASSUME IInv, StoryInv, NEW d \in Deliveries, Crash(d) \/ EmitConflict(d)
  PROVE  StoryInv'
<1>1. /\ open' = [open EXCEPT ![d] = {}] /\ UNCHANGED <<stream, audit, effect, ran>>
      /\ \E x \in {"lost", "conflict"} : pc' = [pc EXCEPT ![d] = x]
  BY DEF Crash, EmitConflict
<1>2. /\ pc'[d] \in {"lost", "conflict"} /\ open'[d] = {}
      /\ \A e \in Deliveries \ {d} : pc'[e] = pc[e] /\ open'[e] = open[e] /\ Visible(e)' = Visible(e)
  BY <1>1 DEF IInv, TypeOK, Visible
<1>3. \A e \in Deliveries : Visible(e)' \subseteq Visible(e) BY <1>1, <1>2 DEF Visible
<1>4. NumberInv' BY <1>1, <1>3 DEF StoryInv, NumberInv
<1>5. DecisionInv' BY <1>1, <1>2 DEF StoryInv, DecisionInv, IsRequest, IsDecision, Decided
<1>6. OutcomeInv' BY <1>1, <1>2 DEF StoryInv, OutcomeInv, IsOutcome, Told, IsRequest, IsDecision
<1> QED BY <1>4, <1>5, <1>6 DEF StoryInv

\* A new row comes last in its delivery's eyes: a request opens the story, a
\* decision follows a request, an outcome follows the allow of its own delivery.
LEMMA InsertTells ==
  ASSUME IInv, StoryInv, NEW d \in Deliveries, EmitInsert(d)
  PROVE  StoryInv'
<1> DEFINE found == \E r \in Visible(d) : r.seq = want[d]
<1> DEFINE new == Row(want[d], Event(d))
<1>1. /\ pc[d] \in Emitting /\ pc' = [pc EXCEPT ![d] = After(d)]
      /\ UNCHANGED <<effect, result, stream, audit, mine, ran>>
      /\ open' = [open EXCEPT ![d] = IF found THEN @ ELSE @ \cup {new}]
      /\ \A r \in Visible(d) : r.seq = want[d] => r.event = Event(d)
  BY DEF EmitInsert, Compatible
<1>2. /\ new.seq = want[d] /\ new.event = Event(d) /\ want[d] \in Nat
  BY DEF IInv, TypeOK, Row
<1>3. /\ Event(d).kind = pc[d] /\ Event(d).act = ActionOf[d]
      /\ pc[d] # "requested" => Event(d).by = d
      /\ pc[d] = "decided" => Event(d).word = effect[d]
  BY DEF Event
<1>4. /\ pc[d] = "requested" => After(d) = "decide"
      /\ pc[d] = "decided" => After(d) = IF effect[d] = "allow" THEN "executed?" ELSE "commit"
      /\ pc[d] = "outcome" => After(d) = "commit"
  BY <1>1, AfterTyped
<1>5. /\ pc'[d] = After(d) /\ open'[d] = IF found THEN open[d] ELSE open[d] \cup {new}
      /\ \A e \in Deliveries \ {d} : pc'[e] = pc[e] /\ open'[e] = open[e] /\ Visible(e)' = Visible(e)
  BY <1>1 DEF IInv, TypeOK, Visible
<1>6. Visible(d)' = IF found THEN Visible(d) ELSE Visible(d) \cup {new}
  BY <1>1, <1>5 DEF Visible
<1>7. ~found => \A r \in Visible(d) : r.seq < want[d] BY InsertIsLast
<1>8. pc[d] # "requested" => ~found
  <2>1. SUFFICES ASSUME pc[d] # "requested", NEW r \in Visible(d), r.seq = want[d] PROVE FALSE OBVIOUS
  <2>2. r.event.kind # "requested" /\ r.event.by = d BY <1>1, <1>3, <2>1
  <2>3. open[d] = {} BY <2>1 DEF EmitInsert, IInv, WantInv
  <2>4. r \in stream BY <2>3 DEF Visible
  <2>5. pc[d] = "answered" BY <2>2, <2>4 DEF IInv, HoldInv
  <2> QED BY <2>5, <1>1 DEF Emitting
<1>9. NumberInv'
  <2>1. \A r, z \in Visible(d)' : r.seq = z.seq => r = z
    <3>1. \A r, z \in Visible(d) : r.seq = z.seq => r = z BY DEF StoryInv, NumberInv
    <3>2. \A r \in Visible(d) : r.seq \in Nat BY DEF IInv, TypeOK, Visible, RowType
    <3>3. ~found => \A r \in Visible(d) : r.seq # new.seq BY <1>2
    <3> QED BY <3>1, <3>3, <1>6
  <2> QED BY <2>1, <1>1, <1>5 DEF StoryInv, NumberInv
<1>10. DecisionInv'
  <2> SUFFICES ASSUME NEW e \in Deliveries
               PROVE  /\ pc'[e] \in {"decide", "decided"} => \E q \in Visible(e)' : IsRequest(q, ActionOf[e])
                      /\ pc'[e] \in Decided =>
                           \E q \in Visible(e)', a \in open'[e] :
                             q.seq < a.seq /\ IsRequest(q, ActionOf[e]) /\ IsDecision(a, e, effect[e])
                      /\ pc'[e] \in Decided \ {"commit"} => effect[e] = "allow"
                      /\ pc'[e] = "outcome" => e \in ran
                      /\ pc'[e] = "answered" => \E a \in stream : IsDecision(a, e, effect[e])
    BY <1>1 DEF DecisionInv, IsRequest, IsDecision
  <2>1. CASE e # d BY <2>1, <1>5 DEF StoryInv, DecisionInv
  <2>2. CASE e = d /\ pc[d] = "requested"
    <3>1. pc'[d] = "decide" BY <2>2, <1>4, <1>5
    <3>2. \E q \in Visible(d)' : q.event = Event(d)
      <4>1. CASE found BY <4>1, <1>1, <1>6
      <4>2. CASE ~found BY <4>2, <1>2, <1>6
      <4> QED BY <4>1, <4>2
    <3>3. \E q \in Visible(d)' : IsRequest(q, ActionOf[d]) BY <2>2, <3>2, <1>3 DEF IsRequest
    <3> QED BY <2>2, <3>1, <3>3 DEF Decided
  <2>3. CASE e = d /\ pc[d] = "decided"
    <3>1. ~found /\ new \in open'[d] /\ Visible(d) \subseteq Visible(d)' BY <2>3, <1>5, <1>6, <1>8
    <3>2. IsDecision(new, d, effect[d]) BY <2>3, <1>2, <1>3 DEF IsDecision
    <3>3. PICK q \in Visible(d) : IsRequest(q, ActionOf[d]) BY <2>3 DEF StoryInv, DecisionInv
    <3>4. q.seq < new.seq BY <3>1, <1>2, <1>7
    <3>5. pc'[d] = IF effect[d] = "allow" THEN "executed?" ELSE "commit" BY <2>3, <1>4, <1>5
    <3> QED BY <2>3, <3>1, <3>2, <3>3, <3>4, <3>5
  <2>4. CASE e = d /\ pc[d] = "outcome"
    <3>1. pc'[d] = "commit" /\ Visible(d) \subseteq Visible(d)' /\ open[d] \subseteq open'[d]
      BY <2>4, <1>4, <1>5, <1>6
    <3>2. \E q \in Visible(d), a \in open[d] :
            q.seq < a.seq /\ IsRequest(q, ActionOf[d]) /\ IsDecision(a, d, effect[d])
      BY <2>4 DEF StoryInv, DecisionInv, Decided
    <3> QED BY <2>4, <3>1, <3>2
  <2> QED BY <1>1, <2>1, <2>2, <2>3, <2>4 DEF Emitting
<1>11. OutcomeInv'
  <2>1. ASSUME NEW e \in Deliveries, NEW o \in open'[e], IsOutcome(o)
        PROVE  /\ o.event.act = ActionOf[e] /\ pc'[e] = "commit" /\ e \in ran
               /\ Told(o, Visible(e)')
               /\ \A p \in open'[e] : IsOutcome(p) => p = o
    <3>1. CASE e # d BY <2>1, <3>1, <1>5 DEF StoryInv, OutcomeInv
    <3>2. CASE e = d
      <4>1. \A p \in open[d] : ~IsOutcome(p)
        BY <1>1 DEF StoryInv, OutcomeInv, Emitting
      <4>2. o = new /\ ~found BY <2>1, <3>2, <4>1, <1>5
      <4>3. pc[d] = "outcome" /\ o.event.act = ActionOf[d] /\ o.event.by = d /\ o.seq = want[d]
        BY <2>1, <4>2, <1>2, <1>3 DEF IsOutcome
      <4>4. d \in ran BY <4>3 DEF StoryInv, DecisionInv
      <4>5. PICK q \in Visible(d), a \in open[d] :
              q.seq < a.seq /\ IsRequest(q, ActionOf[d]) /\ IsDecision(a, d, effect[d])
        BY <4>3 DEF StoryInv, DecisionInv, Decided
      <4>6. effect[d] = "allow" BY <4>3 DEF StoryInv, DecisionInv, Decided
      <4>7. a \in Visible(d) /\ a.seq < o.seq BY <4>2, <4>3, <4>5, <1>7 DEF Visible
      <4>8. Told(o, Visible(d)')
        BY <4>3, <4>5, <4>6, <4>7, <1>6 DEF Told
      <4> QED BY <3>2, <4>1, <4>2, <4>3, <4>4, <4>8, <1>4, <1>5
    <3> QED BY <3>1, <3>2
  <2>2. \A o \in stream : IsOutcome(o) =>
          /\ [act |-> o.event.act, mark |-> "claimed"] \in audit
          /\ Told(o, stream)
          /\ \A p \in stream : IsOutcome(p) /\ p.event.act = o.event.act => p = o
    BY DEF StoryInv, OutcomeInv
  <2> QED BY <2>1, <2>2, <1>1 DEF OutcomeInv, Told, IsOutcome, IsRequest, IsDecision
<1> QED BY <1>9, <1>10, <1>11 DEF StoryInv

\* The commit adds rows of one delivery behind the stream; its outcome is the first
\* of the action, since the claim it commits was not there before.
LEMMA CommitTells ==
  ASSUME IInv, StoryInv, NEW d \in Deliveries, Commit(d)
  PROVE  StoryInv'
<1>1. /\ pc[d] = "commit" /\ pc' = [pc EXCEPT ![d] = "answered"]
      /\ stream' = Visible(d) /\ open' = [open EXCEPT ![d] = {}]
      /\ audit' = audit \cup mine[d] /\ UNCHANGED <<effect, ran>>
  BY DEF Commit, tx, Visible
<1>2. open[d] # {} BY <1>1 DEF IInv, HoldInv, Decided
<1>3. \A e \in Deliveries : open'[e] = {} BY <1>1, <1>2 DEF IInv, StreamIsSerial, TypeOK
<1>4. \A e \in Deliveries : Visible(e)' = Visible(d) BY <1>1, <1>3 DEF Visible
<1>5. pc'[d] = "answered" /\ \A e \in Deliveries \ {d} : pc'[e] = pc[e] /\ open[e] = {}
  BY <1>1, <1>2 DEF IInv, StreamIsSerial, TypeOK
<1>6. NumberInv' BY <1>1, <1>4 DEF StoryInv, NumberInv
<1>7. DecisionInv'
  <2> SUFFICES ASSUME NEW e \in Deliveries
               PROVE  /\ pc'[e] \in {"decide", "decided"} => \E q \in Visible(d) : IsRequest(q, ActionOf[e])
                      /\ pc'[e] \notin Decided /\ pc'[e] # "outcome"
                      /\ pc'[e] = "answered" => \E a \in Visible(d) : IsDecision(a, e, effect[e])
    BY <1>1, <1>4 DEF DecisionInv, IsRequest, IsDecision
  <2>1. CASE e = d
    <3>1. \E a \in open[d] : IsDecision(a, d, effect[d])
      BY <1>1 DEF StoryInv, DecisionInv, Decided
    <3> QED BY <2>1, <3>1, <1>5 DEF Visible, Decided
  <2>2. CASE e # d
    <3>1. pc'[e] = pc[e] /\ Visible(e) = stream BY <2>2, <1>5 DEF Visible
    <3>2. pc[e] \notin Decided BY <2>2, <1>5 DEF IInv, HoldInv
    <3>3. pc[e] # "outcome" BY <3>2 DEF Decided
    <3>4. /\ pc[e] \in {"decide", "decided"} => \E q \in stream : IsRequest(q, ActionOf[e])
          /\ pc[e] = "answered" => \E a \in stream : IsDecision(a, e, effect[e])
      BY <3>1 DEF StoryInv, DecisionInv
    <3> QED BY <3>1, <3>2, <3>3, <3>4 DEF Visible
  <2> QED BY <2>1, <2>2
<1>8. OutcomeInv'
  <2>1. \A o \in stream, p \in open[d] : IsOutcome(o) /\ IsOutcome(p) => o.event.act # p.event.act
    BY DEF StoryInv, OutcomeInv, IInv, ClaimInv
  <2>2. ASSUME NEW o \in Visible(d), IsOutcome(o)
        PROVE  /\ [act |-> o.event.act, mark |-> "claimed"] \in audit \cup mine[d]
               /\ Told(o, Visible(d))
               /\ \A p \in Visible(d) : IsOutcome(p) /\ p.event.act = o.event.act => p = o
    <3>1. CASE o \in stream
      <4>1. /\ [act |-> o.event.act, mark |-> "claimed"] \in audit /\ Told(o, stream)
            /\ \A p \in stream : IsOutcome(p) /\ p.event.act = o.event.act => p = o
        BY <2>2, <3>1 DEF StoryInv, OutcomeInv
      <4>2. Told(o, Visible(d)) BY <4>1 DEF Told, Visible
      <4> QED BY <2>1, <2>2, <3>1, <4>1, <4>2 DEF Visible
    <3>2. CASE o \in open[d]
      <4>1. /\ o.event.act = ActionOf[d] /\ d \in ran /\ Told(o, Visible(d))
            /\ \A p \in open[d] : IsOutcome(p) => p = o
        BY <2>2, <3>2 DEF StoryInv, OutcomeInv
      <4>2. [act |-> ActionOf[d], mark |-> "claimed"] \in mine[d]
        BY <4>1, <1>1 DEF IInv, ClaimInv
      <4> QED BY <2>1, <2>2, <3>2, <4>1, <4>2 DEF Visible
    <3> QED BY <3>1, <3>2 DEF Visible
  <2> QED BY <2>2, <1>1, <1>3 DEF OutcomeInv, Told, IsOutcome, IsRequest, IsDecision
<1> QED BY <1>6, <1>7, <1>8 DEF StoryInv

\* Numbers that fill 1..n, each once, count the rows.
LEMMA FillsCounts ==
  ASSUME NEW S, NEW n \in Nat, \A r \in S : r.seq \in Nat, Fills(S, 1, n),
         \A r, z \in S : r.seq = z.seq => r = z
  PROVE  {r.seq : r \in S} = 1 .. Cardinality(S)
<1> DEFINE f == [k \in 1..n |-> CHOOSE r \in S : r.seq = k]
<1>1. \A k \in 1..n : f[k] \in S /\ f[k].seq = k BY DEF Fills
<1>2. \A r \in S : r.seq \in 1..n /\ f[r.seq] = r BY <1>1 DEF Fills
<1>3. f \in [1..n -> S] BY <1>1
<1>4. f \in Injection(1..n, S) BY <1>1, <1>3 DEF Injection, IsInjective
<1>5. f \in Surjection(1..n, S) BY <1>2, <1>3 DEF Surjection
<1>6. ExistsBijection(1..n, S) BY <1>4, <1>5 DEF ExistsBijection, Bijection
<1>7. Cardinality(S) = n BY <1>6, FS_CountingElements
<1>8. \A k \in 1..n : \E r \in S : r.seq = k BY <1>1
<1>9. \A r \in S : r.seq \in 1..n BY <1>2
<1>10. {r.seq : r \in S} = 1..n
  <2> HIDE DEF f
  <2> DEFINE T == {r.seq : r \in S}
  <2>1. T \subseteq 1..n BY <1>9
  <2>2. 1..n \subseteq T BY <1>8
  <2> QED BY <2>1, <2>2
<1> QED BY <1>7, <1>10

\* The committed stream numbers its events without a gap and tells every outcome
\* after its request and its allow, once; no answered delivery is missing from it.
THEOREM TheStreamTells == Spec => []StreamTellsTheStory
<1>1. IInv /\ StoryInv /\ [Next]_vars => StoryInv'
  <2> SUFFICES ASSUME IInv, StoryInv, [Next]_vars PROVE StoryInv' OBVIOUS
  <2>1. CASE Settle \/ UNCHANGED vars
    <3>1. UNCHANGED <<pc, effect, stream, open, audit, ran>> BY <2>1 DEF Settle, tx, vars
    <3> QED BY <3>1 DEF StoryInv, NumberInv, DecisionInv, OutcomeInv, Visible, Told, IsOutcome,
                        IsRequest, IsDecision
  <2>2. ASSUME NEW d \in Deliveries, Proxy(d) \/ Crash(d) PROVE StoryInv'
    BY <2>2, ReadsTell, RollbackTells, InsertTells, CommitTells DEF Proxy, Emit
  <2> QED BY <2>1, <2>2 DEF Next
<1>2. IInv /\ StoryInv => StreamTellsTheStory
  <2> SUFFICES ASSUME IInv, StoryInv PROVE StreamTellsTheStory OBVIOUS
  <2>1. PICK n \in Nat : Fills(stream, 1, n) BY DEF IInv, FillInv, Filled
  <2>2. \A r \in stream : r.seq \in Nat BY DEF IInv, TypeOK, RowType
  <2>3. {r.seq : r \in stream} = 1 .. Cardinality(stream)
    BY <2>1, <2>2, FillsCounts DEF StoryInv, NumberInv
  <2>4. \A o \in stream : IsOutcome(o) =>
          Told(o, stream) /\ \A p \in stream : IsOutcome(p) /\ p.event.act = o.event.act => p = o
    BY DEF StoryInv, OutcomeInv
  <2>5. \A d \in Deliveries : pc[d] = "answered" => \E a \in stream : IsDecision(a, d, effect[d])
    BY DEF StoryInv, DecisionInv
  <2> QED BY <2>3, <2>4, <2>5 DEF StreamTellsTheStory, Told, IsOutcome, IsRequest, IsDecision
<1> QED BY <1>1, <1>2, StoryInit, DeliveryInvariance, PTL DEF Spec
===============================================================================
