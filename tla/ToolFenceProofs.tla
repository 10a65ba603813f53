--------------------------- MODULE ToolFenceProofs ---------------------------
(***************************************************************************)
(* Proofs about ToolFence for every set of Attempts, actions and           *)
(* deliveries, either store, and any number of restarts.                   *)
(*                                                                         *)
(* The inductive invariant ties three things together: the claim row, the  *)
(* one delivery that may act on it (its holder), and the executor starts.  *)
(***************************************************************************)
EXTENDS ToolFence, TLAPS

\* A delivery that won the claim and has not returned.
Holding == {"exec", "stamp_outcome", "complete"}
Holder(d) == pc[d] \in Holding
\* A delivery before, and one after, its policy_decided row.
Undecided == {"idle", "stamp_decision", "append"}
Passed == {"lookup", "stamp_claim", "claim", "relook"} \cup Holding

\* An unclaimed action has neither run nor settled, and nobody acts on it.
ClaimInv ==
  \A x \in Actions : claim[x] = "none" =>
    /\ outcome[x] = NoRow /\ runs[x] = 0
    /\ \A d \in Deliveries : ActionOf[d] = x => ~Holder(d)

\* One holder for an action; it finds no terminal row and knows whether it ran.
HolderInv ==
  /\ \A d, e \in Deliveries : Holder(d) /\ Holder(e) /\ ActionOf[d] = ActionOf[e] => d = e
  /\ \A d \in Deliveries : Holder(d) =>
       /\ outcome[ActionOf[d]] = NoRow
       /\ pc[d] = "exec" => runs[ActionOf[d]] = 0
       /\ pc[d] # "exec" => runs[ActionOf[d]] = 1 /\ got[d] \in Statuses

\* A delivery that lost the claim: somebody has it, for good.
LostInv == \A d \in Deliveries : pc[d] = "relook" => claim[ActionOf[d]] # "none"

RowInv == \A x \in Actions : outcome[x] # NoRow => outcome[x].status \in Statuses

\* A stamp in hand is no fresher than the record, and no staler than the claim.
StampInv ==
  \A d \in Deliveries :
    /\ pc[d] \in Inside /\ stamp[d] = "live" => mode[AttemptOf[ActionOf[d]]] = "live"
    /\ pc[d] = "complete" /\ claim[ActionOf[d]] = "live" => stamp[d] = "live"
    /\ pc[d] = "idle" => stamp[d] = "none"
    /\ pc[d] \in {"append", "claim", "complete"} => stamp[d] \in EvidenceModes

\* A delivery past its decision was allowed, on record.
DecisionInv ==
  \A d \in Deliveries :
    /\ pc[d] \in Undecided => decided[d] = NoRow
    /\ pc[d] \in {"stamp_decision", "append"} => effect[d] \in {"allow", "deny"}
    /\ pc[d] \in Passed => decided[d].status = "allow"

FenceInv == ClaimInv /\ HolderInv /\ RowInv /\ RunsOnce
IInv == /\ TypeOK /\ FenceInv /\ LostInv /\ StampInv /\ StampsMoveForward
        /\ DecisionInv /\ RunsAreDecided

USE OwnerAssumption, RequestAssumption, CrashAssumption
USE DEF EvidenceModes, Statuses, NoRow, Inside, Asked, Holder, Holding, Undecided, Passed,
        rows, local

-----------------------------------------------------------------------------
\* What Execute returns is an answer: replayed, a Result, or one of the three the
\* code spells out.
LEMMA AnswerTypes ==
  ASSUME IInv, NEW d \in Deliveries
  PROVE  /\ NoAnswer \in Answers /\ Answer("denied", "denied") \in Answers
         /\ Answer("failed", "failed") \in Answers /\ Answer("none", "store") \in Answers
         /\ Replay(Asked(d)) \in Answers
         /\ Result(d, TRUE) \in Answers /\ Result(d, FALSE) \in Answers
<1>1. outcome[ActionOf[d]].status \in {"none"} \cup Statuses /\ got[d] \in {"none"} \cup Statuses
  BY DEF IInv, TypeOK
<1> QED BY <1>1 DEF Answers, NoAnswer, Answer, Replay, Result

\* Returning an answer keeps the types of the position and of the answers.
LEMMA ReturnType ==
  ASSUME IInv, NEW d \in Deliveries, NEW a \in Answers, Return(d, a)
  PROVE  /\ pc' \in [Deliveries -> {"idle", "done", "lost"} \cup Inside]
         /\ answer' \in [Deliveries -> Answers]
BY DEF Return, IInv, TypeOK

-----------------------------------------------------------------------------
\* The initial states satisfy the invariant, the rows of an older file included
\* (OpenSQLiteStore, NewMemoryStore, migrateLegacyOutcomes).
LEMMA InitInv == Init => IInv
<1> SUFFICES ASSUME Init PROVE IInv OBVIOUS
<1> USE DEF Init, MigrateLegacyOutcomes, Row
<1>0. NoAnswer \in Answers BY DEF NoAnswer, Answers
<1>1. TypeOK BY <1>0 DEF TypeOK
<1>2. FenceInv BY DEF FenceInv, ClaimInv, HolderInv, RowInv, RunsOnce
<1>3. LostInv BY DEF LostInv
<1>4. StampInv /\ StampsMoveForward BY DEF StampInv, StampsMoveForward
<1>5. DecisionInv /\ RunsAreDecided BY DEF DecisionInv, RunsAreDecided
<1> QED BY <1>1, <1>2, <1>3, <1>4, <1>5 DEF IInv

\* The checks before the fence preserves the invariant.
LEMMA DecideStep == ASSUME IInv, NEW d \in Deliveries, Decide(d) PROVE IInv'
<1> USE DEF Decide, Step
<1>1. TypeOK' BY DEF IInv, TypeOK
<1>2. \A e \in Deliveries : Holder(e)' => Holder(e)
  BY DEF IInv, TypeOK
<1>3. FenceInv'
  <2>1. ClaimInv' BY <1>1, <1>2 DEF IInv, FenceInv, TypeOK, ClaimInv
  <2>2. HolderInv' BY <1>1, <1>2 DEF IInv, FenceInv, TypeOK, ClaimInv, HolderInv
  <2>3. RowInv' /\ RunsOnce' BY DEF IInv, FenceInv, TypeOK, RowInv, HolderInv, RunsOnce
  <2> QED BY <2>1, <2>2, <2>3 DEF FenceInv
<1>4. LostInv' BY <1>1, <1>2 DEF IInv, FenceInv, TypeOK, ClaimInv, HolderInv, RowInv, LostInv
<1>5. StampInv' /\ StampsMoveForward'
  BY DEF IInv, FenceInv, TypeOK, ClaimInv, HolderInv, StampInv, StampsMoveForward
<1>6. DecisionInv' /\ RunsAreDecided' BY DEF IInv, TypeOK, DecisionInv, RunsAreDecided
<1> QED BY <1>1, <1>3, <1>4, <1>5, <1>6 DEF IInv

\* Reading the mode (Proxy.stamp) preserves the invariant.
LEMMA StampStep == ASSUME IInv, NEW d \in Deliveries, Stamp(d) PROVE IInv'
<1> USE DEF Stamp, StampSite, StampEvidenceMode
<1>1. TypeOK' BY DEF IInv, TypeOK
<1>2. \A e \in Deliveries : Holder(e)' => Holder(e)
  BY DEF IInv, TypeOK
<1>3. FenceInv'
  <2>1. ClaimInv' BY <1>1, <1>2 DEF IInv, FenceInv, TypeOK, ClaimInv
  <2>2. HolderInv' BY <1>1, <1>2 DEF IInv, FenceInv, TypeOK, ClaimInv, HolderInv
  <2>3. RowInv' /\ RunsOnce' BY DEF IInv, FenceInv, TypeOK, RowInv, HolderInv, RunsOnce
  <2> QED BY <2>1, <2>2, <2>3 DEF FenceInv
<1>4. LostInv' BY <1>1, <1>2 DEF IInv, FenceInv, TypeOK, ClaimInv, HolderInv, RowInv, LostInv
<1>5. StampInv' /\ StampsMoveForward'
  BY DEF IInv, FenceInv, TypeOK, ClaimInv, HolderInv, StampInv, StampsMoveForward
<1>6. DecisionInv' /\ RunsAreDecided' BY DEF IInv, TypeOK, DecisionInv, RunsAreDecided
<1> QED BY <1>1, <1>3, <1>4, <1>5, <1>6 DEF IInv

\* Appending the decision preserves the invariant.
LEMMA AppendDecisionStep == ASSUME IInv, NEW d \in Deliveries, AppendDecision(d) PROVE IInv'
<1> USE DEF AppendDecision, PolicyRow, Row, Return
<1>1. TypeOK'
  <2>1. decided'[d] = [status |-> effect[d], mode |-> stamp[d]] BY DEF IInv, TypeOK
  <2>2. pc' \in [Deliveries -> {"idle", "done", "lost"} \cup Inside]
    <3>1. \E l \in {"done", "lookup"} : pc' = [pc EXCEPT ![d] = l] OBVIOUS
    <3> QED BY <3>1 DEF IInv, TypeOK
  <2>3. answer' \in [Deliveries -> Answers]
    <3>1. answer' = answer \/ answer' = [answer EXCEPT ![d] = Answer("denied", "denied")] OBVIOUS
    <3> QED BY <3>1, AnswerTypes DEF IInv, TypeOK
  <2> QED BY <2>1, <2>2, <2>3 DEF IInv, TypeOK
<1>2. \A e \in Deliveries : Holder(e)' => Holder(e)
  BY DEF IInv, TypeOK
<1>3. FenceInv'
  <2>1. ClaimInv' BY <1>1, <1>2 DEF IInv, FenceInv, TypeOK, ClaimInv
  <2>2. HolderInv' BY <1>1, <1>2 DEF IInv, FenceInv, TypeOK, ClaimInv, HolderInv
  <2>3. RowInv' /\ RunsOnce' BY DEF IInv, FenceInv, TypeOK, RowInv, HolderInv, RunsOnce
  <2> QED BY <2>1, <2>2, <2>3 DEF FenceInv
<1>4. LostInv' BY <1>1, <1>2 DEF IInv, FenceInv, TypeOK, ClaimInv, HolderInv, RowInv, LostInv
<1>5. StampInv' /\ StampsMoveForward'
  BY DEF IInv, FenceInv, TypeOK, ClaimInv, HolderInv, StampInv, StampsMoveForward
<1>6. DecisionInv' /\ RunsAreDecided' BY DEF IInv, TypeOK, DecisionInv, RunsAreDecided
<1> QED BY <1>1, <1>3, <1>4, <1>5, <1>6 DEF IInv

\* Looking up a terminal row preserves the invariant.
LEMMA LookupStep == ASSUME IInv, NEW d \in Deliveries, Lookup(d) PROVE IInv'
<1> USE DEF Lookup, Return
<1>1. TypeOK'
  <2>1. pc' \in [Deliveries -> {"idle", "done", "lost"} \cup Inside]
    <3>1. \E l \in {"done", "stamp_claim"} : pc' = [pc EXCEPT ![d] = l] OBVIOUS
    <3> QED BY <3>1 DEF IInv, TypeOK
  <2>2. answer' \in [Deliveries -> Answers]
    <3>1. answer' = answer \/ answer' = [answer EXCEPT ![d] = Replay(Asked(d))] OBVIOUS
    <3>2. Replay(Asked(d)) \in Answers /\ answer \in [Deliveries -> Answers]
      BY AnswerTypes DEF IInv, TypeOK
    <3> HIDE DEF Lookup, Return, Asked
    <3> QED BY <3>1, <3>2
  <2> QED BY <2>1, <2>2 DEF IInv, TypeOK
<1>2. \A e \in Deliveries : Holder(e)' => Holder(e)
  BY DEF IInv, TypeOK
<1>3. FenceInv'
  <2>1. ClaimInv' BY <1>1, <1>2 DEF IInv, FenceInv, TypeOK, ClaimInv
  <2>2. HolderInv' BY <1>1, <1>2 DEF IInv, FenceInv, TypeOK, ClaimInv, HolderInv
  <2>3. RowInv' /\ RunsOnce' BY DEF IInv, FenceInv, TypeOK, RowInv, HolderInv, RunsOnce
  <2> QED BY <2>1, <2>2, <2>3 DEF FenceInv
<1>4. LostInv' BY <1>1, <1>2 DEF IInv, FenceInv, TypeOK, ClaimInv, HolderInv, RowInv, LostInv
<1>5. StampInv' /\ StampsMoveForward'
  BY DEF IInv, FenceInv, TypeOK, ClaimInv, HolderInv, StampInv, StampsMoveForward
<1>6. DecisionInv' /\ RunsAreDecided' BY DEF IInv, TypeOK, DecisionInv, RunsAreDecided
<1> QED BY <1>1, <1>3, <1>4, <1>5, <1>6 DEF IInv

\* Claiming preserves the invariant.
LEMMA ClaimStep == ASSUME IInv, NEW d \in Deliveries, Claim(d) PROVE IInv'
<1> USE DEF Claim, Taken
<1>1. TypeOK'
  <2>1. pc' \in [Deliveries -> {"idle", "done", "lost"} \cup Inside]
    <3>1. \E l \in {"exec", "relook"} : pc' = [pc EXCEPT ![d] = l] OBVIOUS
    <3> QED BY <3>1 DEF IInv, TypeOK
  <2>2. claim' \in [Actions -> {"none"} \cup EvidenceModes]
    <3>1. claim' = claim \/ claim' = [claim EXCEPT ![ActionOf[d]] = stamp[d]] OBVIOUS
    <3>2. stamp[d] \in {"none"} \cup EvidenceModes /\ claim \in [Actions -> {"none"} \cup EvidenceModes]
      BY DEF IInv, TypeOK
    <3> HIDE DEF Claim, Taken
    <3> QED BY <3>1, <3>2
  <2> QED BY <2>1, <2>2 DEF IInv, TypeOK
<1>2. claim'[ActionOf[d]] # "none" /\ \A e \in Deliveries : e # d => pc'[e] = pc[e]
  BY DEF IInv, TypeOK, FenceInv, ClaimInv, StampInv
<1>3. FenceInv'
  <2>1. ClaimInv' BY <1>1, <1>2 DEF IInv, FenceInv, TypeOK, ClaimInv
  <2>2. HolderInv'
    <3>1. CASE Taken(ActionOf[d])
      <4>1. \A e \in Deliveries : Holder(e)' => Holder(e) BY <3>1 DEF IInv, TypeOK
      <4> QED BY <3>1, <4>1 DEF IInv, FenceInv, TypeOK, HolderInv
    <3>2. CASE ~Taken(ActionOf[d])
      <4>1. \A e \in Deliveries : e # d => pc'[e] = pc[e] BY <1>2
      <4>2. outcome[ActionOf[d]] = NoRow /\ runs[ActionOf[d]] = 0
        BY <3>2 DEF IInv, FenceInv, TypeOK, ClaimInv
      <4>3. \A e \in Deliveries : ActionOf[e] = ActionOf[d] => ~Holder(e)
        BY <3>2 DEF IInv, FenceInv, TypeOK, ClaimInv
      <4>4. pc'[d] = "exec" BY <3>2 DEF IInv, TypeOK
      <4>5. outcome' = outcome /\ runs' = runs /\ got' = got OBVIOUS
      <4> HIDE DEF Claim, Taken
      <4> QED BY <4>1, <4>2, <4>3, <4>4, <4>5 DEF IInv, FenceInv, HolderInv
    <3> QED BY <3>1, <3>2
  <2>3. RowInv' /\ RunsOnce' BY DEF IInv, FenceInv, TypeOK, RowInv, HolderInv, RunsOnce
  <2> QED BY <2>1, <2>2, <2>3 DEF FenceInv
<1>4. LostInv' BY <1>1, <1>2 DEF IInv, FenceInv, TypeOK, ClaimInv, HolderInv, RowInv, LostInv
<1>5. StampInv' /\ StampsMoveForward'
  BY DEF IInv, FenceInv, TypeOK, ClaimInv, HolderInv, StampInv, StampsMoveForward
<1>6. DecisionInv' /\ RunsAreDecided' BY DEF IInv, TypeOK, DecisionInv, RunsAreDecided
<1> QED BY <1>1, <1>3, <1>4, <1>5, <1>6 DEF IInv

\* Looking again after a lost claim preserves the invariant.
LEMMA RelookStep == ASSUME IInv, NEW d \in Deliveries, Relook(d) PROVE IInv'
<1>1. TypeOK'
  <2>1. PICK a \in Answers : Return(d, a) BY AnswerTypes DEF Relook
  <2> QED BY <2>1, ReturnType DEF Relook, IInv, TypeOK
<1> USE DEF Relook, Return
<1>2. \A e \in Deliveries : Holder(e)' => Holder(e)
  BY DEF IInv, TypeOK
<1>3. FenceInv'
  <2>1. ClaimInv' BY <1>1, <1>2 DEF IInv, FenceInv, TypeOK, ClaimInv
  <2>2. HolderInv' BY <1>1, <1>2 DEF IInv, FenceInv, TypeOK, ClaimInv, HolderInv
  <2>3. RowInv' /\ RunsOnce' BY DEF IInv, FenceInv, TypeOK, RowInv, HolderInv, RunsOnce
  <2> QED BY <2>1, <2>2, <2>3 DEF FenceInv
<1>4. LostInv' BY <1>1, <1>2 DEF IInv, FenceInv, TypeOK, ClaimInv, HolderInv, RowInv, LostInv
<1>5. StampInv' /\ StampsMoveForward'
  BY DEF IInv, FenceInv, TypeOK, ClaimInv, HolderInv, StampInv, StampsMoveForward
<1>6. DecisionInv' /\ RunsAreDecided' BY DEF IInv, TypeOK, DecisionInv, RunsAreDecided
<1> QED BY <1>1, <1>3, <1>4, <1>5, <1>6 DEF IInv

\* Running the executor preserves the invariant.
LEMMA ExecuteStep == ASSUME IInv, NEW d \in Deliveries, Execute(d) PROVE IInv'
<1> USE DEF Execute, Step
<1>1. TypeOK' BY DEF IInv, TypeOK
<1>2. \A e \in Deliveries : Holder(e)' => Holder(e)
  BY DEF IInv, TypeOK
<1>3. FenceInv'
  <2>1. ClaimInv' BY <1>1, <1>2 DEF IInv, FenceInv, TypeOK, ClaimInv
  <2>2. HolderInv' BY <1>1, <1>2 DEF IInv, FenceInv, TypeOK, ClaimInv, HolderInv
  <2>3. RowInv' /\ RunsOnce' BY DEF IInv, FenceInv, TypeOK, RowInv, HolderInv, RunsOnce
  <2> QED BY <2>1, <2>2, <2>3 DEF FenceInv
<1>4. LostInv' BY <1>1, <1>2 DEF IInv, FenceInv, TypeOK, ClaimInv, HolderInv, RowInv, LostInv
<1>5. StampInv' /\ StampsMoveForward'
  BY DEF IInv, FenceInv, TypeOK, ClaimInv, HolderInv, StampInv, StampsMoveForward
<1>6. DecisionInv' /\ RunsAreDecided' BY DEF IInv, TypeOK, DecisionInv, RunsAreDecided
<1> QED BY <1>1, <1>3, <1>4, <1>5, <1>6 DEF IInv

\* Completing preserves the invariant.
LEMMA CompleteStep == ASSUME IInv, NEW d \in Deliveries, Complete(d) PROVE IInv'
<1>1. TypeOK'
  <2>1. PICK a \in Answers : Return(d, a)
    <3>1. Complete(d) => \E a \in {Result(d, TRUE), Result(d, FALSE)} : Return(d, a)
      BY DEF Complete, Result
    <3> QED BY <3>1, AnswerTypes
  <2>2. outcome' \in [Actions -> [status : {"none"} \cup Statuses, mode : {"none"} \cup EvidenceModes]]
    BY DEF Complete, Row, IInv, TypeOK
  <2> QED BY <2>1, <2>2, ReturnType DEF Complete, IInv, TypeOK
<1> USE DEF Complete, Completes, Row, Return
<1>2. \A e \in Deliveries : Holder(e)' => Holder(e)
  BY DEF IInv, TypeOK
<1>3. FenceInv'
  <2>1. ClaimInv' BY <1>1, <1>2 DEF IInv, FenceInv, TypeOK, ClaimInv
  <2>2. HolderInv' BY <1>1, <1>2 DEF IInv, FenceInv, TypeOK, ClaimInv, HolderInv
  <2>3. RowInv' /\ RunsOnce' BY DEF IInv, FenceInv, TypeOK, RowInv, HolderInv, RunsOnce
  <2> QED BY <2>1, <2>2, <2>3 DEF FenceInv
<1>4. LostInv' BY <1>1, <1>2 DEF IInv, FenceInv, TypeOK, ClaimInv, HolderInv, RowInv, LostInv
<1>5. StampInv' /\ StampsMoveForward'
  BY DEF IInv, FenceInv, TypeOK, ClaimInv, HolderInv, StampInv, StampsMoveForward
<1>6. DecisionInv' /\ RunsAreDecided' BY DEF IInv, TypeOK, DecisionInv, RunsAreDecided
<1> QED BY <1>1, <1>3, <1>4, <1>5, <1>6 DEF IInv

\* An error of the store preserves the invariant.
LEMMA StoreErrorStep == ASSUME IInv, NEW d \in Deliveries, StoreError(d) PROVE IInv'
<1>1. TypeOK'
  <2>1. PICK a \in Answers : Return(d, a) BY AnswerTypes DEF StoreError
  <2> QED BY <2>1, ReturnType DEF StoreError, IInv, TypeOK
<1> USE DEF StoreError, Return
<1>2. \A e \in Deliveries : Holder(e)' => Holder(e)
  BY DEF IInv, TypeOK
<1>3. FenceInv'
  <2>1. ClaimInv' BY <1>1, <1>2 DEF IInv, FenceInv, TypeOK, ClaimInv
  <2>2. HolderInv' BY <1>1, <1>2 DEF IInv, FenceInv, TypeOK, ClaimInv, HolderInv
  <2>3. RowInv' /\ RunsOnce' BY DEF IInv, FenceInv, TypeOK, RowInv, HolderInv, RunsOnce
  <2> QED BY <2>1, <2>2, <2>3 DEF FenceInv
<1>4. LostInv' BY <1>1, <1>2 DEF IInv, FenceInv, TypeOK, ClaimInv, HolderInv, RowInv, LostInv
<1>5. StampInv' /\ StampsMoveForward'
  BY DEF IInv, FenceInv, TypeOK, ClaimInv, HolderInv, StampInv, StampsMoveForward
<1>6. DecisionInv' /\ RunsAreDecided' BY DEF IInv, TypeOK, DecisionInv, RunsAreDecided
<1> QED BY <1>1, <1>3, <1>4, <1>5, <1>6 DEF IInv

\* What the orchestrator does to an Attempt's record and scope preserves the
\* invariant: only a live record is ever relied on, and it is not forgotten.
LEMMA RecordStep == ASSUME IInv, NEW t \in Attempts, Record(t) PROVE IInv'
<1> USE DEF Record, EnsureAttempt, PromoteAttempt, ForgetSyntheticAttempt, Forgettable,
            RegisterScope, DropScope
<1>1. TypeOK' BY DEF IInv, TypeOK
<1>2. FenceInv' BY DEF IInv, FenceInv, ClaimInv, HolderInv, RowInv, RunsOnce
<1>3. LostInv' BY DEF IInv, LostInv
<1>4. StampInv' /\ StampsMoveForward' BY DEF IInv, TypeOK, StampInv, StampsMoveForward
<1>5. DecisionInv' /\ RunsAreDecided' BY DEF IInv, DecisionInv, RunsAreDecided
<1> QED BY <1>1, <1>2, <1>3, <1>4, <1>5 DEF IInv

\* A restart preserves the invariant: a file keeps all rows and no delivery goes
\* on, a MemoryStore is as in the beginning.
LEMMA RestartStep == ASSUME IInv, Restart PROVE IInv'
<1> USE DEF Restart
<1>0. NoAnswer \in Answers BY DEF NoAnswer, Answers
<1>1. TypeOK' BY <1>0 DEF IInv, TypeOK
<1>2. \A d \in Deliveries : pc'[d] \notin Inside /\ (pc'[d] \in Undecided => pc[d] \in Undecided)
  BY DEF IInv, TypeOK
<1>3. FenceInv' BY <1>2 DEF IInv, FenceInv, TypeOK, ClaimInv, HolderInv, RowInv, RunsOnce
<1>4. LostInv' BY <1>2 DEF IInv, TypeOK, LostInv
<1>5. StampInv' /\ StampsMoveForward' BY <1>2 DEF IInv, TypeOK, StampInv, StampsMoveForward
<1>6. DecisionInv' /\ RunsAreDecided' BY <1>2 DEF IInv, TypeOK, DecisionInv, RunsAreDecided
<1> QED BY <1>1, <1>3, <1>4, <1>5, <1>6 DEF IInv

\* Every step preserves the invariant.
LEMMA NextInv == IInv /\ [Next]_vars => IInv'
<1> SUFFICES ASSUME IInv, [Next]_vars PROVE IInv' OBVIOUS
<1>1. ASSUME NEW d \in Deliveries, Deliver(d) PROVE IInv'
  BY <1>1, DecideStep, StampStep, AppendDecisionStep, LookupStep, ClaimStep, RelookStep,
     ExecuteStep, CompleteStep, StoreErrorStep DEF Deliver
<1>2. ASSUME NEW t \in Attempts, Record(t) PROVE IInv' BY <1>2, RecordStep
<1>3. CASE Restart BY <1>3, RestartStep
<1>4. CASE UNCHANGED vars
  BY <1>4 DEF vars, IInv, TypeOK, FenceInv, ClaimInv, HolderInv, RowInv, RunsOnce, LostInv,
              StampInv, StampsMoveForward, DecisionInv, RunsAreDecided
<1> QED BY <1>1, <1>2, <1>3, <1>4 DEF Next

-----------------------------------------------------------------------------
\* The inductive invariant holds in every reachable state of the Go Tool Proxy.
THEOREM FenceInvariance == Spec => []IInv
<1> QED BY InitInv, NextInv, PTL DEF Spec

\* The executor is started at most once for every action (Proxy.Execute with
\* OutcomeStore.Claim), whatever is redelivered, fails or crashes.
THEOREM ExecutorRunsOnce == Spec => []RunsOnce
<1>1. IInv => RunsOnce BY DEF IInv, FenceInv
<1> QED BY <1>1, FenceInvariance, PTL

\* What a delivery is told follows the row of its action: the stored outcome once
\* there is one, executed without an error only of an executed row, and nothing of
\* an action that another delivery could still run (replay, the lost claim, Complete
\* and its error).
THEOREM AnswersAreTheRow == Spec => AnswersFollowTheRow
<1> DEFINE Told(d) == answer'[d] # answer[d] /\ answer'[d].status \in Statuses =>
                        /\ outcome'[Asked(d)] # NoRow => answer'[d].status = outcome'[Asked(d)].status
                        /\ answer'[d].err = "nil" => outcome'[Asked(d)].status = "executed"
                        /\ claim'[Asked(d)] # "none"
<1>1. ASSUME IInv, [Next]_vars, NEW d \in Deliveries PROVE Told(d)
  <2>a. /\ answer \in [Deliveries -> Answers] /\ ActionOf[d] \in Actions
        /\ outcome \in [Actions -> [status : {"none"} \cup Statuses, mode : {"none"} \cup EvidenceModes]]
    BY <1>1 DEF IInv, TypeOK
  <2>0. ASSUME answer'[d] = answer[d] PROVE Told(d)
    BY <2>0
  <2>1. ASSUME NEW e \in Deliveries, e # d, Deliver(e) PROVE Told(d)
    <3>1. answer' = answer \/ \E a : answer' = [answer EXCEPT ![e] = a]
      BY <2>1 DEF Deliver, Decide, Stamp, AppendDecision, Lookup, Claim, Relook, Execute, Complete,
                  StoreError, Return
    <3> QED BY <3>1, <2>a, <2>1, <2>0
  <2>2. CASE Lookup(d) \/ Relook(d)
    <3>1. CASE answer' = [answer EXCEPT ![d] = Replay(Asked(d))] /\ outcome[Asked(d)] # NoRow
      <4>1. /\ answer'[d].status = outcome[Asked(d)].status
            /\ answer'[d].err = "nil" => outcome[Asked(d)].status # "failed"
        BY <3>1, <2>a DEF Replay, Answer
      <4>2. claim[Asked(d)] # "none"
        BY <1>1, <3>1, <2>a DEF IInv, FenceInv, ClaimInv
      <4>3. outcome[Asked(d)].status \in Statuses
        BY <1>1, <3>1, <2>a DEF IInv, FenceInv, RowInv
      <4>4. UNCHANGED <<claim, outcome>> BY <2>2 DEF Lookup, Relook
      <4> QED BY <4>1, <4>2, <4>3, <4>4
    <3>2. CASE Relook(d) /\ answer' = [answer EXCEPT ![d] = Answer("failed", "failed")] /\ outcome[Asked(d)] = NoRow
      <4>1. answer'[d].err = "failed" BY <3>2, <2>a DEF Answer
      <4>2. claim[Asked(d)] # "none" BY <1>1, <3>2 DEF Relook, IInv, LostInv
      <4>3. UNCHANGED <<claim, outcome>> BY <3>2 DEF Relook
      <4> QED BY <4>1, <4>2, <4>3, <3>2
    <3>3. CASE answer' = answer BY <3>3, <2>0
    <3> QED BY <2>2, <3>1, <3>2, <3>3 DEF Lookup, Relook, Return
  <2>3. CASE Complete(d)
    <3>1. /\ outcome[Asked(d)] = NoRow /\ claim[Asked(d)] # "none" /\ got[d] \in Statuses
      BY <1>1, <2>3, <2>a DEF Complete, IInv, FenceInv, HolderInv, ClaimInv
    <3>2. /\ outcome' = [outcome EXCEPT ![Asked(d)] = Row(got[d], stamp[d])]
          /\ claim' = claim /\ answer' = [answer EXCEPT ![d] = Result(d, TRUE)]
      BY <2>3, <3>1 DEF Complete, Completes, Return, Result
    <3>3. outcome'[Asked(d)].status = got[d] BY <3>2, <2>a DEF Row
    <3>4. answer'[d].status = got[d] /\ (answer'[d].err = "nil" => got[d] # "failed")
      BY <3>2, <2>a DEF Result, Answer
    <3> QED BY <3>1, <3>2, <3>3, <3>4
  <2>4. CASE StoreError(d)
    <3>1. UNCHANGED <<claim, outcome>> BY <2>4 DEF StoreError
    <3>2. CASE pc[d] = "complete"
      <4>1. outcome[Asked(d)] = NoRow /\ claim[Asked(d)] # "none"
        BY <1>1, <3>2, <2>a DEF IInv, FenceInv, HolderInv, ClaimInv
      <4>2. answer'[d].err # "nil" BY <2>4, <3>2, <2>a DEF StoreError, Return, Result, Answer
      <4> QED BY <3>1, <4>1, <4>2
    <3>3. CASE pc[d] # "complete"
      <4>1. answer'[d].status = "none" BY <2>4, <3>3, <2>a DEF StoreError, Return, Answer
      <4> QED BY <4>1
    <3> QED BY <3>2, <3>3
  <2>5. CASE AppendDecision(d)
    <3>1. answer'[d] = answer[d] \/ answer'[d].status = "denied"
      BY <2>5, <2>a DEF AppendDecision, Return, Answer
    <3> QED BY <3>1, <2>0
  <2>6. CASE Restart
    <3>1. answer'[d] = answer[d] \/ answer'[d].status = "none"
      BY <2>6 DEF Restart, NoAnswer
    <3> QED BY <3>1, <2>0
  <2>7. ASSUME UNCHANGED answer PROVE Told(d)
    BY <2>7
  <2> QED
    BY <1>1, <2>1, <2>2, <2>3, <2>4, <2>5, <2>6, <2>7 DEF Next, Deliver, Decide, Stamp, Claim, Execute,
       Record, EnsureAttempt, PromoteAttempt, ForgetSyntheticAttempt, RegisterScope, DropScope, vars
<1>2. IInv /\ [Next]_vars => [\A d \in Deliveries : Told(d)]_vars
  BY <1>1
<1> QED BY <1>2, FenceInvariance, PTL DEF Spec, AnswersFollowTheRow

\* Evidence stamps move forward only (stamp, PromoteAttempt, ForgetSyntheticAttempt).
THEOREM StampsNeverRegress == Spec => []StampsMoveForward
<1>1. IInv => StampsMoveForward BY DEF IInv
<1> QED BY <1>1, FenceInvariance, PTL

\* No executor start without an allow decision on record (appendDecision before
\* the claim).
THEOREM DecidedBeforeRun == Spec => []RunsAreDecided
<1>1. IInv => RunsAreDecided BY DEF IInv
<1> QED BY <1>1, FenceInvariance, PTL

-----------------------------------------------------------------------------
\* The value of the ledger's state for an action.
StateOf(x) == IF outcome[x] # NoRow THEN outcome[x].status
              ELSE IF claim[x] # "none" THEN "taken" ELSE "open"

\* A step that leaves the store's claims, outcomes and runs alone is a stutter.
LEMMA LedgerStutter ==
  ASSUME UNCHANGED <<kind, claim, outcome, runs>> PROVE UNCHANGED Ledger!vars
BY DEF Ledger!vars

\* The initial rows are an initial ledger.
LEMMA LedgerInit == Init => Ledger!Init
<1> SUFFICES ASSUME Init PROVE Ledger!Init OBVIOUS
<1>1. \A x \in Actions : StateOf(x) \in {"open", "taken", "executed", "failed"}
  BY InitInv DEF IInv, TypeOK, FenceInv, RowInv, StateOf
<1> QED BY <1>1 DEF Ledger!Init, Init, StateOf

\* Every step of the proxy is a step of the ledger or leaves it alone.
LEMMA LedgerStep == IInv /\ [Next]_vars => [Ledger!Next]_(Ledger!vars)
<1> SUFFICES ASSUME IInv, [Next]_vars PROVE [Ledger!Next]_(Ledger!vars) OBVIOUS
<1>1. ASSUME NEW d \in Deliveries, Claim(d) PROVE [Ledger!Next]_(Ledger!vars)
  <2>1. CASE Taken(ActionOf[d]) BY <1>1, <2>1, LedgerStutter DEF Claim
  <2>2. CASE ~Taken(ActionOf[d])
    <3>1. /\ outcome[ActionOf[d]] = NoRow /\ claim[ActionOf[d]] = "none" /\ stamp[d] # "none"
          /\ claim' = [claim EXCEPT ![ActionOf[d]] = stamp[d]]
          /\ UNCHANGED <<kind, outcome, runs>>
      BY <1>1, <2>2 DEF Claim, Taken, IInv, StampInv
    <3>2. Ledger!Take(ActionOf[d]) BY <3>1 DEF Ledger!Take, IInv, TypeOK
    <3> QED BY <3>2 DEF Ledger!Next
  <2> QED BY <2>1, <2>2
<1>2. ASSUME NEW d \in Deliveries, Execute(d) PROVE [Ledger!Next]_(Ledger!vars)
  <2>1. /\ runs[ActionOf[d]] = 0 /\ outcome[ActionOf[d]] = NoRow /\ claim[ActionOf[d]] # "none"
        /\ runs' = [runs EXCEPT ![ActionOf[d]] = @ + 1] /\ UNCHANGED <<kind, claim, outcome>>
    BY <1>2 DEF Execute, Step, IInv, FenceInv, HolderInv, ClaimInv
  <2>2. Ledger!Run(ActionOf[d]) BY <2>1 DEF Ledger!Run, IInv, TypeOK
  <2> QED BY <2>2 DEF Ledger!Next
<1>3. ASSUME NEW d \in Deliveries, Complete(d) PROVE [Ledger!Next]_(Ledger!vars)
  <2>1. /\ runs[ActionOf[d]] = 1 /\ outcome[ActionOf[d]] = NoRow /\ claim[ActionOf[d]] # "none"
        /\ got[d] \in Statuses
        /\ UNCHANGED <<kind, claim, runs>>
    BY <1>3 DEF Complete, Return, IInv, FenceInv, HolderInv, ClaimInv
  <2>2. outcome' = [outcome EXCEPT ![ActionOf[d]] = [status |-> got[d], mode |-> stamp[d]]]
    BY <1>3, <2>1 DEF Complete, Completes, Row
  <2>3. ActionOf[d] \in Actions /\ outcome \in [Actions -> [status : {"none"} \cup Statuses, mode : {"none"} \cup EvidenceModes]]
    BY DEF IInv, TypeOK
  <2>4. outcome'[ActionOf[d]].status = got[d] /\ outcome'[ActionOf[d]] # NoRow BY <2>1, <2>2, <2>3
  <2>5. \A y \in Actions : StateOf(y)' = IF y = ActionOf[d] THEN got[d] ELSE StateOf(y)
    BY <2>1, <2>2, <2>3, <2>4 DEF StateOf
  <2>6. [y \in Actions |-> StateOf(y)]' = [[y \in Actions |-> StateOf(y)] EXCEPT ![ActionOf[d]] = got[d]]
    BY <2>3, <2>5
  <2>7. Ledger!Settle(ActionOf[d])
    <3>1. [y \in Actions |-> StateOf(y)][ActionOf[d]] = "taken" BY <2>1, <2>3 DEF StateOf
    <3>2. runs[ActionOf[d]] = 1 BY <2>1
    <3>3. \E s \in Statuses : [y \in Actions |-> StateOf(y)]' =
                               [[y \in Actions |-> StateOf(y)] EXCEPT ![ActionOf[d]] = s]
      BY <2>1, <2>6
    <3>4. UNCHANGED <<kind, runs>> BY <2>1
    <3> QED BY <3>1, <3>2, <3>3, <3>4, Zenon DEF Ledger!Settle, StateOf
  <2> QED BY <2>3, <2>7 DEF Ledger!Next
<1>4. ASSUME NEW d \in Deliveries,
             Decide(d) \/ Stamp(d) \/ AppendDecision(d) \/ Lookup(d) \/ Relook(d) \/ StoreError(d)
      PROVE [Ledger!Next]_(Ledger!vars)
  <2>1. UNCHANGED <<kind, claim, outcome, runs>>
    BY <1>4 DEF Decide, Stamp, AppendDecision, Lookup, Relook, StoreError
  <2> QED BY <2>1, LedgerStutter
<1>5. ASSUME NEW t \in Attempts, Record(t) PROVE [Ledger!Next]_(Ledger!vars)
  <2>1. UNCHANGED <<kind, claim, outcome, runs>>
    BY <1>5 DEF Record, EnsureAttempt, PromoteAttempt, ForgetSyntheticAttempt, RegisterScope, DropScope
  <2> QED BY <2>1, LedgerStutter
<1>6. CASE Restart
  <2>1. CASE kind = "sqlite" BY <1>6, <2>1, LedgerStutter DEF Restart
  <2>2. CASE kind # "sqlite"
    <3>1. /\ kind = "memory" /\ kind' = kind
          /\ claim' = [x \in Actions |-> "none"] /\ outcome' = [x \in Actions |-> NoRow]
          /\ runs' = [x \in Actions |-> 0]
      BY <1>6, <2>2 DEF Restart, IInv, TypeOK
    <3>2. Ledger!Lose BY <3>1 DEF Ledger!Lose
    <3> QED BY <3>2 DEF Ledger!Next
  <2> QED BY <2>1, <2>2
<1>7. CASE UNCHANGED vars BY <1>7, LedgerStutter DEF vars
<1> QED BY <1>1, <1>2, <1>3, <1>4, <1>5, <1>6, <1>7 DEF Next, Deliver

\* Proxy.Execute over either store implements the ledger of actions.
THEOREM FenceImplementsLedger == Spec => FenceIsLedger
<1> QED BY LedgerInit, LedgerStep, FenceInvariance, PTL DEF Spec, FenceIsLedger, Ledger!Spec
=============================================================================
