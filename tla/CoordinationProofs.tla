--------------------------- MODULE CoordinationProofs --------------------------
(***************************************************************************)
(* Proofs about the plan run of the coordinator (CoordinatorRun) for any    *)
(* number of workers, turns and rounds, and about the gate that its plan    *)
(* and its decisions pass (PlanGate) for any calls, tokens and names.       *)
(*                                                                         *)
(* The coordinator decides on what it read at the top of a poll; the        *)
(* invariant says why that is still good enough when it acts: a verdict is  *)
(* never taken back, and no material request appears between the gate and   *)
(* the end of the poll, for requests come in by the relay only.             *)
(***************************************************************************)
EXTENDS CoordinatorRun, PlanGate, TLAPS

\* The parts of the state that the proofs read.
Shape ==
  /\ task \in [Workers -> {"created", "running", "succeeded", "failed", "inconclusive"}]
  /\ attempt \in [Workers -> {"none", "running", "completed", "failed", "cancelled"}]
  /\ verdict \in [Workers -> {"none", "PASS", "FAIL"}]
  /\ rounds \in [Workers -> Nat]
  /\ request \in [Agents -> [Asking -> {"none", "pending", "resolved", "told"}]]
  /\ phase \in {"begin", "close"} \cup Loop \cup Over

Undecided == {a \in Agents : request[a]["material"] = "pending"}

\* A PASS stands for a Task that succeeded, and only a Task whose Attempt runs is
\* running.
VerdictIsStored ==
  \A w \in Workers : /\ verdict[w] = "PASS" => task[w] = "succeeded" /\ attempt[w] = "completed"
                     /\ task[w] = "running" => attempt[w] = "running"

\* From the gate to the end of a poll the gate names everyone who waits for a human.
GateIsCurrent == /\ phase \in {"verify", "deliver", "complete"} => Undecided \subseteq gate
                 /\ phase = "begin" => Undecided = {}

\* A success that _finalize has still to write, and one that it has written.
Proven == AllPass /\ Undecided = {}
SuccessIsProven ==
  /\ phase = "close" /\ outcome = "succeeded" => Proven
  /\ run = "succeeded" => phase = "done" /\ Proven

Inv == Shape /\ VerdictIsStored /\ GateIsCurrent /\ SuccessIsProven /\ NothingOutlivesTheRun

\* What an action of the second kind leaves alone.
Frame == <<run, task, attempt, verdict, rounds>>

LEMMA InitInv == Init => Inv
<1> SUFFICES ASSUME Init PROVE Inv
  OBVIOUS
<1>1. Shape
  BY DEF Init, Shape, Loop
<1>2. VerdictIsStored /\ SuccessIsProven /\ NothingOutlivesTheRun
  BY DEF Init, VerdictIsStored, SuccessIsProven, NothingOutlivesTheRun
<1>3. GateIsCurrent
  BY DEF Init, GateIsCurrent, Undecided, Asking
<1> QED BY <1>1, <1>2, <1>3 DEF Inv

\* Steps that leave subtasks and requests alone, and go on within the loop or end it
\* without success.
LEMMA QuietStep ==
  ASSUME Inv, UNCHANGED Frame, UNCHANGED request,
         phase \in Loop \cup {"begin"}, phase' \in Loop \cup {"close", "dead"},
         phase' = "close" => outcome' # "succeeded",
         phase' \in {"verify", "deliver", "complete"} =>
           \/ phase \in {"verify", "deliver", "complete"} /\ gate' = gate
           \/ gate' = Undecided
  PROVE  Inv'
<1>1. Shape' /\ VerdictIsStored'
  BY DEF Inv, Shape, VerdictIsStored, Frame, Over, Loop
<1>2. GateIsCurrent'
  BY DEF Inv, GateIsCurrent, Undecided, Loop
<1>3. SuccessIsProven' /\ NothingOutlivesTheRun'
  BY DEF Inv, SuccessIsProven, NothingOutlivesTheRun, Frame, Loop
<1> QED BY <1>1, <1>2, <1>3 DEF Inv

LEMMA QuietActions ==
  ASSUME Inv,
         \/ StartSandboxes \/ Raise \/ Cancelled \/ WallCap \/ HoldCap \/ Poll
         \/ (\E a \in Agents : Refuse(a)) \/ Gate \/ KeepAliveFails \/ VerifyDone \/ Deliver
  PROVE  Inv'
<1> USE DEF subtasks, Frame, Go, Break, Loop
<1>1. CASE StartSandboxes
  BY <1>1, QuietStep DEF StartSandboxes
<1>2. CASE Raise
  BY <1>2, QuietStep DEF Raise
<1>3. CASE Cancelled \/ WallCap \/ HoldCap
  BY <1>3, QuietStep DEF Cancelled, WallCap, HoldCap, CapReached
<1>4. CASE Poll
  BY <1>4, QuietStep DEF Poll
<1>5. CASE \E a \in Agents : Refuse(a)
  BY <1>5, QuietStep DEF Refuse
<1>6. CASE Gate \/ KeepAliveFails
  BY <1>6, QuietStep DEF Gate, KeepAliveFails, Undecided
<1>7. CASE VerifyDone
  BY <1>7, QuietStep DEF VerifyDone
<1>8. CASE Deliver
  BY <1>8, QuietStep DEF Deliver
<1> QED BY <1>1, <1>2, <1>3, <1>4, <1>5, <1>6, <1>7, <1>8

\* Steps on the requests: only the relay asks, and the relay comes before the gate.
LEMMA RequestActions ==
  ASSUME Inv,
         \/ \E a \in Agents, e \in Kinds : Relay(a, e)
         \/ Answer
         \/ \E a \in Agents, k \in Asking : Resolve(a, k)
  PROVE  Inv'
<1> USE DEF Inv
<1>1. UNCHANGED <<Frame, outcome, gate>>
  BY DEF Relay, Answer, Resolve, Frame, subtasks
<1>2. /\ request' \in [Agents -> [Asking -> {"none", "pending", "resolved", "told"}]]
      /\ phase' \in {"begin", "close"} \cup Loop \cup Over
      /\ \/ Undecided' \subseteq Undecided /\ phase' = phase
         \/ phase = "relay" /\ phase' \in {"relay", "gate"}
  <2>1. CASE \E a \in Agents, e \in Kinds : Relay(a, e)
    BY <2>1 DEF Relay, Effect, Shape, Asking, Kinds
  <2>2. CASE Answer
    BY <2>2 DEF Answer, Shape, Go, Loop
  <2>3. CASE \E a \in Agents, k \in Asking : Resolve(a, k)
    BY <2>3 DEF Resolve, Shape, Undecided, Asking
  <2> QED BY <2>1, <2>2, <2>3
<1>3. Shape' /\ VerdictIsStored'
  BY <1>1, <1>2 DEF Shape, VerdictIsStored, Frame
<1>4. GateIsCurrent'
  BY <1>1, <1>2 DEF GateIsCurrent
<1>5. SuccessIsProven'
  BY <1>1, <1>2 DEF SuccessIsProven, Frame, Proven, AllPass
<1>6. NothingOutlivesTheRun'
  BY <1>1, <1>2 DEF NothingOutlivesTheRun, Frame
<1> QED BY <1>3, <1>4, <1>5, <1>6

LEMMA VerifyStep ==
  ASSUME Inv, NEW w \in Workers, Verify(w) \/ RetryRefused(w)
  PROVE  Inv'
<1> USE CoordinatorAssumption DEF Inv
<1>1. /\ phase = "verify" /\ verdict[w] # "PASS" /\ request' = request /\ gate' = gate /\ run' = run
      /\ phase' \in {"verify", "close"} /\ (phase' = "close" => outcome' # "succeeded")
  BY DEF Verify, RetryRefused, Due, Break, Go
<1>2. CASE UNCHANGED <<task, attempt, rounds, verdict>>
  <2>1. Shape' /\ VerdictIsStored'
    BY <1>1, <1>2 DEF Shape, VerdictIsStored, Loop
  <2>2. GateIsCurrent' /\ SuccessIsProven' /\ NothingOutlivesTheRun'
    BY <1>1 DEF GateIsCurrent, Undecided, SuccessIsProven, NothingOutlivesTheRun
  <2> QED BY <2>1, <2>2
<1>3. ASSUME NEW x \in {"running", "completed"}, NEW y \in {"running", "succeeded", "failed"},
             NEW v \in {"none", "PASS", "FAIL"},
             attempt' = [attempt EXCEPT ![w] = x], task' = [task EXCEPT ![w] = y],
             verdict' = [verdict EXCEPT ![w] = v], rounds' \in [Workers -> Nat],
             v = "PASS" => x = "completed" /\ y = "succeeded",
             y = "running" => x = "running"
      PROVE  Inv'
  <2>1. Shape' /\ VerdictIsStored'
    BY <1>1, <1>3 DEF Shape, VerdictIsStored, Loop
  <2>2. GateIsCurrent' /\ SuccessIsProven' /\ NothingOutlivesTheRun'
    BY <1>1 DEF GateIsCurrent, Undecided, SuccessIsProven, NothingOutlivesTheRun
  <2> QED BY <2>1, <2>2
<1>4. CASE Verify(w) /\ attempt[w] = "running"
  <2> PICK v \in {"PASS", "FAIL"} :
        LET retry == v = "FAIL" /\ rounds[w] < MaxRounds IN
          /\ attempt' = [attempt EXCEPT ![w] = IF retry THEN "running" ELSE "completed"]
          /\ task' = [task EXCEPT ![w] = IF retry THEN "running"
                                         ELSE IF v = "PASS" THEN "succeeded" ELSE "failed"]
          /\ rounds' = [rounds EXCEPT ![w] = IF retry THEN @ + 1 ELSE @]
          /\ verdict' = [verdict EXCEPT ![w] = IF retry THEN "none" ELSE v]
    BY <1>4 DEF Verify
  <2>1. rounds' \in [Workers -> Nat]
    BY DEF Shape
  <2>2. CASE v = "FAIL" /\ rounds[w] < MaxRounds
    BY <1>3, <2>1, <2>2
  <2>3. CASE ~(v = "FAIL" /\ rounds[w] < MaxRounds)
    <3>1. CASE v = "PASS"
      BY <1>3, <2>1, <2>3, <3>1
    <3>2. CASE v = "FAIL"
      BY <1>3, <2>1, <2>3, <3>2
    <3> QED BY <3>1, <3>2
  <2> QED BY <2>2, <2>3
<1>5. CASE RetryRefused(w)
  <2>1. rounds' \in [Workers -> Nat]
    BY <1>5 DEF RetryRefused, Shape
  <2> QED BY <1>3, <1>5, <2>1 DEF RetryRefused
<1> QED BY <1>2, <1>4, <1>5 DEF Verify

LEMMA OtherActions ==
  ASSUME Inv,
         \/ \E w \in Workers : BeginAttempt(w) \/ Reap(w)
         \/ Complete \/ Finalize \/ Crash
  PROVE  Inv'
<1> USE DEF Inv
<1>1. ASSUME NEW w \in Workers, BeginAttempt(w) PROVE Inv'
  <2>1. Shape' /\ VerdictIsStored'
    BY <1>1 DEF BeginAttempt, Shape, VerdictIsStored
  <2>2. GateIsCurrent' /\ SuccessIsProven' /\ NothingOutlivesTheRun'
    BY <1>1 DEF BeginAttempt, GateIsCurrent, Undecided, SuccessIsProven, NothingOutlivesTheRun
  <2> QED BY <2>1, <2>2
<1>2. ASSUME NEW w \in Workers, Reap(w) PROVE Inv'
  <2>1. Shape' /\ VerdictIsStored'
    BY <1>2 DEF Reap, Shape, VerdictIsStored
  <2>2. GateIsCurrent' /\ SuccessIsProven'
    BY <1>2 DEF Reap, GateIsCurrent, Undecided, SuccessIsProven, Proven, AllPass
  <2>3. NothingOutlivesTheRun'
    BY <1>2 DEF Reap, NothingOutlivesTheRun, Shape
  <2> QED BY <2>1, <2>2, <2>3
<1>3. CASE Complete
  <2>1. UNCHANGED <<Frame, request>> /\ phase = "complete"
    BY <1>3 DEF Complete, Frame
  <2>2. phase' \in {"poll", "close"} /\ (phase' = "close" /\ outcome' = "succeeded" => Succeeds)
    BY <1>3 DEF Complete, Go, Break
  <2>3. Shape' /\ VerdictIsStored'
    BY <2>1, <2>2 DEF Shape, VerdictIsStored, Frame, Loop
  <2>4. GateIsCurrent' /\ NothingOutlivesTheRun'
    BY <2>1, <2>2 DEF GateIsCurrent, NothingOutlivesTheRun
  <2>5. Succeeds => Proven
    BY <2>1 DEF Succeeds, Proven, GateIsCurrent
  <2>6. SuccessIsProven'
    BY <2>1, <2>2, <2>5 DEF SuccessIsProven, Proven, AllPass, Undecided, Frame
  <2> QED BY <2>3, <2>4, <2>6
<1>4. CASE Finalize
  <2>1. Shape' /\ VerdictIsStored'
    BY <1>4 DEF Finalize, LeftBehind, Go, Shape, VerdictIsStored, Over
  <2>2. GateIsCurrent' /\ NothingOutlivesTheRun'
    BY <1>4 DEF Finalize, LeftBehind, Go, GateIsCurrent, NothingOutlivesTheRun, VerdictIsStored
  <2>3. SuccessIsProven'
    BY <1>4 DEF Finalize, Go, SuccessIsProven, Proven, AllPass, Undecided
  <2> QED BY <2>1, <2>2, <2>3
<1>5. CASE Crash
  <2>1. Shape' /\ VerdictIsStored'
    BY <1>5 DEF Crash, Go, Shape, VerdictIsStored, Over
  <2>2. GateIsCurrent' /\ NothingOutlivesTheRun'
    BY <1>5 DEF Crash, Go, GateIsCurrent, NothingOutlivesTheRun
  <2>3. SuccessIsProven'
    BY <1>5 DEF Crash, Go, SuccessIsProven, Over
  <2> QED BY <2>1, <2>2, <2>3
<1> QED BY <1>1, <1>2, <1>3, <1>4, <1>5

LEMMA InvStep == Inv /\ [Next]_vars => Inv'
<1> SUFFICES ASSUME Inv, [Next]_vars PROVE Inv'
  OBVIOUS
<1>1. CASE UNCHANGED vars
  BY <1>1 DEF vars, subtasks, Inv, Shape, VerdictIsStored, GateIsCurrent, SuccessIsProven,
              NothingOutlivesTheRun, Proven, AllPass, Undecided
<1> QED BY <1>1, QuietActions, RequestActions, VerifyStep, OtherActions DEF Next, Coordinator, Others

\* A run that is recorded as succeeded has a succeeded Task for every subtask, and no
\* material decision was left open when it ended or has been asked since.
THEOREM SuccessIsEarned == Spec => []SucceededRunIsProven
<1>1. Inv => SucceededRunIsProven
  BY DEF Inv, SuccessIsProven, Proven, AllPass, Undecided, VerdictIsStored, SucceededRunIsProven
<1> QED BY InitInv, InvStep, <1>1, PTL DEF Spec

\* A run that has ended has no running Attempt and holds no Task.
THEOREM RunLeavesNothing == Spec => []NothingOutlivesTheRun
<1>1. Inv => NothingOutlivesTheRun
  BY DEF Inv
<1> QED BY InitInv, InvStep, <1>1, PTL DEF Spec

\* One step leaves alone what a pending material request holds.
Waits ==
  \A a, b \in Agents : request[a]["material"] = "pending" /\ a \in {Lead, b} =>
    /\ b \in busy' => b \in busy
    /\ b \in Workers => rounds'[b] = rounds[b] /\ verdict'[b] = verdict[b]

\* What is held is in Blocked when the coordinator acts.
LEMMA HeldIsBlocked ==
  ASSUME Inv, phase \in {"verify", "deliver"}, NEW a \in Agents, NEW b \in Agents,
         request[a]["material"] = "pending", a \in {Lead, b}
  PROVE  b \in Blocked
BY DEF Inv, GateIsCurrent, Undecided, Blocked, Holds

LEMMA WaitsStep == Inv /\ [Next]_vars => Waits
<1> SUFFICES ASSUME Inv, [Next]_vars PROVE Waits
  OBVIOUS
<1>1. ASSUME UNCHANGED <<rounds, verdict>>, busy' \subseteq busy PROVE Waits
  BY <1>1 DEF Waits
<1>2. CASE UNCHANGED vars
  BY <1>1, <1>2 DEF vars, subtasks
<1>3. ASSUME NEW w \in Workers, BeginAttempt(w) PROVE Waits
  BY <1>3 DEF BeginAttempt, Inv, GateIsCurrent, Undecided, Waits
<1>4. ASSUME NEW w \in Workers, Verify(w) \/ RetryRefused(w) PROVE Waits
  <2>1. /\ phase = "verify" /\ w \notin Blocked /\ busy' = busy
        /\ \A b \in Workers \ {w} : rounds'[b] = rounds[b] /\ verdict'[b] = verdict[b]
    <3>1. CASE UNCHANGED <<rounds, verdict>>
      BY <1>4, <3>1 DEF Verify, RetryRefused, Due
    <3>2. CASE Verify(w) /\ attempt[w] = "running"
      BY <1>4, <3>2 DEF Verify, Due, Inv, Shape
    <3>3. CASE RetryRefused(w)
      BY <1>4, <3>3 DEF RetryRefused, Due, Inv, Shape
    <3> QED BY <1>4, <3>1, <3>2, <3>3 DEF Verify
  <2>2. w \in Agents
    BY DEF Agents
  <2> QED BY <2>1, <2>2, HeldIsBlocked DEF Waits
<1>5. CASE Deliver
  <2>1. phase = "deliver" /\ UNCHANGED <<rounds, verdict>>
    BY <1>5 DEF Deliver, subtasks
  <2>2. \A b \in busy' : b \in busy \/ b \notin Blocked
    BY <1>5 DEF Deliver
  <2> QED BY <2>1, <2>2, HeldIsBlocked DEF Waits
<1>6. CASE \/ \E w \in Workers : Reap(w)
           \/ StartSandboxes \/ Raise \/ Cancelled \/ WallCap \/ HoldCap \/ Poll
           \/ (\E a \in Agents : Refuse(a)) \/ (\E a \in Agents, e \in Kinds : Relay(a, e))
           \/ Answer \/ Gate \/ KeepAliveFails \/ VerifyDone
           \/ \E a \in Agents, k \in Asking : Resolve(a, k)
  BY <1>1, <1>6 DEF Reap, StartSandboxes, Raise, Cancelled, WallCap, HoldCap, CapReached, Poll, Refuse,
                    Relay, Answer, Gate, KeepAliveFails, VerifyDone, Resolve, subtasks
<1>7. CASE Complete \/ Finalize \/ Crash
  BY <1>1, <1>7 DEF Complete, Finalize, Crash, Forget
<1> QED BY <1>2, <1>3, <1>4, <1>5, <1>6, <1>7 DEF Next, Coordinator, Others

\* While a human has to decide, what the decision is about gets no turn and no verdict,
\* although the coordinator looks at the database once per poll only.
THEOREM HeldScopeIsLeftAlone == Spec => HeldScopeWaits
<1>1. Inv /\ [Next]_vars => [Waits]_vars
  BY WaitsStep
<1> QED BY InitInv, InvStep, <1>1, PTL DEF Spec, HeldScopeWaits, Waits

-----------------------------------------------------------------------------
(***************************************************************************)
(* The gate.  What a call has loaded stays true of the columns that no call *)
(* changes (the proposer and the tokens), and what may have changed since   *)
(* is compared again under the row lock; the inductive invariant says both  *)
(* of every call in flight.                                                *)
(***************************************************************************)
Places == {"new", "in", "loaded", "written", "refused", "done", "gone"}

\* The shape of the state, as far as the proofs need it.
GateShape ==
  /\ plan \in {"none", "proposed", "approved", "rejected"}
  /\ pc \in [Calls -> Places]
  /\ decision \in [Subjects -> [status : Statuses, kind : {None, "human", "policy"}, by : Names \cup {None}]]
  /\ nodes \subseteq Calls /\ runs \subseteq Calls
  /\ lock \in [Subjects -> Calls \cup {None}]

\* The Plan and its decision request move together.
RequestTracksPlan ==
  decision["plan"].status = CASE plan = "none" -> "none" [] plan = "proposed" -> "pending"
                             [] plan = "approved" -> "approved" [] OTHER -> "rejected"

\* A call that is on its way to a decision was authorized, and an approval is not
\* the proposer's own.
InFlight ==
  \A c \in Calls :
    /\ pc[c] \in {"in", "loaded", "written"} => Authorized(c)
    /\ pc[c] \in {"loaded", "written"} =>
         /\ Does[c] # "run"
         /\ Subject[c] = "plan" => plan # "none"
         /\ Subject[c] = "plan" /\ Does[c] = "approve" =>
              SingleUser \/ Fold[Holder[Use[c]]] # Fold[proposer]

\* With the triggers, a flushed decision holds the row lock, and its request is
\* still pending.
Locked ==
  \A c \in Calls : pc[c] = "written" => lock[Subject[c]] = c /\ decision[Subject[c]].status = "pending"

\* The stored fold is the fold of the proposer.
FoldIsStored == /\ plan = "none" => fold = None
                /\ plan # "none" => proposer \in Names /\ fold \in {None, Fold[proposer]}

Base == GateShape /\ RequestTracksPlan /\ InFlight /\ ApprovedByAnother /\ FoldIsStored

LEMMA InitBase == GateInit => Base /\ Locked /\ WorkNeedsApproval
<1> SUFFICES ASSUME GateInit PROVE Base /\ Locked /\ WorkNeedsApproval
  OBVIOUS
<1> USE PlanGateAssumption DEF GateInit
<1>1. GateShape
  BY DEF GateShape, Places, Statuses, Subjects, Open
<1>2. RequestTracksPlan
  BY DEF RequestTracksPlan, Subjects, Open
<1>3. InFlight /\ Locked
  BY DEF InFlight, Locked
<1>4. ApprovedByAnother /\ FoldIsStored /\ WorkNeedsApproval
  BY DEF ApprovedByAnother, FoldIsStored, WorkNeedsApproval
<1> QED
  BY <1>1, <1>2, <1>3, <1>4 DEF Base

\* Steps of a call that change no row: Enter, Deny, Load, Write, Rollback, Die.
LEMMA CallKeepsBase ==
  ASSUME Base, NEW c \in Calls, UNCHANGED rows,
         \/ Enter(c) \/ Deny(c) \/ Load(c) \/ Write(c) \/ Rollback(c) \/ Die(c)
  PROVE  Base'
<1> USE PlanGateAssumption DEF Base, rows
<1> DEFINE where == pc'[c]
<1>1. /\ pc' = [pc EXCEPT ![c] = where] /\ where \in Places
      /\ lock' \in [Subjects -> Calls \cup {None}]
      /\ where \in {"in", "loaded", "written"} => Authorized(c)
      /\ where \in {"loaded", "written"} =>
           \/ pc[c] \in {"loaded", "written"}
           \/ Does[c] # "run" /\ Accepts(Use[c], Subject[c], Does[c])
  BY DEF Enter, Deny, Load, Write, Rollback, Die, Unlock, To, GateShape, Places, InFlight
<1>2. GateShape'
  BY <1>1 DEF GateShape, Places
<1>3. InFlight'
  <2> SUFFICES ASSUME NEW d \in Calls
               PROVE  /\ pc'[d] \in {"in", "loaded", "written"} => Authorized(d)
                      /\ pc'[d] \in {"loaded", "written"} =>
                           /\ Does[d] # "run"
                           /\ Subject[d] = "plan" => plan # "none"
                           /\ Subject[d] = "plan" /\ Does[d] = "approve" =>
                                SingleUser \/ Fold[Holder[Use[d]]] # Fold[proposer]
    BY DEF InFlight, Authorized, Needed, CanApprove, Has
  <2>1. CASE d # c
    BY <1>1, <2>1 DEF InFlight, GateShape
  <2>2. CASE d = c
    BY <1>1, <2>2 DEF InFlight, GateShape, Accepts, SelfDecision
  <2> QED BY <2>1, <2>2
<1>4. (RequestTracksPlan /\ ApprovedByAnother /\ FoldIsStored)'
  BY DEF RequestTracksPlan, ApprovedByAnother, FoldIsStored, CanApprove, Has
<1> QED BY <1>2, <1>3, <1>4

LEMMA CommitKeepsBase ==
  ASSUME Base, NEW c \in Calls, Commit(c)
  PROVE  Base'
<1> USE PlanGateAssumption DEF Base
<1>1. /\ pc[c] = "written" /\ Does[c] \in {"approve", "reject", "answer"}
      /\ Authorized(c) /\ CanApprove(Use[c])
      /\ Subject[c] = "plan" => plan # "none" /\ Does[c] \in {"approve", "reject"}
      /\ Outcome[Does[c]] \in Statuses
      /\ Subject[c] = "plan" => Outcome[Does[c]] \in {"approved", "rejected"}
      /\ Outcome[Does[c]] = "approved" => Does[c] = "approve"
  BY DEF Commit, InFlight, Authorized, Needed, Outcome, Statuses, Subjects
<1>2. Holder[Use[c]] \in Names /\ Subject[c] \in Subjects /\ Use[c] \in Tokens
  BY DEF Names
<1>3. GateShape'
  BY <1>1, <1>2 DEF Commit, Unlock, To, GateShape, Places, Statuses
<1>4. /\ Subject[c] = "plan" => /\ plan' = Outcome[Does[c]]
                                /\ decision'["plan"].status = Outcome[Does[c]]
                                /\ decision'["plan"].kind = "human"
                                /\ decision'["plan"].by = Holder[Use[c]]
      /\ Subject[c] # "plan" => plan' = plan /\ decision'["plan"] = decision["plan"]
      /\ proposer' = proposer /\ fold' = fold
  BY <1>2 DEF Commit, GateShape, Subjects
<1>5. RequestTracksPlan'
  BY <1>1, <1>4 DEF RequestTracksPlan
<1>6. ApprovedByAnother'
  <2>1. CASE Subject[c] = "plan"
    BY <1>1, <1>2, <1>4, <2>1 DEF ApprovedByAnother, InFlight
  <2>2. CASE Subject[c] # "plan"
    BY <1>4, <2>2 DEF ApprovedByAnother
  <2> QED BY <2>1, <2>2
<1>7. InFlight'
  BY <1>1, <1>4 DEF InFlight, Commit, To, GateShape
<1>8. FoldIsStored'
  BY <1>1, <1>4 DEF FoldIsStored
<1> QED BY <1>3, <1>5, <1>6, <1>7, <1>8

\* Steps that are no call's decision: Propose, Backfill, Ask and StartRun.
LEMMA OthersKeepBase ==
  ASSUME Base,
         \/ \E t \in Tokens : Propose(t)
         \/ Backfill \/ Ask
         \/ \E c \in Calls : StartRun(c)
  PROVE  Base'
<1> USE PlanGateAssumption DEF Base
<1>1. CASE \E t \in Tokens : Propose(t)
  <2> PICK t \in Tokens : Propose(t)
    BY <1>1
  <2>1. Holder[t] \in Names /\ Open \in [status : Statuses, kind : {None, "human", "policy"}, by : Names \cup {None}]
    BY DEF Names, Open, Statuses
  <2>2. GateShape' /\ RequestTracksPlan'
    BY <2>1 DEF Propose, GateShape, RequestTracksPlan, Subjects, Open
  <2>3. InFlight'
    BY DEF Propose, InFlight, Authorized, Needed, CanApprove, Has
  <2>4. ApprovedByAnother' /\ FoldIsStored'
    BY <2>1 DEF Propose, ApprovedByAnother, FoldIsStored
  <2> QED BY <2>2, <2>3, <2>4
<1>2. CASE Backfill
  BY <1>2 DEF Backfill, GateShape, RequestTracksPlan, InFlight, ApprovedByAnother, FoldIsStored,
              Authorized, Needed, CanApprove, Has
<1>3. CASE Ask
  <2>1. /\ decision' \in [Subjects -> [status : Statuses, kind : {None, "human", "policy"}, by : Names \cup {None}]]
        /\ decision'["plan"] = decision["plan"]
    BY <1>3 DEF Ask, GateShape, Open, Statuses, Subjects
  <2> QED BY <1>3, <2>1 DEF Ask, GateShape, RequestTracksPlan, InFlight, ApprovedByAnother, FoldIsStored
<1>4. CASE \E c \in Calls : StartRun(c)
  <2> PICK c \in Calls : StartRun(c)
    BY <1>4
  <2>0. /\ pc' = [pc EXCEPT ![c] = "done"] \/ pc' = [pc EXCEPT ![c] = "refused"]
        /\ runs' \in {runs, runs \cup {c}}
    BY DEF StartRun, To
  <2>1. pc \in [Calls -> Places] /\ runs \subseteq Calls /\ {"done", "refused"} \subseteq Places
    BY DEF GateShape, Places
  <2>2. runs' \subseteq Calls
    BY <2>0, <2>1
  <2>3. ASSUME NEW p \in {"done", "refused"}, pc' = [pc EXCEPT ![c] = p]
        PROVE  /\ pc' \in [Calls -> Places]
               /\ \A d \in Calls : pc'[d] \in {"in", "loaded", "written"} => pc'[d] = pc[d]
    BY <2>1, <2>3
  <2>4. /\ pc' \in [Calls -> Places]
        /\ \A d \in Calls : pc'[d] \in {"in", "loaded", "written"} => pc'[d] = pc[d]
    BY <2>0, <2>3
  <2> QED BY <2>2, <2>4 DEF StartRun, GateShape, RequestTracksPlan, InFlight, ApprovedByAnother, FoldIsStored
<1> QED BY <1>1, <1>2, <1>3, <1>4

LEMMA BaseStep == Base /\ [GateNext]_gateVars => Base'
<1> SUFFICES ASSUME Base, [GateNext]_gateVars PROVE Base'
  OBVIOUS
<1>1. CASE UNCHANGED gateVars
  BY <1>1 DEF gateVars, rows, Base, GateShape, RequestTracksPlan, InFlight, ApprovedByAnother, FoldIsStored
<1>2. ASSUME NEW c \in Calls, CallStep(c) \/ Die(c) PROVE Base'
  BY <1>2, CallKeepsBase, CommitKeepsBase, OthersKeepBase
     DEF CallStep, Enter, Deny, Load, Write, Rollback, Die
<1> QED BY <1>1, <1>2, OthersKeepBase DEF GateNext

\* An approved Plan was approved by a human with the role, and never by its
\* proposer under another spelling of the name: with any number of calls in
\* flight, and also without the triggers.
THEOREM ApprovalIsAnothers == GateSpec => []ApprovedByAnother
<1>1. Base => ApprovedByAnother
  BY DEF Base
<1> QED BY InitBase, BaseStep, <1>1, PTL DEF GateSpec

\* What GET /inbox lists is what decide_plan and resolve_request would accept.
THEOREM InboxMatchesDecisions == GateSpec => []InboxIsActionable
<1>1. Base => InboxIsActionable
  <2> SUFFICES ASSUME Base, plan # "none" => fold # None, NEW t \in Tokens, NEW s \in Subjects
               PROVE  s \in Inbox(t) <=> CanApprove(t) /\ Accepts(t, s, "approve")
    BY DEF InboxIsActionable
  <2>1. CASE s = "agent"
    BY <2>1 DEF Inbox, Accepts, Subjects
  <2>2. CASE s = "plan"
    BY <2>2, PlanGateAssumption
       DEF Inbox, Accepts, Subjects, SelfDecision, Base, RequestTracksPlan, FoldIsStored, GateShape
  <2> QED BY <2>1, <2>2 DEF Subjects
<1> QED BY InitBase, BaseStep, <1>1, PTL DEF GateSpec

-----------------------------------------------------------------------------
(* The database has the triggers *)

LEMMA LockedStep ==
  ASSUME Triggers, Base, Locked, [GateNext]_gateVars
  PROVE  Locked'
<1> USE PlanGateAssumption DEF Base
<1> SUFFICES ASSUME NEW d \in Calls, pc'[d] = "written"
             PROVE  lock'[Subject[d]] = d /\ decision'[Subject[d]].status = "pending"
  BY DEF Locked
<1>1. CASE UNCHANGED gateVars
  BY <1>1 DEF gateVars, rows, Locked
<1>2. ASSUME NEW c \in Calls, Enter(c) \/ Deny(c) \/ Load(c) \/ StartRun(c)
      PROVE  lock'[Subject[d]] = d /\ decision'[Subject[d]].status = "pending"
  BY <1>2 DEF Enter, Deny, Load, StartRun, To, rows, Locked, GateShape
<1>3. ASSUME NEW c \in Calls, Write(c)
      PROVE  lock'[Subject[d]] = d /\ decision'[Subject[d]].status = "pending"
  BY <1>3 DEF Write, RequestGuard, To, rows, Locked, GateShape
<1>4. ASSUME NEW c \in Calls, Commit(c)
      PROVE  lock'[Subject[d]] = d /\ decision'[Subject[d]].status = "pending"
  \* the committing call had the lock, so no other call is as far as the first flush
  <2>1. /\ d # c /\ pc[d] = "written" /\ Subject[d] # Subject[c]
        /\ lock[Subject[d]] = d /\ decision[Subject[d]].status = "pending"
    BY <1>4 DEF Commit, To, Locked, GateShape
  <2>2. lock'[Subject[d]] = d
    BY <1>4, <2>1 DEF Commit, Unlock
  <2> QED BY <1>4, <2>1, <2>2 DEF Commit, GateShape
<1>5. ASSUME NEW c \in Calls, Rollback(c) \/ Die(c)
      PROVE  lock'[Subject[d]] = d /\ decision'[Subject[d]].status = "pending"
  BY <1>5 DEF Rollback, Die, Unlock, To, rows, Locked, GateShape
<1>6. CASE \E t \in Tokens : Propose(t)
  BY <1>6 DEF Propose, Locked, GateShape, Subjects, Open
<1>7. CASE Backfill
  BY <1>7 DEF Backfill, Locked
<1>8. CASE Ask
  BY <1>8 DEF Ask, Locked, GateShape, Subjects
<1> QED BY <1>1, <1>2, <1>3, <1>4, <1>5, <1>6, <1>7, <1>8 DEF GateNext, CallStep

\* One step keeps what has been decided.
Keeps == /\ \A s \in Subjects : decision[s].status \notin {"none", "pending"} =>
              decision'[s] = decision[s] /\ \A c \in nodes' \ nodes : Subject[c] # s
         /\ plan \in {"approved", "rejected"} => plan' = plan

LEMMA DecidedStep ==
  ASSUME Triggers, Base, Locked, [GateNext]_gateVars
  PROVE  Keeps
<1> USE PlanGateAssumption DEF Base
<1>1. CASE UNCHANGED gateVars
  BY <1>1 DEF gateVars, rows, Keeps
<1>2. ASSUME NEW c \in Calls, CallStep(c) \/ Die(c), ~Commit(c) PROVE Keeps
  BY <1>2 DEF CallStep, Enter, Deny, Load, Write, Rollback, Die, StartRun, rows, Keeps
<1>3. ASSUME NEW c \in Calls, Commit(c) PROVE Keeps
  <2>1. decision[Subject[c]].status = "pending" /\ Subject[c] \in Subjects
    BY <1>3 DEF Commit, Locked
  <2>2. \A s \in Subjects : s # Subject[c] => decision'[s] = decision[s]
    BY <1>3, <2>1 DEF Commit, GateShape
  <2>3. nodes' \ nodes \subseteq {c}
    BY <1>3 DEF Commit
  <2>4. plan \in {"approved", "rejected"} => plan' = plan
    BY <1>3, <2>1 DEF Commit, RequestTracksPlan
  <2> QED BY <2>1, <2>2, <2>3, <2>4 DEF Keeps
<1>4. CASE \E t \in Tokens : Propose(t)
  BY <1>4 DEF Propose, Keeps, GateShape, Subjects, RequestTracksPlan
<1>5. CASE Backfill
  BY <1>5 DEF Backfill, Keeps
<1>6. CASE Ask
  BY <1>6 DEF Ask, Keeps, GateShape, Subjects
<1> QED BY <1>1, <1>2, <1>3, <1>4, <1>5, <1>6 DEF GateNext

LEMMA RunsStep ==
  ASSUME Triggers, Base, Locked, WorkNeedsApproval, [GateNext]_gateVars
  PROVE  WorkNeedsApproval'
<1>1. Keeps
  BY DecidedStep
<1>2. runs' = runs \/ plan = "approved"
  BY DEF GateNext, CallStep, Enter, Deny, Load, Write, Commit, Rollback, Die, StartRun, RunGate,
         Propose, Backfill, Ask, gateVars, rows
<1> QED BY <1>1, <1>2 DEF Keeps, WorkNeedsApproval

\* On PostgreSQL a decision is taken once, whichever calls overlap.
THEOREM DecidedOnce ==
  ASSUME Triggers
  PROVE  GateSpec => DecisionIsFinal
<1>1. GateInit => Base /\ Locked
  BY InitBase
<1>2. Base /\ Locked /\ [GateNext]_gateVars => Base' /\ Locked'
  BY BaseStep, LockedStep
<1>3. Base /\ Locked /\ [GateNext]_gateVars => [Keeps]_gateVars
  BY DecidedStep
<1> QED BY <1>1, <1>2, <1>3, PTL DEF GateSpec, DecisionIsFinal, Keeps

\* On PostgreSQL a Plan that a run was started on stays approved.
THEOREM RunsAreApproved ==
  ASSUME Triggers
  PROVE  GateSpec => []WorkNeedsApproval
<1> DEFINE I == Base /\ Locked /\ WorkNeedsApproval
<1>1. GateInit => I
  BY InitBase
<1>2. I /\ [GateNext]_gateVars => I'
  BY BaseStep, LockedStep, RunsStep
<1>3. I => WorkNeedsApproval
  OBVIOUS
<1> QED BY <1>1, <1>2, <1>3, PTL DEF GateSpec
=============================================================================
