----------------------- MODULE AttemptExecutionProofs -----------------------
(* Theorems about AttemptExecution, for every number of processes, requests, *)
(* Tasks, keys and sandboxes, every TTL and every bound of the clock.        *)
EXTENDS AttemptExecution, TLAPS

-----------------------------------------------------------------------------
(* Type correctness *)

\* A sweep that is not under way has its type.
LEMMA QuietType == Quiet \in SweepType
BY DEF Quiet, SweepType

\* Moving a sweep on keeps its type.
LEMMA SetPcType ==
  ASSUME sweep \in [Sweepers -> SweepType], NEW s \in Sweepers
  PROVE  [sweep EXCEPT ![s].pc = "select"] \in [Sweepers -> SweepType]
<1>1. [sweep[s] EXCEPT !.pc = "select"] \in SweepType
  BY DEF SweepType
<1>2. QED BY <1>1

\* Every step of begin keeps the types.
LEMMA TypeBegin ==
  ASSUME TypeOK, NEW r \in Requests, Begin(r)
  PROVE  TypeOK'
<1> USE DEF attempts, remote
<1>a. /\ pc \in [Requests -> Control]
      /\ task \in [Tasks -> TaskState] /\ TaskOf(r) \in Tasks
      /\ seen \in [Requests -> TaskState]
  BY DEF TypeOK, Arguments, TaskOf
<1>b. sweep \in [Sweepers -> SweepType] /\ r \in Sweepers
  BY DEF TypeOK, Sweepers
<1>1. CASE BeginGate(r)
  <2>1. sweep' \in [Sweepers -> SweepType]
    BY <1>1, <1>b, SetPcType DEF BeginGate
  <2>2. pc' \in [Requests -> Control]
    BY <1>1, <1>a DEF BeginGate, Control
  <2>3. QED BY <1>1, <2>1, <2>2 DEF BeginGate, TypeOK
<1>2. CASE BeginLookup(r)
  BY <1>2 DEF BeginLookup, TypeOK, Control
<1>3. CASE BeginRead(r)
  <2>1. pc' \in [Requests -> Control]
    BY <1>3, <1>a DEF BeginRead, Control
  <2>2. seen' \in [Requests -> TaskState]
    BY <1>3, <1>a DEF BeginRead
  <2>3. QED BY <1>3, <2>1, <2>2 DEF BeginRead, TypeOK
<1>4. CASE BeginInsert(r)
  BY <1>4 DEF BeginInsert, TypeOK, Control
<1>5. CASE BeginClaim(r)
  <2>1. twice' \subseteq Tasks
    BY <1>5, <1>a DEF BeginClaim, TypeOK
  <2>2. QED
    BY <1>5, <1>a, <2>1, ModeAssumption DEF BeginClaim, TypeOK, Control, TaskState, AttemptState, Arguments
<1>6. CASE BeginInvalid(r)
  BY <1>6 DEF BeginInvalid, TypeOK, Control
<1>7. CASE BeginWorkspace(r)
  <2>1. pc' \in [Requests -> Control]
    BY <1>7, <1>a DEF BeginWorkspace, Control
  <2>2. ran' \subseteq Requests
    BY <1>7 DEF BeginWorkspace, TypeOK
  <2>3. QED BY <1>7, <2>1, <2>2 DEF BeginWorkspace, TypeOK
<1>8. QED BY <1>1, <1>2, <1>3, <1>4, <1>5, <1>6, <1>7 DEF Begin

\* Every step of the adapter, of finish and of _fail_attempt keeps the types.
LEMMA TypeRun ==
  ASSUME TypeOK, NEW r \in Requests, Adapter(r) \/ Finish(r)
  PROVE  TypeOK'
<1> USE DEF attempts, remote
<1>a. /\ pc \in [Requests -> Control]
      /\ task \in [Tasks -> TaskState] /\ TaskOf(r) \in Tasks
      /\ status \in [Requests -> AttemptState]
      /\ verdict \in [Requests -> {"none", "exec"} \cup Verdicts]
  BY DEF TypeOK, Arguments, TaskOf
<1>1. CASE AdapterReturns(r)
  BY <1>1 DEF AdapterReturns, TypeOK, Control
<1>2. CASE AdapterRaises(r)
  BY <1>2 DEF AdapterRaises, TypeOK, Control
<1>3. CASE FinalizeCancel(r)
  <2>1. status' \in [Requests -> AttemptState]
    BY <1>3, <1>a DEF FinalizeCancel, AttemptState, Terminal
  <2>2. task' \in [Tasks -> TaskState]
    BY <1>3, <1>a DEF FinalizeCancel, TaskState
  <2>3. pc' \in [Requests -> Control]
    BY <1>3, <1>a DEF FinalizeCancel, Control
  <2>4. QED BY <1>3, <2>1, <2>2, <2>3 DEF FinalizeCancel, TypeOK
<1>4. CASE FinishEnter(r)
  BY <1>4 DEF FinishEnter, TypeOK, Control
<1>5. CASE FinishSettle(r)
  <2>1. status' \in [Requests -> AttemptState]
    BY <1>5, <1>a DEF FinishSettle, AttemptState, Terminal
  <2>2. task' \in [Tasks -> TaskState]
    BY <1>5, <1>a DEF FinishSettle, TaskState
  <2>3. verdict' \in [Requests -> {"none", "exec"} \cup Verdicts]
    BY <1>5, <1>a DEF FinishSettle
  <2>4. pc' \in [Requests -> Control]
    BY <1>5, <1>a DEF FinishSettle, Control
  <2>5. QED BY <1>5, <2>1, <2>2, <2>3, <2>4 DEF FinishSettle, TypeOK
<1>6. CASE FinishEvaluate(r)
  <2>1. \A v \in Verdicts : TaskVerdict[v] \in TaskState
    BY DEF TaskVerdict, Verdicts, TaskState
  <2>2. QED BY <1>6, <1>a, <2>1 DEF FinishEvaluate, TypeOK, Control, AttemptState, Terminal
<1>7. CASE FinishEvaluateRaises(r)
  BY <1>7, <1>a DEF FinishEvaluateRaises, TypeOK, Control, AttemptState, Terminal, TaskState
<1>8. CASE FailAttempt(r)
  <2>1. status' \in [Requests -> AttemptState]
    BY <1>8, <1>a DEF FailAttempt, AttemptState, Terminal
  <2>2. task' \in [Tasks -> TaskState]
    BY <1>8, <1>a DEF FailAttempt, TaskState
  <2>3. pc' \in [Requests -> Control]
    BY <1>8, <1>a DEF FailAttempt, Control
  <2>4. QED BY <1>8, <2>1, <2>2, <2>3 DEF FailAttempt, TypeOK
<1>9. CASE FinishEscapes(r)
  BY <1>9 DEF FinishEscapes, TypeOK, Control
<1>10. QED BY <1>1, <1>2, <1>3, <1>4, <1>5, <1>6, <1>7, <1>8, <1>9 DEF Adapter, Finish

\* Every step on a sandbox keeps the types.
LEMMA TypeRemote ==
  ASSUME TypeOK, NEW r \in Requests, NEW b \in Boxes, Remote(r, b)
  PROVE  TypeOK'
<1> USE DEF TypeOK, attempts, remote, Phases, Effects
<1>1. CASE OpenRemoteSandbox(r, b)
  BY <1>1 DEF OpenRemoteSandbox
<1>2. CASE ProviderCreate(r, b)
  BY <1>2 DEF ProviderCreate
<1>3. CASE IdentifySandbox(r, b)
  BY <1>3 DEF IdentifySandbox
<1>4. CASE ProviderGone(r, b)
  BY <1>4 DEF ProviderGone
<1>5. CASE VerifyAbsent(r, b)
  BY <1>5 DEF VerifyAbsent
<1>6. QED BY <1>1, <1>2, <1>3, <1>4, <1>5 DEF Remote

\* Every step on the columns that describe the effects keeps the types.
LEMMA TypeEffect ==
  ASSUME TypeOK, NEW a \in Requests, Effect(a)
  PROVE  TypeOK'
<1> USE DEF TypeOK, attempts, remote, Effects
<1>1. CASE ConfirmLive(a)
  BY <1>1 DEF ConfirmLive
<1>2. CASE RefreshRead(a)
  BY <1>2 DEF RefreshRead
<1>3. CASE RefreshWrite(a)
  BY <1>3 DEF RefreshWrite
<1>4. QED BY <1>1, <1>2, <1>3 DEF Effect

\* Every step of a sweep keeps the types.
LEMMA TypeSweep ==
  ASSUME TypeOK, NEW s \in Sweepers, Sweep(s)
  PROVE  TypeOK'
<1> USE DEF attempts, remote
<1>a. /\ sweep \in [Sweepers -> SweepType]
      /\ \A a \in Requests : TaskOf(a) \in Tasks
  BY DEF TypeOK, TaskOf, Arguments
<1>b. /\ status \in [Requests -> AttemptState]
      /\ beat \in [Requests -> Nat]
  BY DEF TypeOK
<1>1. CASE SweepSelect(s)
  <2>1. sweep' \in [Sweepers -> SweepType]
    BY <1>1, <1>a, <1>b DEF SweepSelect, Quiet, SweepType
  <2>2. QED BY <1>1, <2>1 DEF SweepSelect, TypeOK
<1>2. ASSUME NEW a \in Requests, SweepCheck(s, a)
      PROVE  TypeOK'
  <2>1. PICK l \in SUBSET Tasks, c \in SUBSET Requests :
          sweep' = [sweep EXCEPT ![s] = [sweep[s] EXCEPT !.todo = @ \ {a}, !.live = l, !.cur = c]]
    <3> DEFINE spared == ExecutorIsLive(s, a) \/ EffectBlocks(s, a)
    <3>1. /\ (IF spared THEN sweep[s].live \cup {TaskOf(a)} ELSE sweep[s].live) \in SUBSET Tasks
          /\ (IF spared THEN {} ELSE {a}) \in SUBSET Requests
      BY <1>a DEF SweepType
    <3>2. QED BY <1>2, <1>a, <3>1 DEF SweepCheck
  <2>2. sweep' \in [Sweepers -> SweepType]
    BY <1>a, <2>1 DEF SweepType
  <2>3. QED BY <1>2, <2>2 DEF SweepCheck, TypeOK
<1>3. ASSUME NEW a \in Requests, SweepSwap(s, a)
      PROVE  TypeOK'
  <2>1. PICK l \in SUBSET Tasks, d \in SUBSET Requests :
          sweep' = [sweep EXCEPT ![s] = [sweep[s] EXCEPT !.cur = {}, !.settled = d, !.live = l]]
    <3> DEFINE wins == SwapWins(s, a)
    <3>1. /\ (IF wins THEN sweep[s].settled \cup {a} ELSE sweep[s].settled) \in SUBSET Requests
          /\ (IF ~wins /\ status[a] = "running"
                THEN sweep[s].live \cup {TaskOf(a)} ELSE sweep[s].live) \in SUBSET Tasks
      BY <1>a DEF SweepType
    <3>2. QED BY <1>3, <1>a, <3>1 DEF SweepSwap
  <2>2. sweep' \in [Sweepers -> SweepType]
    BY <1>a, <2>1 DEF SweepType
  <2>3. QED BY <1>3, <2>2 DEF SweepSwap, TypeOK
<1>4. CASE SweepCommit(s)
  <2>1. sweep' \in [Sweepers -> SweepType]
    BY <1>4, <1>a, QuietType DEF SweepCommit
  <2>2. killed' \in [Requests -> BOOLEAN]
    BY <1>4 DEF SweepCommit, TypeOK
  <2>3. /\ status' \in [Requests -> AttemptState]
        /\ task' \in [Tasks -> TaskState]
    BY <1>4 DEF SweepCommit, AttemptState, Terminal, TaskState, TypeOK
  <2>4. QED BY <1>4, <2>1, <2>2, <2>3 DEF SweepCommit, TypeOK
<1>5. CASE SweepAborted(s)
  <2>1. sweep' \in [Sweepers -> SweepType]
    BY <1>5, <1>a, QuietType DEF SweepAborted
  <2>2. QED BY <1>5, <2>1 DEF SweepAborted, TypeOK, Control
<1>6. QED BY <1>1, <1>2, <1>3, <1>4, <1>5 DEF Sweep

\* Every step of a process, of a human and of the clock keeps the types.
LEMMA TypeEnvironment ==
  ASSUME TypeOK,
         \/ \E p \in Procs : WriteHeartbeats(p) \/ Start(p) \/ Crash(p)
         \/ \E t \in PlanTasks : Decide(t)
         \/ Tick
  PROVE  TypeOK'
<1> USE DEF TypeOK, attempts, remote
<1>1. ASSUME NEW p \in Procs, WriteHeartbeats(p)
      PROVE  TypeOK'
  <2>1. sweep' \in [Sweepers -> SweepType]
    BY <1>1, SetPcType DEF WriteHeartbeats, Sweepers
  <2>2. QED BY <1>1, <2>1 DEF WriteHeartbeats
<1>2. ASSUME NEW p \in Procs, Start(p)
      PROVE  TypeOK'
  <2>1. sweep' \in [Sweepers -> SweepType]
    BY <1>2, SetPcType DEF Start, Sweepers
  <2>2. QED BY <1>2, <2>1 DEF Start
<1>3. ASSUME NEW p \in Procs, Crash(p)
      PROVE  TypeOK'
  <2>1. sweep' \in [Sweepers -> SweepType]
    BY <1>3, QuietType DEF Crash
  <2>2. QED BY <1>3, <2>1 DEF Crash, Control
<1>4. ASSUME NEW t \in PlanTasks, Decide(t)
      PROVE  TypeOK'
  BY <1>4, PlanAssumption, Zenon DEF Decide
<1>5. CASE Tick
  BY <1>5, ClockAssumption DEF Tick
<1>6. QED BY <1>1, <1>2, <1>3, <1>4, <1>5

\* The initial states have their types.
LEMMA TypeInit == Init => TypeOK
<1> SUFFICES ASSUME Init PROVE TypeOK
  OBVIOUS
<1>1. sweep \in [Sweepers -> SweepType]
  BY QuietType DEF Init
<1>2. call \in [Requests -> Arguments]
  BY CallAssumption DEF Init
<1>3. QED
  BY <1>1, <1>2, ClockAssumption DEF Init, TypeOK, Control, TaskState, AttemptState, Effects, Phases

\* Every step of the specification keeps the types.
LEMMA TypeStep == TypeOK /\ [Next]_vars => TypeOK'
<1>1. ASSUME TypeOK, UNCHANGED vars PROVE TypeOK'
  BY <1>1 DEF TypeOK, vars
<1>2. QED
  BY <1>1, TypeBegin, TypeRun, TypeRemote, TypeEffect, TypeSweep, TypeEnvironment DEF Next

\* Whatever the code does, every row, lease and local variable has its type.
THEOREM TypeCorrect == Spec => []TypeOK
BY TypeInit, TypeStep, PTL DEF Spec

-----------------------------------------------------------------------------
(* The inductive invariant.  What the code keeps true of one Attempt is spread *)
(* over its row, the position of its request and the local state of the        *)
(* sweeps; each part below relates two of them.                                *)

\* The position of a request and the row it inserted: no row before the commit
\* of begin, a row from there on, the adapter started once and behind a row.
RowInv ==
  \A r \in Requests :
    /\ pc[r] \in {"idle", "recover", "read", "insert", "claim"} => status[r] = "none"
    /\ pc[r] \in {"workspace", "adapter", "finish", "settle", "evaluate", "failing", "gated"}
         => status[r] # "none"
    /\ r \in ran => status[r] # "none"
    /\ pc[r] = "workspace" => r \notin ran
    /\ pc[r] \in {"adapter", "finish", "settle", "evaluate", "gated"} => r \in ran

\* The row locks: an Attempt that an open transaction has updated is still
\* running in the database, and only one transaction has it.
LockInv ==
  /\ \A r \in Requests : pc[r] = "evaluate" => status[r] = "running"
  /\ \A s \in Sweepers, a \in Requests : a \in sweep[s].settled =>
       /\ status[a] = "running" /\ pc[a] # "evaluate"
       /\ \A z \in Sweepers : a \in sweep[z].settled => z = s

\* The unique index: rows and uncommitted INSERTs have different keys.
KeyInv ==
  \A a, b \in Requests : a # b /\ call[a].key = call[b].key =>
    /\ ~(Exists(a) /\ Exists(b))
    /\ pc[a] = "claim" => ~Exists(b) /\ pc[b] # "claim"

\* Evidence and error class are written with the status that ends the Attempt.
EvidenceInv ==
  \A a \in Requests :
    /\ status[a] \in {"none", "running"} => verdict[a] = "none" /\ ~killed[a]
    /\ killed[a] => status[a] = "failed" /\ verdict[a] = "none"
    /\ verdict[a] \in Verdicts => status[a] = "completed"

\* What a sweep knows of the Attempts it has judged.
LeaseInv ==
  \A s \in Sweepers, a \in Requests :
    /\ a \in sweep[s].todo \cup sweep[s].cur => status[a] # "none"
    /\ a \in sweep[s].expired => clock - sweep[s].lease[a] > TTL
    /\ a \in sweep[s].cur => a \in sweep[s].expired \/ ~HeldBy(call[a].host, a)
    /\ a \in sweep[s].settled => clock - beat[a] > TTL \/ ~HeldBy(call[a].host, a)

\* Steps on sandboxes, on decisions, and stuttering: no invariant below sees them.
Idle == UNCHANGED <<clock, task, call, pc, status, beat, killed, verdict, sweep, ran>>

\* A step of the specification is a step of one of the actions or is idle.
LEMMA NextCases ==
  [Next]_vars =>
    \/ \E r \in Requests :
         \/ BeginGate(r) \/ BeginLookup(r) \/ BeginRead(r) \/ BeginInsert(r)
         \/ BeginClaim(r) \/ BeginInvalid(r) \/ BeginWorkspace(r)
         \/ AdapterReturns(r) \/ AdapterRaises(r) \/ FinalizeCancel(r)
         \/ FinishEnter(r) \/ FinishSettle(r) \/ FinishEvaluate(r)
         \/ FinishEvaluateRaises(r) \/ FinishEscapes(r) \/ FailAttempt(r)
    \/ \E s \in Sweepers :
         \/ SweepSelect(s) \/ SweepCommit(s) \/ SweepAborted(s)
         \/ \E a \in Requests : SweepCheck(s, a) \/ SweepSwap(s, a)
    \/ \E p \in Procs : WriteHeartbeats(p) \/ Start(p) \/ Crash(p)
    \/ Tick
    \/ Idle
<1> SUFFICES ASSUME [Next]_vars, ~Idle
             PROVE  \/ \E r \in Requests : Begin(r) \/ Adapter(r) \/ Finish(r)
                    \/ \E s \in Sweepers : Sweep(s)
                    \/ \E p \in Procs : WriteHeartbeats(p) \/ Start(p) \/ Crash(p)
                    \/ Tick
  BY DEF Begin, Adapter, Finish, Sweep
<1>1. ASSUME NEW r \in Requests, NEW b \in Boxes, Remote(r, b) PROVE Idle
  BY <1>1 DEF Remote, OpenRemoteSandbox, ProviderCreate, IdentifySandbox, ProviderGone,
              VerifyAbsent, Idle, attempts
<1>2. ASSUME NEW a \in Requests, Effect(a) PROVE Idle
  BY <1>2 DEF Effect, ConfirmLive, RefreshRead, RefreshWrite, Idle, attempts
<1>3. ASSUME NEW t \in PlanTasks, Decide(t) PROVE Idle
  BY <1>3 DEF Decide, Idle, attempts
<1>4. ASSUME UNCHANGED vars PROVE Idle
  BY <1>4 DEF vars, Idle
<1>5. QED BY <1>1, <1>2, <1>3, <1>4 DEF Next

\* No step changes the arguments of a request.
LEMMA CallFixed == [Next]_vars => call' = call
BY NextCases DEF Idle,
   BeginGate, BeginLookup, BeginRead, BeginInsert, BeginClaim, BeginInvalid, BeginWorkspace,
   AdapterReturns, AdapterRaises, FinalizeCancel, FinishEnter, FinishSettle,
   FinishEvaluate, FinishEvaluateRaises, FinishEscapes, FailAttempt,
   SweepSelect, SweepCommit, SweepAborted, SweepCheck, SweepSwap, WriteHeartbeats, Start, Crash,
   Tick

\* Only the commit of a sweep writes the error class killed.
LEMMA KilledFixed == [Next]_vars => killed' = killed \/ \E s \in Sweepers : SweepCommit(s)
BY NextCases DEF attempts, Idle,
   BeginGate, BeginLookup, BeginRead, BeginInsert, BeginClaim, BeginInvalid, BeginWorkspace,
   AdapterReturns, AdapterRaises, FinalizeCancel, FinishEnter, FinishSettle,
   FinishEvaluate, FinishEvaluateRaises, FinishEscapes, FailAttempt,
   SweepSelect, SweepAborted, SweepCheck, SweepSwap, WriteHeartbeats, Start, Crash, Tick

\* Every step keeps RowInv: the position moves with the row and with ran.
LEMMA RowStep ==
  ASSUME TypeOK, RowInv, LockInv, [Next]_vars
  PROVE  RowInv'
<1> USE DEF attempts
<1>a. /\ pc \in [Requests -> Control] /\ status \in [Requests -> AttemptState]
      /\ RowInv
  BY DEF TypeOK
<1>1. ASSUME NEW r \in Requests, BeginGate(r) PROVE RowInv'
  BY <1>1, <1>a DEF BeginGate, RowInv, OwnedRunning
<1>2. ASSUME NEW r \in Requests, BeginLookup(r) PROVE RowInv'
  BY <1>2, <1>a DEF BeginLookup, RowInv, OwnedRunning
<1>3. ASSUME NEW r \in Requests, BeginRead(r) PROVE RowInv'
  BY <1>3, <1>a DEF BeginRead, RowInv, OwnedRunning
<1>4. ASSUME NEW r \in Requests, BeginInsert(r) PROVE RowInv'
  BY <1>4, <1>a DEF BeginInsert, RowInv, OwnedRunning
<1>5. ASSUME NEW r \in Requests, BeginClaim(r) PROVE RowInv'
  BY <1>5, <1>a DEF BeginClaim, RowInv, OwnedRunning
<1>6. ASSUME NEW r \in Requests, BeginInvalid(r) PROVE RowInv'
  BY <1>6, <1>a DEF BeginInvalid, RowInv, OwnedRunning
<1>7. ASSUME NEW r \in Requests, BeginWorkspace(r) PROVE RowInv'
  BY <1>7, <1>a DEF BeginWorkspace, RowInv, OwnedRunning
<1>8. ASSUME NEW r \in Requests, AdapterReturns(r) PROVE RowInv'
  BY <1>8, <1>a DEF AdapterReturns, RowInv, OwnedRunning
<1>9. ASSUME NEW r \in Requests, AdapterRaises(r) PROVE RowInv'
  BY <1>9, <1>a DEF AdapterRaises, RowInv, OwnedRunning
<1>10. ASSUME NEW r \in Requests, FinalizeCancel(r) PROVE RowInv'
  BY <1>10, <1>a DEF FinalizeCancel, RowInv, OwnedRunning
<1>11. ASSUME NEW r \in Requests, FinishEnter(r) PROVE RowInv'
  BY <1>11, <1>a DEF FinishEnter, RowInv, OwnedRunning
<1>12. ASSUME NEW r \in Requests, FinishSettle(r) PROVE RowInv'
  BY <1>12, <1>a DEF FinishSettle, RowInv, OwnedRunning
<1>13. ASSUME NEW r \in Requests, FinishEvaluate(r) PROVE RowInv'
  BY <1>13, <1>a DEF FinishEvaluate, RowInv, OwnedRunning
<1>14. ASSUME NEW r \in Requests, FinishEvaluateRaises(r) PROVE RowInv'
  BY <1>14, <1>a DEF FinishEvaluateRaises, RowInv, OwnedRunning
<1>15. ASSUME NEW r \in Requests, FinishEscapes(r) PROVE RowInv'
  BY <1>15, <1>a DEF FinishEscapes, RowInv, OwnedRunning
<1>16. ASSUME NEW r \in Requests, FailAttempt(r) PROVE RowInv'
  BY <1>16, <1>a DEF FailAttempt, RowInv, OwnedRunning
<1>17. ASSUME NEW s \in Sweepers, SweepSelect(s) PROVE RowInv'
  BY <1>17, <1>a DEF SweepSelect, RowInv, OwnedRunning
<1>18. ASSUME NEW s \in Sweepers, SweepCommit(s) PROVE RowInv'
  BY <1>18, <1>a, LockInv DEF SweepCommit, RowInv, LockInv
<1>19. ASSUME NEW s \in Sweepers, SweepAborted(s) PROVE RowInv'
  BY <1>19, <1>a DEF SweepAborted, RowInv, OwnedRunning
<1>20. ASSUME NEW s \in Sweepers, NEW a \in Requests, SweepCheck(s, a) PROVE RowInv'
  BY <1>20, <1>a DEF SweepCheck, RowInv, OwnedRunning
<1>21. ASSUME NEW s \in Sweepers, NEW a \in Requests, SweepSwap(s, a) PROVE RowInv'
  BY <1>21, <1>a DEF SweepSwap, RowInv, OwnedRunning
<1>22. ASSUME NEW p \in Procs, WriteHeartbeats(p) PROVE RowInv'
  BY <1>22, <1>a DEF WriteHeartbeats, RowInv, OwnedRunning
<1>23. ASSUME NEW p \in Procs, Start(p) PROVE RowInv'
  BY <1>23, <1>a DEF Start, RowInv, OwnedRunning
<1>24. ASSUME NEW p \in Procs, Crash(p) PROVE RowInv'
  BY <1>24, <1>a DEF Crash, RowInv, OwnedRunning
<1>25. ASSUME Tick PROVE RowInv'
  BY <1>25, <1>a DEF Tick, RowInv, OwnedRunning
<1>26. ASSUME Idle PROVE RowInv'
  BY <1>26 DEF Idle, RowInv
<1>27. QED
  BY <1>1, <1>2, <1>3, <1>4, <1>5, <1>6, <1>7, <1>8, <1>9, <1>10, <1>11, <1>12, <1>13, <1>14,
     <1>15, <1>16, <1>17, <1>18, <1>19, <1>20, <1>21, <1>22, <1>23, <1>24, <1>25, <1>26,
     NextCases

\* Every step keeps LockInv: who updates a row waits until nobody holds it.
LEMMA LockStep ==
  ASSUME TypeOK, RowInv, LockInv, [Next]_vars
  PROVE  LockInv'
<1> USE DEF attempts
<1>a. /\ pc \in [Requests -> Control] /\ status \in [Requests -> AttemptState]
      /\ sweep \in [Sweepers -> SweepType]
  BY DEF TypeOK
<1>1. ASSUME NEW r \in Requests, BeginGate(r) PROVE LockInv'
  <2>1. \A z \in Sweepers : sweep'[z].settled = sweep[z].settled
    BY <1>1, <1>a DEF BeginGate, SweepType
  <2>2. QED BY <1>1, <1>a, <2>1, LockInv DEF BeginGate, LockInv
<1>2. ASSUME NEW r \in Requests, BeginLookup(r) PROVE LockInv'
  BY <1>2, <1>a, LockInv DEF BeginLookup, LockInv, OwnedRunning, AttemptFree
<1>3. ASSUME NEW r \in Requests, BeginRead(r) PROVE LockInv'
  BY <1>3, <1>a, LockInv DEF BeginRead, LockInv, OwnedRunning, AttemptFree
<1>4. ASSUME NEW r \in Requests, BeginInsert(r) PROVE LockInv'
  BY <1>4, <1>a, LockInv DEF BeginInsert, LockInv, OwnedRunning, AttemptFree
<1>5. ASSUME NEW r \in Requests, BeginClaim(r) PROVE LockInv'
  BY <1>5, <1>a, LockInv DEF BeginClaim, LockInv, OwnedRunning, AttemptFree
<1>6. ASSUME NEW r \in Requests, BeginInvalid(r) PROVE LockInv'
  BY <1>6, <1>a, LockInv DEF BeginInvalid, LockInv, OwnedRunning, AttemptFree
<1>7. ASSUME NEW r \in Requests, BeginWorkspace(r) PROVE LockInv'
  BY <1>7, <1>a, LockInv DEF BeginWorkspace, LockInv, OwnedRunning, AttemptFree
<1>8. ASSUME NEW r \in Requests, AdapterReturns(r) PROVE LockInv'
  BY <1>8, <1>a, LockInv DEF AdapterReturns, LockInv, OwnedRunning, AttemptFree
<1>9. ASSUME NEW r \in Requests, AdapterRaises(r) PROVE LockInv'
  BY <1>9, <1>a, LockInv DEF AdapterRaises, LockInv, OwnedRunning, AttemptFree
<1>10. ASSUME NEW r \in Requests, FinalizeCancel(r) PROVE LockInv'
  BY <1>10, <1>a, LockInv DEF FinalizeCancel, LockInv, OwnedRunning, AttemptFree
<1>11. ASSUME NEW r \in Requests, FinishEnter(r) PROVE LockInv'
  BY <1>11, <1>a, LockInv DEF FinishEnter, LockInv, OwnedRunning, AttemptFree
<1>12. ASSUME NEW r \in Requests, FinishSettle(r) PROVE LockInv'
  BY <1>12, <1>a, LockInv DEF FinishSettle, LockInv, OwnedRunning, AttemptFree
<1>13. ASSUME NEW r \in Requests, FinishEvaluate(r) PROVE LockInv'
  BY <1>13, <1>a, LockInv DEF FinishEvaluate, LockInv, OwnedRunning, AttemptFree
<1>14. ASSUME NEW r \in Requests, FinishEvaluateRaises(r) PROVE LockInv'
  BY <1>14, <1>a, LockInv DEF FinishEvaluateRaises, LockInv, OwnedRunning, AttemptFree
<1>15. ASSUME NEW r \in Requests, FinishEscapes(r) PROVE LockInv'
  BY <1>15, <1>a, LockInv DEF FinishEscapes, LockInv, OwnedRunning, AttemptFree
<1>16. ASSUME NEW r \in Requests, FailAttempt(r) PROVE LockInv'
  BY <1>16, <1>a, LockInv DEF FailAttempt, LockInv, OwnedRunning, AttemptFree
<1>17. ASSUME NEW s \in Sweepers, SweepSelect(s) PROVE LockInv'
  <2>1. \A z \in Sweepers : sweep'[z].settled \subseteq sweep[z].settled
    BY <1>17, <1>a DEF SweepSelect, SweepType, Quiet
  <2>2. QED BY <1>17, <1>a, <2>1, LockInv DEF SweepSelect, LockInv
<1>18. ASSUME NEW s \in Sweepers, SweepCommit(s) PROVE LockInv'
  <2>1. /\ \A z \in Sweepers : sweep'[z].settled \subseteq sweep[z].settled
        /\ sweep'[s].settled = {}
    BY <1>18, <1>a DEF SweepCommit, SweepType, Quiet
  <2>2. \A z \in Sweepers, a \in Requests : a \in sweep'[z].settled => a \notin sweep[s].settled
    BY <2>1, LockInv DEF LockInv
  <2>3. \A a \in Requests : a \in sweep[s].settled => pc[a] # "evaluate"
    BY LockInv DEF LockInv
  <2>4. /\ \A a \in Requests : a \notin sweep[s].settled => status'[a] = status[a]
        /\ pc' = pc
    BY <1>18, <1>a DEF SweepCommit
  <2>5. QED BY <2>1, <2>2, <2>3, <2>4, LockInv DEF LockInv
<1>19. ASSUME NEW s \in Sweepers, SweepAborted(s) PROVE LockInv'
  <2>1. \A z \in Sweepers : sweep'[z].settled \subseteq sweep[z].settled
    BY <1>19, <1>a DEF SweepAborted, SweepType, Quiet
  <2>2. \A q \in Requests : pc'[q] = pc[q] \/ pc'[q] = "done"
    BY <1>19, <1>a DEF SweepAborted
  <2>3. status' = status
    BY <1>19 DEF SweepAborted
  <2>4. QED BY <2>1, <2>2, <2>3, LockInv DEF LockInv
<1>20. ASSUME NEW s \in Sweepers, NEW a \in Requests, SweepCheck(s, a) PROVE LockInv'
  BY <1>20, <1>a, LockInv DEF SweepCheck, LockInv, OwnedRunning, AttemptFree
<1>21. ASSUME NEW s \in Sweepers, NEW a \in Requests, SweepSwap(s, a) PROVE LockInv'
  <2>1. /\ \A z \in Sweepers \ {s} : sweep'[z].settled = sweep[z].settled
        /\ sweep'[s].settled \subseteq sweep[s].settled \cup {a}
        /\ a \in sweep'[s].settled => status[a] = "running" \/ a \in sweep[s].settled
    BY <1>21, <1>a DEF SweepSwap, SweepType, SwapWins
  <2>2. AttemptFree(a) /\ pc' = pc /\ status' = status
    BY <1>21 DEF SweepSwap
  <2>3. QED BY <2>1, <2>2, LockInv DEF LockInv, AttemptFree
<1>22. ASSUME NEW p \in Procs, WriteHeartbeats(p) PROVE LockInv'
  BY <1>22, <1>a, LockInv DEF WriteHeartbeats, LockInv, OwnedRunning, AttemptFree
<1>23. ASSUME NEW p \in Procs, Start(p) PROVE LockInv'
  BY <1>23, <1>a, LockInv DEF Start, LockInv, OwnedRunning, AttemptFree
<1>24. ASSUME NEW p \in Procs, Crash(p) PROVE LockInv'
  <2>1. \A z \in Sweepers : sweep'[z].settled \subseteq sweep[z].settled
    BY <1>24, <1>a DEF Crash, SweepType, Quiet
  <2>2. \A q \in Requests : pc'[q] = pc[q] \/ pc'[q] = "done"
    BY <1>24, <1>a DEF Crash
  <2>3. status' = status
    BY <1>24 DEF Crash
  <2>4. QED BY <2>1, <2>2, <2>3, LockInv DEF LockInv
<1>25. ASSUME Tick PROVE LockInv'
  BY <1>25, <1>a, LockInv DEF Tick, LockInv, OwnedRunning, AttemptFree
<1>26. ASSUME Idle PROVE LockInv'
  BY <1>26 DEF Idle, LockInv
<1>27. QED
  BY <1>1, <1>2, <1>3, <1>4, <1>5, <1>6, <1>7, <1>8, <1>9, <1>10, <1>11, <1>12, <1>13, <1>14,
     <1>15, <1>16, <1>17, <1>18, <1>19, <1>20, <1>21, <1>22, <1>23, <1>24, <1>25, <1>26,
     NextCases

\* Every step keeps KeyInv: an INSERT waits for an open one of its key and gives
\* way to a committed one.
LEMMA KeyStep ==
  ASSUME TypeOK, RowInv, LockInv, KeyInv, [Next]_vars
  PROVE  KeyInv'
<1> USE DEF attempts
<1>a. pc \in [Requests -> Control] /\ status \in [Requests -> AttemptState]
  BY DEF TypeOK
<1>1. ASSUME NEW r \in Requests, BeginGate(r) PROVE KeyInv'
  BY <1>1, <1>a, KeyInv DEF BeginGate, KeyInv, Exists
<1>2. ASSUME NEW r \in Requests, BeginLookup(r) PROVE KeyInv'
  BY <1>2, <1>a, KeyInv DEF BeginLookup, KeyInv, Exists
<1>3. ASSUME NEW r \in Requests, BeginRead(r) PROVE KeyInv'
  BY <1>3, <1>a, KeyInv DEF BeginRead, KeyInv, Exists
<1>4. ASSUME NEW r \in Requests, BeginInsert(r) PROVE KeyInv'
  BY <1>4, <1>a, KeyInv DEF BeginInsert, UniqueViolation, KeyTaken, KeyInv, Exists
<1>5. ASSUME NEW r \in Requests, BeginClaim(r) PROVE KeyInv'
  BY <1>5, <1>a, KeyInv DEF BeginClaim, KeyInv, Exists
<1>6. ASSUME NEW r \in Requests, BeginInvalid(r) PROVE KeyInv'
  BY <1>6, <1>a, KeyInv DEF BeginInvalid, KeyInv, Exists
<1>7. ASSUME NEW r \in Requests, BeginWorkspace(r) PROVE KeyInv'
  BY <1>7, <1>a, KeyInv DEF BeginWorkspace, KeyInv, Exists
<1>8. ASSUME NEW r \in Requests, AdapterReturns(r) PROVE KeyInv'
  BY <1>8, <1>a, KeyInv DEF AdapterReturns, KeyInv, Exists
<1>9. ASSUME NEW r \in Requests, AdapterRaises(r) PROVE KeyInv'
  BY <1>9, <1>a, KeyInv DEF AdapterRaises, KeyInv, Exists
<1>10. ASSUME NEW r \in Requests, FinalizeCancel(r) PROVE KeyInv'
  BY <1>10, <1>a, KeyInv DEF FinalizeCancel, OwnedRunning, KeyInv, Exists
<1>11. ASSUME NEW r \in Requests, FinishEnter(r) PROVE KeyInv'
  BY <1>11, <1>a, KeyInv DEF FinishEnter, KeyInv, Exists
<1>12. ASSUME NEW r \in Requests, FinishSettle(r) PROVE KeyInv'
  BY <1>12, <1>a, KeyInv DEF FinishSettle, OwnedRunning, KeyInv, Exists
<1>13. ASSUME NEW r \in Requests, FinishEvaluate(r) PROVE KeyInv'
  BY <1>13, <1>a, KeyInv, RowInv DEF FinishEvaluate, RowInv, KeyInv, Exists
<1>14. ASSUME NEW r \in Requests, FinishEvaluateRaises(r) PROVE KeyInv'
  BY <1>14, <1>a, KeyInv, RowInv DEF FinishEvaluateRaises, RowInv, KeyInv, Exists
<1>15. ASSUME NEW r \in Requests, FinishEscapes(r) PROVE KeyInv'
  BY <1>15, <1>a, KeyInv DEF FinishEscapes, KeyInv, Exists
<1>16. ASSUME NEW r \in Requests, FailAttempt(r) PROVE KeyInv'
  BY <1>16, <1>a, KeyInv DEF FailAttempt, OwnedRunning, KeyInv, Exists
<1>17. ASSUME NEW s \in Sweepers, SweepSelect(s) PROVE KeyInv'
  BY <1>17, <1>a, KeyInv DEF SweepSelect, KeyInv, Exists
<1>18. ASSUME NEW s \in Sweepers, SweepCommit(s) PROVE KeyInv'
  BY <1>18, <1>a, KeyInv, LockInv DEF SweepCommit, LockInv, KeyInv, Exists
<1>19. ASSUME NEW s \in Sweepers, SweepAborted(s) PROVE KeyInv'
  BY <1>19, <1>a, KeyInv DEF SweepAborted, KeyInv, Exists
<1>20. ASSUME NEW s \in Sweepers, NEW a \in Requests, SweepCheck(s, a) PROVE KeyInv'
  BY <1>20, <1>a, KeyInv DEF SweepCheck, KeyInv, Exists
<1>21. ASSUME NEW s \in Sweepers, NEW a \in Requests, SweepSwap(s, a) PROVE KeyInv'
  BY <1>21, <1>a, KeyInv DEF SweepSwap, KeyInv, Exists
<1>22. ASSUME NEW p \in Procs, WriteHeartbeats(p) PROVE KeyInv'
  BY <1>22, <1>a, KeyInv DEF WriteHeartbeats, KeyInv, Exists
<1>23. ASSUME NEW p \in Procs, Start(p) PROVE KeyInv'
  BY <1>23, <1>a, KeyInv DEF Start, KeyInv, Exists
<1>24. ASSUME NEW p \in Procs, Crash(p) PROVE KeyInv'
  BY <1>24, <1>a, KeyInv DEF Crash, KeyInv, Exists
<1>25. ASSUME Tick PROVE KeyInv'
  BY <1>25, <1>a, KeyInv DEF Tick, KeyInv, Exists
<1>26. ASSUME Idle PROVE KeyInv'
  BY <1>26 DEF Idle, KeyInv, Exists
<1>27. QED
  BY <1>1, <1>2, <1>3, <1>4, <1>5, <1>6, <1>7, <1>8, <1>9, <1>10, <1>11, <1>12, <1>13, <1>14,
     <1>15, <1>16, <1>17, <1>18, <1>19, <1>20, <1>21, <1>22, <1>23, <1>24, <1>25, <1>26,
     NextCases

\* Every step keeps EvidenceInv: it is written by who ends the Attempt.
LEMMA EvidenceStep ==
  ASSUME TypeOK, RowInv, LockInv, EvidenceInv, [Next]_vars
  PROVE  EvidenceInv'
<1> USE DEF attempts
<1>a. /\ pc \in [Requests -> Control] /\ status \in [Requests -> AttemptState]
      /\ verdict \in [Requests -> {"none", "exec"} \cup Verdicts]
      /\ killed \in [Requests -> BOOLEAN]
  BY DEF TypeOK
<1>1. ASSUME NEW r \in Requests, BeginGate(r) PROVE EvidenceInv'
  BY <1>1, EvidenceInv DEF BeginGate, EvidenceInv
<1>2. ASSUME NEW r \in Requests, BeginLookup(r) PROVE EvidenceInv'
  BY <1>2, EvidenceInv DEF BeginLookup, EvidenceInv
<1>3. ASSUME NEW r \in Requests, BeginRead(r) PROVE EvidenceInv'
  BY <1>3, EvidenceInv DEF BeginRead, EvidenceInv
<1>4. ASSUME NEW r \in Requests, BeginInsert(r) PROVE EvidenceInv'
  BY <1>4, EvidenceInv DEF BeginInsert, EvidenceInv
<1>5. ASSUME NEW r \in Requests, BeginClaim(r) PROVE EvidenceInv'
  BY <1>5, <1>a, EvidenceInv, RowInv DEF BeginClaim, RowInv, EvidenceInv
<1>6. ASSUME NEW r \in Requests, BeginInvalid(r) PROVE EvidenceInv'
  BY <1>6, EvidenceInv DEF BeginInvalid, EvidenceInv
<1>7. ASSUME NEW r \in Requests, BeginWorkspace(r) PROVE EvidenceInv'
  BY <1>7, EvidenceInv DEF BeginWorkspace, EvidenceInv
<1>8. ASSUME NEW r \in Requests, AdapterReturns(r) PROVE EvidenceInv'
  BY <1>8, EvidenceInv DEF AdapterReturns, EvidenceInv
<1>9. ASSUME NEW r \in Requests, AdapterRaises(r) PROVE EvidenceInv'
  BY <1>9, EvidenceInv DEF AdapterRaises, EvidenceInv
<1>10. ASSUME NEW r \in Requests, FinalizeCancel(r) PROVE EvidenceInv'
  BY <1>10, <1>a, EvidenceInv DEF FinalizeCancel, OwnedRunning, EvidenceInv
<1>11. ASSUME NEW r \in Requests, FinishEnter(r) PROVE EvidenceInv'
  BY <1>11, EvidenceInv DEF FinishEnter, EvidenceInv
<1>12. ASSUME NEW r \in Requests, FinishSettle(r) PROVE EvidenceInv'
  BY <1>12, <1>a, EvidenceInv DEF FinishSettle, OwnedRunning, EvidenceInv, Verdicts
<1>13. ASSUME NEW r \in Requests, FinishEvaluate(r) PROVE EvidenceInv'
  BY <1>13, <1>a, EvidenceInv, LockInv DEF FinishEvaluate, LockInv, EvidenceInv
<1>14. ASSUME NEW r \in Requests, FinishEvaluateRaises(r) PROVE EvidenceInv'
  BY <1>14, <1>a, EvidenceInv, LockInv DEF FinishEvaluateRaises, LockInv, EvidenceInv, Verdicts
<1>15. ASSUME NEW r \in Requests, FinishEscapes(r) PROVE EvidenceInv'
  BY <1>15, EvidenceInv DEF FinishEscapes, EvidenceInv
<1>16. ASSUME NEW r \in Requests, FailAttempt(r) PROVE EvidenceInv'
  BY <1>16, <1>a, EvidenceInv DEF FailAttempt, OwnedRunning, EvidenceInv
<1>17. ASSUME NEW s \in Sweepers, SweepSelect(s) PROVE EvidenceInv'
  BY <1>17, EvidenceInv DEF SweepSelect, EvidenceInv
<1>18. ASSUME NEW s \in Sweepers, SweepCommit(s) PROVE EvidenceInv'
  BY <1>18, <1>a, EvidenceInv, LockInv DEF SweepCommit, LockInv, EvidenceInv
<1>19. ASSUME NEW s \in Sweepers, SweepAborted(s) PROVE EvidenceInv'
  BY <1>19, EvidenceInv DEF SweepAborted, EvidenceInv
<1>20. ASSUME NEW s \in Sweepers, NEW a \in Requests, SweepCheck(s, a) PROVE EvidenceInv'
  BY <1>20, EvidenceInv DEF SweepCheck, EvidenceInv
<1>21. ASSUME NEW s \in Sweepers, NEW a \in Requests, SweepSwap(s, a) PROVE EvidenceInv'
  BY <1>21, EvidenceInv DEF SweepSwap, EvidenceInv
<1>22. ASSUME NEW p \in Procs, WriteHeartbeats(p) PROVE EvidenceInv'
  BY <1>22, EvidenceInv DEF WriteHeartbeats, EvidenceInv
<1>23. ASSUME NEW p \in Procs, Start(p) PROVE EvidenceInv'
  BY <1>23, EvidenceInv DEF Start, EvidenceInv
<1>24. ASSUME NEW p \in Procs, Crash(p) PROVE EvidenceInv'
  BY <1>24, EvidenceInv DEF Crash, EvidenceInv
<1>25. ASSUME Tick PROVE EvidenceInv'
  BY <1>25, EvidenceInv DEF Tick, EvidenceInv
<1>26. ASSUME Idle PROVE EvidenceInv'
  BY <1>26 DEF Idle, EvidenceInv
<1>27. QED
  BY <1>1, <1>2, <1>3, <1>4, <1>5, <1>6, <1>7, <1>8, <1>9, <1>10, <1>11, <1>12, <1>13, <1>14,
     <1>15, <1>16, <1>17, <1>18, <1>19, <1>20, <1>21, <1>22, <1>23, <1>24, <1>25, <1>26,
     NextCases

\* Every step keeps LeaseInv: a lease that has run out stays so while the row is
\* locked, and an Attempt nobody serves is never served again.
LEMMA LeaseStep ==
  ASSUME TypeOK, RowInv, LockInv, LeaseInv, [Next]_vars
  PROVE  LeaseInv'
<1> USE DEF attempts
<1>a. /\ pc \in [Requests -> Control] /\ status \in [Requests -> AttemptState]
      /\ beat \in [Requests -> Nat]
  BY DEF TypeOK
<1>b. /\ sweep \in [Sweepers -> SweepType]
      /\ clock \in Nat /\ TTL \in Nat /\ beat \in [Requests -> Nat]
  BY ClockAssumption DEF TypeOK
<1>1. ASSUME NEW r \in Requests, BeginGate(r) PROVE LeaseInv'
  <2>1. /\ \A z \in Sweepers : /\ sweep'[z].todo = sweep[z].todo /\ sweep'[z].cur = sweep[z].cur
                               /\ sweep'[z].expired = sweep[z].expired
                               /\ sweep'[z].lease = sweep[z].lease
                               /\ sweep'[z].settled = sweep[z].settled
    <3>1. sweep' = sweep \/ (r \in Sweepers /\ sweep' = [sweep EXCEPT ![r].pc = "select"])
      BY <1>1 DEF BeginGate, Sweepers
    <3>2. QED BY <3>1, <1>b DEF SweepType
  <2>2. QED BY <1>1, <1>a, <2>1, LeaseInv DEF BeginGate, LeaseInv, HeldBy
<1>2. ASSUME NEW r \in Requests, BeginLookup(r) PROVE LeaseInv'
  BY <1>2, <1>a, LeaseInv DEF BeginLookup, LeaseInv, HeldBy
<1>3. ASSUME NEW r \in Requests, BeginRead(r) PROVE LeaseInv'
  BY <1>3, <1>a, LeaseInv DEF BeginRead, LeaseInv, HeldBy
<1>4. ASSUME NEW r \in Requests, BeginInsert(r) PROVE LeaseInv'
  BY <1>4, <1>a, LeaseInv DEF BeginInsert, LeaseInv, HeldBy
<1>5. ASSUME NEW r \in Requests, BeginClaim(r) PROVE LeaseInv'
  BY <1>5, <1>a, LeaseInv, RowInv, LockInv DEF BeginClaim, RowInv, LockInv, LeaseInv, HeldBy
<1>6. ASSUME NEW r \in Requests, BeginInvalid(r) PROVE LeaseInv'
  BY <1>6, <1>a, LeaseInv DEF BeginInvalid, LeaseInv, HeldBy
<1>7. ASSUME NEW r \in Requests, BeginWorkspace(r) PROVE LeaseInv'
  BY <1>7, <1>a, LeaseInv DEF BeginWorkspace, LeaseInv, HeldBy
<1>8. ASSUME NEW r \in Requests, AdapterReturns(r) PROVE LeaseInv'
  BY <1>8, <1>a, LeaseInv DEF AdapterReturns, LeaseInv, HeldBy
<1>9. ASSUME NEW r \in Requests, AdapterRaises(r) PROVE LeaseInv'
  BY <1>9, <1>a, LeaseInv DEF AdapterRaises, LeaseInv, HeldBy
<1>10. ASSUME NEW r \in Requests, FinalizeCancel(r) PROVE LeaseInv'
  BY <1>10, <1>a, LeaseInv DEF FinalizeCancel, OwnedRunning, LeaseInv, HeldBy
<1>11. ASSUME NEW r \in Requests, FinishEnter(r) PROVE LeaseInv'
  BY <1>11, <1>a, LeaseInv DEF FinishEnter, LeaseInv, HeldBy
<1>12. ASSUME NEW r \in Requests, FinishSettle(r) PROVE LeaseInv'
  BY <1>12, <1>a, LeaseInv DEF FinishSettle, OwnedRunning, LeaseInv, HeldBy
<1>13. ASSUME NEW r \in Requests, FinishEvaluate(r) PROVE LeaseInv'
  BY <1>13, <1>a, LeaseInv DEF FinishEvaluate, LeaseInv, HeldBy
<1>14. ASSUME NEW r \in Requests, FinishEvaluateRaises(r) PROVE LeaseInv'
  BY <1>14, <1>a, LeaseInv DEF FinishEvaluateRaises, LeaseInv, HeldBy
<1>15. ASSUME NEW r \in Requests, FinishEscapes(r) PROVE LeaseInv'
  BY <1>15, <1>a, LeaseInv DEF FinishEscapes, LeaseInv, HeldBy
<1>16. ASSUME NEW r \in Requests, FailAttempt(r) PROVE LeaseInv'
  BY <1>16, <1>a, LeaseInv DEF FailAttempt, OwnedRunning, LeaseInv, HeldBy
<1>17. ASSUME NEW s \in Sweepers, SweepSelect(s) PROVE LeaseInv'
  <2>1. \A z \in Sweepers \ {s} : sweep'[z] = sweep[z]
    BY <1>17, <1>b DEF SweepSelect
  <2>2. /\ sweep'[s].cur = {} /\ sweep'[s].settled = {}
        /\ \A a \in sweep'[s].todo : status[a] # "none"
        /\ \A a \in sweep'[s].expired : clock - sweep'[s].lease[a] > TTL
    BY <1>17, <1>b DEF SweepSelect, Quiet
  <2>3. QED BY <1>17, <2>1, <2>2, LeaseInv DEF SweepSelect, LeaseInv, HeldBy
<1>18. ASSUME NEW s \in Sweepers, SweepCommit(s) PROVE LeaseInv'
  <2>1. /\ \A z \in Sweepers : \/ sweep'[z] = sweep[z]
                               \/ sweep'[z] = Quiet
    BY <1>18, <1>b DEF SweepCommit
  <2>2. \A a \in Requests : status[a] # "none" => status'[a] # "none"
    BY <1>18, <1>a DEF SweepCommit
  <2>3. QED BY <1>18, <2>1, <2>2, LeaseInv DEF SweepCommit, LeaseInv, Quiet, HeldBy
<1>19. ASSUME NEW s \in Sweepers, SweepAborted(s) PROVE LeaseInv'
  <2>1. /\ \A z \in Sweepers : \/ sweep'[z] = sweep[z]
                               \/ sweep'[z] = Quiet
    BY <1>19, <1>b DEF SweepAborted
  <2>2. \A q \in Requests : pc'[q] = pc[q] \/ pc'[q] = "done"
    BY <1>19, <1>a DEF SweepAborted
  <2>3. QED BY <1>19, <2>1, <2>2, LeaseInv DEF SweepAborted, LeaseInv, Quiet, HeldBy
<1>20. ASSUME NEW s \in Sweepers, NEW a \in Requests, SweepCheck(s, a) PROVE LeaseInv'
  <2>1. \A z \in Sweepers \ {s} : sweep'[z] = sweep[z]
    BY <1>20, <1>b DEF SweepCheck
  <2>2. /\ sweep'[s].todo \subseteq sweep[s].todo /\ a \in sweep[s].todo
        /\ sweep'[s].expired = sweep[s].expired /\ sweep'[s].lease = sweep[s].lease
        /\ sweep'[s].settled = sweep[s].settled
    BY <1>20, <1>b DEF SweepCheck, SweepType
  <2>3. \/ sweep'[s].cur = {}
        \/ sweep'[s].cur = {a} /\ ~ExecutorIsLive(s, a)
    BY <1>20, <1>b DEF SweepCheck, SweepType
  <2>4. ~ExecutorIsLive(s, a) => a \in sweep[s].expired \/ ~HeldBy(call[a].host, a)
    BY DEF ExecutorIsLive
  <2>5. UNCHANGED <<call, pc, status, beat, clock>>
    BY <1>20 DEF SweepCheck
  <2>6. QED BY <2>1, <2>2, <2>3, <2>4, <2>5, LeaseInv DEF LeaseInv, HeldBy
<1>21. ASSUME NEW s \in Sweepers, NEW a \in Requests, SweepSwap(s, a) PROVE LeaseInv'
  <2>1. \A z \in Sweepers \ {s} : sweep'[z] = sweep[z]
    BY <1>21, <1>b DEF SweepSwap
  <2>2. /\ sweep'[s].todo = sweep[s].todo /\ sweep'[s].cur = {} /\ a \in sweep[s].cur
        /\ sweep'[s].expired = sweep[s].expired /\ sweep'[s].lease = sweep[s].lease
    BY <1>21, <1>b DEF SweepSwap, SweepType
  <2>3. \/ sweep'[s].settled = sweep[s].settled
        \/ sweep'[s].settled = sweep[s].settled \cup {a} /\ beat[a] = sweep[s].lease[a]
    BY <1>21, <1>b DEF SweepSwap, SwapWins, SweepType
  <2>4. UNCHANGED <<call, pc, status, beat, clock>>
    BY <1>21 DEF SweepSwap
  <2>5. QED BY <2>1, <2>2, <2>3, <2>4, LeaseInv DEF LeaseInv, HeldBy
<1>22. ASSUME NEW p \in Procs, WriteHeartbeats(p) PROVE LeaseInv'
  <2>1. /\ \A z \in Sweepers : /\ sweep'[z].todo = sweep[z].todo /\ sweep'[z].cur = sweep[z].cur
                               /\ sweep'[z].expired = sweep[z].expired
                               /\ sweep'[z].lease = sweep[z].lease
                               /\ sweep'[z].settled = sweep[z].settled
    BY <1>22, <1>b DEF WriteHeartbeats, SweepType, Sweepers
  <2>2. \A s \in Sweepers, a \in Requests : a \in sweep[s].settled => beat'[a] = beat[a]
    BY <1>22, <1>a DEF WriteHeartbeats, AttemptFree
  <2>3. QED BY <1>22, <1>a, <2>1, <2>2, LeaseInv DEF WriteHeartbeats, LeaseInv, HeldBy
<1>23. ASSUME NEW p \in Procs, Start(p) PROVE LeaseInv'
  <2>1. /\ \A z \in Sweepers : /\ sweep'[z].todo = sweep[z].todo /\ sweep'[z].cur = sweep[z].cur
                               /\ sweep'[z].expired = sweep[z].expired
                               /\ sweep'[z].lease = sweep[z].lease
                               /\ sweep'[z].settled = sweep[z].settled
    BY <1>23, <1>b DEF Start, SweepType, Sweepers
  <2>2. QED BY <1>23, <1>a, <2>1, LeaseInv DEF Start, LeaseInv, HeldBy
<1>24. ASSUME NEW p \in Procs, Crash(p) PROVE LeaseInv'
  <2>1. /\ \A z \in Sweepers : \/ sweep'[z] = sweep[z]
                               \/ sweep'[z] = Quiet
    BY <1>24, <1>b DEF Crash
  <2>2. \A q \in Requests : pc'[q] = pc[q] \/ pc'[q] = "done"
    BY <1>24, <1>a DEF Crash
  <2>3. QED BY <1>24, <2>1, <2>2, LeaseInv DEF Crash, LeaseInv, Quiet, HeldBy
<1>25. ASSUME Tick PROVE LeaseInv'
  <2>1. \A n \in Nat : clock - n > TTL => clock' - n > TTL
    BY <1>25, <1>b DEF Tick
  <2>2. UNCHANGED <<call, pc, status, beat, sweep>>
    BY <1>25 DEF Tick
  <2>3. \A s \in Sweepers, a \in Requests : sweep[s].lease[a] \in Nat /\ beat[a] \in Nat
    BY <1>b DEF SweepType
  <2>4. QED BY <2>1, <2>2, <2>3, LeaseInv DEF LeaseInv, HeldBy
<1>26. ASSUME Idle PROVE LeaseInv'
  BY <1>26 DEF Idle, LeaseInv, HeldBy
<1>27. QED
  BY <1>1, <1>2, <1>3, <1>4, <1>5, <1>6, <1>7, <1>8, <1>9, <1>10, <1>11, <1>12, <1>13, <1>14,
     <1>15, <1>16, <1>17, <1>18, <1>19, <1>20, <1>21, <1>22, <1>23, <1>24, <1>25, <1>26,
     NextCases

\* A settled Attempt keeps its status, its Evidence and its error class.
LEMMA FinalStep ==
  ASSUME TypeOK, RowInv, LockInv, [Next]_vars, NEW a \in Requests, status[a] \in Terminal
  PROVE  status'[a] = status[a] /\ verdict'[a] = verdict[a] /\ killed'[a] = killed[a]
<1> USE DEF attempts
<1> DEFINE Kept == status'[a] = status[a] /\ verdict'[a] = verdict[a] /\ killed'[a] = killed[a]
<1>a. /\ pc \in [Requests -> Control] /\ status \in [Requests -> AttemptState]
      /\ verdict \in [Requests -> {"none", "exec"} \cup Verdicts]
      /\ killed \in [Requests -> BOOLEAN]
      /\ status[a] # "none" /\ status[a] # "running"
  BY DEF TypeOK, Terminal
<1>1. ASSUME NEW r \in Requests, BeginGate(r) PROVE Kept
  BY <1>1, <1>a DEF BeginGate
<1>2. ASSUME NEW r \in Requests, BeginLookup(r) PROVE Kept
  BY <1>2, <1>a DEF BeginLookup
<1>3. ASSUME NEW r \in Requests, BeginRead(r) PROVE Kept
  BY <1>3, <1>a DEF BeginRead
<1>4. ASSUME NEW r \in Requests, BeginInsert(r) PROVE Kept
  BY <1>4, <1>a DEF BeginInsert
<1>5. ASSUME NEW r \in Requests, BeginClaim(r) PROVE Kept
  BY <1>5, <1>a, RowInv DEF BeginClaim, RowInv
<1>6. ASSUME NEW r \in Requests, BeginInvalid(r) PROVE Kept
  BY <1>6, <1>a DEF BeginInvalid
<1>7. ASSUME NEW r \in Requests, BeginWorkspace(r) PROVE Kept
  BY <1>7, <1>a DEF BeginWorkspace
<1>8. ASSUME NEW r \in Requests, AdapterReturns(r) PROVE Kept
  BY <1>8, <1>a DEF AdapterReturns
<1>9. ASSUME NEW r \in Requests, AdapterRaises(r) PROVE Kept
  BY <1>9, <1>a DEF AdapterRaises
<1>10. ASSUME NEW r \in Requests, FinalizeCancel(r) PROVE Kept
  BY <1>10, <1>a DEF FinalizeCancel, OwnedRunning
<1>11. ASSUME NEW r \in Requests, FinishEnter(r) PROVE Kept
  BY <1>11, <1>a DEF FinishEnter
<1>12. ASSUME NEW r \in Requests, FinishSettle(r) PROVE Kept
  BY <1>12, <1>a DEF FinishSettle, OwnedRunning
<1>13. ASSUME NEW r \in Requests, FinishEvaluate(r) PROVE Kept
  BY <1>13, <1>a, LockInv DEF FinishEvaluate, LockInv
<1>14. ASSUME NEW r \in Requests, FinishEvaluateRaises(r) PROVE Kept
  BY <1>14, <1>a, LockInv DEF FinishEvaluateRaises, LockInv
<1>15. ASSUME NEW r \in Requests, FinishEscapes(r) PROVE Kept
  BY <1>15, <1>a DEF FinishEscapes
<1>16. ASSUME NEW r \in Requests, FailAttempt(r) PROVE Kept
  BY <1>16, <1>a DEF FailAttempt, OwnedRunning
<1>17. ASSUME NEW s \in Sweepers, SweepSelect(s) PROVE Kept
  BY <1>17, <1>a DEF SweepSelect
<1>18. ASSUME NEW s \in Sweepers, SweepCommit(s) PROVE Kept
  <2>1. a \notin sweep[s].settled
    BY <1>a, LockInv DEF LockInv
  <2>2. QED BY <1>18, <1>a, <2>1 DEF SweepCommit
<1>19. ASSUME NEW s \in Sweepers, SweepAborted(s) PROVE Kept
  BY <1>19, <1>a DEF SweepAborted
<1>20. ASSUME NEW s \in Sweepers, NEW c \in Requests, SweepCheck(s, c) PROVE Kept
  BY <1>20, <1>a DEF SweepCheck
<1>21. ASSUME NEW s \in Sweepers, NEW c \in Requests, SweepSwap(s, c) PROVE Kept
  BY <1>21, <1>a DEF SweepSwap
<1>22. ASSUME NEW p \in Procs, WriteHeartbeats(p) PROVE Kept
  BY <1>22, <1>a DEF WriteHeartbeats
<1>23. ASSUME NEW p \in Procs, Start(p) PROVE Kept
  BY <1>23, <1>a DEF Start
<1>24. ASSUME NEW p \in Procs, Crash(p) PROVE Kept
  BY <1>24, <1>a DEF Crash
<1>25. ASSUME Tick PROVE Kept
  BY <1>25, <1>a DEF Tick
<1>26. ASSUME Idle PROVE Kept
  BY <1>26 DEF Idle
<1>27. QED
  BY <1>1, <1>2, <1>3, <1>4, <1>5, <1>6, <1>7, <1>8, <1>9, <1>10, <1>11, <1>12, <1>13, <1>14,
     <1>15, <1>16, <1>17, <1>18, <1>19, <1>20, <1>21, <1>22, <1>23, <1>24, <1>25, <1>26,
     NextCases

\* A Task becomes succeeded only with the PASS of an Attempt that completes.
LEMMA SucceedStep ==
  ASSUME TypeOK, [Next]_vars, NEW t \in Tasks, task[t] # "succeeded", task'[t] = "succeeded"
  PROVE  \E a \in Requests : TaskOf(a) = t /\ status'[a] = "completed" /\ verdict'[a] = "PASS"
<1> USE DEF attempts
<1> DEFINE Evidenced ==
      \E a \in Requests : TaskOf(a) = t /\ status'[a] = "completed" /\ verdict'[a] = "PASS"
<1>a. /\ task \in [Tasks -> TaskState]
      /\ status \in [Requests -> AttemptState]
      /\ verdict \in [Requests -> {"none", "exec"} \cup Verdicts]
      /\ task[t] # "succeeded" /\ task'[t] = "succeeded"
      /\ \A a \in Requests : TaskOf(a) \in Tasks
  BY DEF TypeOK, TaskOf, Arguments
<1>1. ASSUME NEW r \in Requests, BeginGate(r) PROVE Evidenced
  BY <1>1, <1>a DEF BeginGate
<1>2. ASSUME NEW r \in Requests, BeginLookup(r) PROVE Evidenced
  BY <1>2, <1>a DEF BeginLookup
<1>3. ASSUME NEW r \in Requests, BeginRead(r) PROVE Evidenced
  BY <1>3, <1>a DEF BeginRead
<1>4. ASSUME NEW r \in Requests, BeginInsert(r) PROVE Evidenced
  BY <1>4, <1>a DEF BeginInsert
<1>5. ASSUME NEW r \in Requests, BeginClaim(r) PROVE Evidenced
  BY <1>5, <1>a DEF BeginClaim
<1>6. ASSUME NEW r \in Requests, BeginInvalid(r) PROVE Evidenced
  BY <1>6, <1>a DEF BeginInvalid
<1>7. ASSUME NEW r \in Requests, BeginWorkspace(r) PROVE Evidenced
  BY <1>7, <1>a DEF BeginWorkspace
<1>8. ASSUME NEW r \in Requests, AdapterReturns(r) PROVE Evidenced
  BY <1>8, <1>a DEF AdapterReturns
<1>9. ASSUME NEW r \in Requests, AdapterRaises(r) PROVE Evidenced
  BY <1>9, <1>a DEF AdapterRaises
<1>10. ASSUME NEW r \in Requests, FinalizeCancel(r) PROVE Evidenced
  BY <1>10, <1>a DEF FinalizeCancel
<1>11. ASSUME NEW r \in Requests, FinishEnter(r) PROVE Evidenced
  BY <1>11, <1>a DEF FinishEnter
<1>12. ASSUME NEW r \in Requests, FinishSettle(r) PROVE Evidenced
  BY <1>12, <1>a DEF FinishSettle
<1>13. ASSUME NEW r \in Requests, FinishEvaluate(r) PROVE Evidenced
  <2>1. PICK v \in Verdicts : /\ verdict' = [verdict EXCEPT ![r] = v]
                             /\ task' = [task EXCEPT ![TaskOf(r)] = TaskVerdict[v]]
    BY <1>13 DEF FinishEvaluate
  <2>2. TaskOf(r) = t /\ TaskVerdict[v] = "succeeded"
    BY <1>a, <2>1
  <2>3. v = "PASS"
    BY <2>2 DEF TaskVerdict, Verdicts
  <2>4. QED BY <1>13, <1>a, <2>1, <2>2, <2>3 DEF FinishEvaluate
<1>14. ASSUME NEW r \in Requests, FinishEvaluateRaises(r) PROVE Evidenced
  BY <1>14, <1>a DEF FinishEvaluateRaises
<1>15. ASSUME NEW r \in Requests, FinishEscapes(r) PROVE Evidenced
  BY <1>15, <1>a DEF FinishEscapes
<1>16. ASSUME NEW r \in Requests, FailAttempt(r) PROVE Evidenced
  BY <1>16, <1>a DEF FailAttempt
<1>17. ASSUME NEW s \in Sweepers, SweepSelect(s) PROVE Evidenced
  BY <1>17, <1>a DEF SweepSelect
<1>18. ASSUME NEW s \in Sweepers, SweepCommit(s) PROVE Evidenced
  <2>1. task'[t] \in {task[t], "failed"}
    BY <1>18 DEF SweepCommit
  <2>2. QED BY <1>a, <2>1
<1>19. ASSUME NEW s \in Sweepers, SweepAborted(s) PROVE Evidenced
  BY <1>19, <1>a DEF SweepAborted
<1>20. ASSUME NEW s \in Sweepers, NEW a \in Requests, SweepCheck(s, a) PROVE Evidenced
  BY <1>20, <1>a DEF SweepCheck
<1>21. ASSUME NEW s \in Sweepers, NEW a \in Requests, SweepSwap(s, a) PROVE Evidenced
  BY <1>21, <1>a DEF SweepSwap
<1>22. ASSUME NEW p \in Procs, WriteHeartbeats(p) PROVE Evidenced
  BY <1>22, <1>a DEF WriteHeartbeats
<1>23. ASSUME NEW p \in Procs, Start(p) PROVE Evidenced
  BY <1>23, <1>a DEF Start
<1>24. ASSUME NEW p \in Procs, Crash(p) PROVE Evidenced
  BY <1>24, <1>a DEF Crash
<1>25. ASSUME Tick PROVE Evidenced
  BY <1>25, <1>a DEF Tick
<1>26. ASSUME Idle PROVE Evidenced
  BY <1>26, <1>a DEF Idle
<1>27. QED
  BY <1>1, <1>2, <1>3, <1>4, <1>5, <1>6, <1>7, <1>8, <1>9, <1>10, <1>11, <1>12, <1>13, <1>14,
     <1>15, <1>16, <1>17, <1>18, <1>19, <1>20, <1>21, <1>22, <1>23, <1>24, <1>25, <1>26,
     NextCases

-----------------------------------------------------------------------------
(* The theorems *)

\* The inductive invariant.
IInv == TypeOK /\ RowInv /\ LockInv /\ KeyInv /\ EvidenceInv /\ LeaseInv /\ SucceededIsEvidenced

\* It holds initially: nothing was dispatched and no sweep is under way.
LEMMA InvInit == Init => IInv
<1> SUFFICES ASSUME Init PROVE IInv
  OBVIOUS
<1>1. TypeOK
  BY TypeInit
<1>2. RowInv /\ KeyInv /\ EvidenceInv /\ SucceededIsEvidenced
  BY DEF Init, RowInv, KeyInv, EvidenceInv, SucceededIsEvidenced, Exists, Verdicts
<1>3. LockInv /\ LeaseInv
  BY DEF Init, LockInv, LeaseInv, Quiet
<1>4. QED BY <1>1, <1>2, <1>3 DEF IInv

\* Every step keeps it.
LEMMA InvStep == IInv /\ [Next]_vars => IInv'
<1> SUFFICES ASSUME IInv, [Next]_vars PROVE IInv'
  OBVIOUS
<1>1. TypeOK /\ RowInv /\ LockInv /\ KeyInv /\ EvidenceInv /\ LeaseInv /\ SucceededIsEvidenced
  BY DEF IInv
<1>2. TypeOK' /\ RowInv' /\ LockInv' /\ KeyInv' /\ EvidenceInv' /\ LeaseInv'
  BY <1>1, TypeStep, RowStep, LockStep, KeyStep, EvidenceStep, LeaseStep
<1>3. SucceededIsEvidenced'
  <2> SUFFICES ASSUME NEW t \in Tasks, task'[t] = "succeeded"
               PROVE  \E a \in Requests : TaskOf(a)' = t /\ status'[a] = "completed"
                                          /\ verdict'[a] = "PASS"
    BY DEF SucceededIsEvidenced
  <2>1. \A a \in Requests : TaskOf(a)' = TaskOf(a)
    BY CallFixed DEF TaskOf
  <2>2. CASE task[t] # "succeeded"
    BY <1>1, <2>1, <2>2, SucceedStep
  <2>3. CASE task[t] = "succeeded"
    <3>1. PICK a \in Requests : TaskOf(a) = t /\ status[a] = "completed" /\ verdict[a] = "PASS"
      BY <1>1, <2>3 DEF SucceededIsEvidenced
    <3>2. status'[a] = status[a] /\ verdict'[a] = verdict[a]
      BY <1>1, <3>1, FinalStep DEF Terminal
    <3>3. QED BY <2>1, <3>1, <3>2
  <2>4. QED BY <2>2, <2>3
<1>4. QED BY <1>2, <1>3 DEF IInv

\* The inductive invariant holds in every state the code can reach.
THEOREM Invariance == Spec => []IInv
BY InvInit, InvStep, PTL DEF Spec

\* However often a request is repeated, in whatever processes, and whatever
\* crashes, the adapter is started at most once for a dispatch key.
THEOREM AdapterRunsOnce == Spec => []AdapterOncePerKey
<1>1. IInv => AdapterOncePerKey
  BY DEF IInv, RowInv, KeyInv, Exists, AdapterOncePerKey, TypeOK
<1>2. QED BY <1>1, Invariance, PTL

\* An Attempt that recovery or a cancellation ended carries no Evidence, and a
\* verdict belongs to a completed Attempt.
THEOREM OrphansAreUnevidenced == Spec => []OrphanLeavesNoEvidence
<1>1. IInv => OrphanLeavesNoEvidence
  BY DEF IInv, EvidenceInv, OrphanLeavesNoEvidence
<1>2. QED BY <1>1, Invariance, PTL

\* A succeeded Task has a completed Attempt of its own with PASS Evidence.
THEOREM SuccessIsEvidenced == Spec => []SucceededIsEvidenced
<1>1. IInv => SucceededIsEvidenced
  BY DEF IInv
<1>2. QED BY <1>1, Invariance, PTL

\* No late finish and no late sweep overwrites a settled Attempt.
THEOREM SettlementIsFinal == Spec => FinalStaysFinal
<1>1. IInv /\ [Next]_vars =>
        [\A a \in Requests : status[a] \in Terminal =>
           status'[a] = status[a] /\ verdict'[a] = verdict[a] /\ killed'[a] = killed[a]]_vars
  BY FinalStep DEF IInv
<1>2. QED BY <1>1, Invariance, PTL DEF Spec, FinalStaysFinal

\* A sweep fails an Attempt only when its lease has run out in the row or when
\* nobody serves it any more, at the moment the sweep commits.
THEOREM OnlyOrphansAreReaped == Spec => ReapedOnlyWhenGone
<1>1. ASSUME IInv, [Next]_vars, NEW a \in Requests, ~killed[a], killed'[a]
      PROVE  clock - beat[a] > TTL \/ ~HeldBy(call[a].host, a)
  <2>1. killed' # killed
    BY <1>1
  <2>2. PICK s \in Sweepers : SweepCommit(s)
    BY <1>1, <2>1, NextCases, KilledFixed
  <2>3. a \in sweep[s].settled
    BY <1>1, <2>2 DEF SweepCommit
  <2>4. QED BY <1>1, <2>3 DEF IInv, LeaseInv
<1>2. IInv /\ [Next]_vars =>
        [\A a \in Requests : ~killed[a] /\ killed'[a] =>
           clock - beat[a] > TTL \/ ~HeldBy(call[a].host, a)]_vars
  BY <1>1
<1>3. QED BY <1>2, Invariance, PTL DEF Spec, ReapedOnlyWhenGone

-----------------------------------------------------------------------------
(* Refinement *)

\* Every step of the code is a step of the ledger or leaves it alone.
LEMMA LedgerStep ==
  ASSUME IInv, [Next]_vars
  PROVE  [Ledger!Next]_(Ledger!vars)
<1> USE DEF attempts
<1>a. /\ RowInv /\ LockInv /\ KeyInv
      /\ status \in [Requests -> AttemptState]
      /\ verdict \in [Requests -> {"none", "exec"} \cup Verdicts]
      /\ sweep \in [Sweepers -> SweepType]
      /\ \A a \in Requests : call[a].key \in Keys
      /\ ran \subseteq Requests
  BY DEF IInv, TypeOK, Arguments
<1>s. ASSUME UNCHANGED <<status, verdict, call, ran>>
      PROVE  [Ledger!Next]_(Ledger!vars)
  BY <1>s DEF Ledger!vars, ClaimOf, Exists
<1>1. ASSUME NEW r \in Requests, BeginGate(r) PROVE [Ledger!Next]_(Ledger!vars)
  BY <1>1, <1>s DEF BeginGate
<1>2. ASSUME NEW r \in Requests, BeginLookup(r) PROVE [Ledger!Next]_(Ledger!vars)
  BY <1>2, <1>s DEF BeginLookup
<1>3. ASSUME NEW r \in Requests, BeginRead(r) PROVE [Ledger!Next]_(Ledger!vars)
  BY <1>3, <1>s DEF BeginRead
<1>4. ASSUME NEW r \in Requests, BeginInsert(r) PROVE [Ledger!Next]_(Ledger!vars)
  BY <1>4, <1>s DEF BeginInsert
<1>5. ASSUME NEW r \in Requests, BeginClaim(r) PROVE [Ledger!Next]_(Ledger!vars)
  <2> DEFINE k == call[r].key
  <2>1. status[r] = "none" /\ \A a \in Requests : call[a].key = k => ~Exists(a)
    BY <1>5, <1>a DEF BeginClaim, RowInv, KeyInv, Exists
  <2>2. /\ status' = [status EXCEPT ![r] = "running"]
        /\ call' = call /\ verdict' = verdict /\ ran' = ran
    BY <1>5 DEF BeginClaim
  <2>3. \A j \in Keys : ClaimOf(j)' = IF j = k THEN {r} ELSE ClaimOf(j)
    BY <1>a, <2>1, <2>2 DEF ClaimOf, Exists
  <2>4. ClaimOf(k) = {}
    BY <2>1 DEF ClaimOf
  <2>5. Ledger!Dispatch(k, r)
    BY <1>a, <2>1, <2>2, <2>3, <2>4 DEF Ledger!Dispatch
  <2>6. QED BY <1>a, <2>5 DEF Ledger!Next
<1>6. ASSUME NEW r \in Requests, BeginInvalid(r) PROVE [Ledger!Next]_(Ledger!vars)
  BY <1>6, <1>s DEF BeginInvalid
<1>7. ASSUME NEW r \in Requests, BeginWorkspace(r) PROVE [Ledger!Next]_(Ledger!vars)
  <2>0. PICK k \in Keys : k = call[r].key
    BY <1>a
  <2>1. CASE UNCHANGED ran
    BY <1>7, <1>s, <2>1 DEF BeginWorkspace
  <2>2. CASE ran' = ran \cup {r}
    <3>1. Exists(r) /\ r \notin ran
      BY <1>7, <1>a DEF BeginWorkspace, RowInv, Exists
    <3>2. \A a \in ran : call[a].key # k
      BY <1>a, <2>0, <3>1 DEF RowInv, KeyInv, Exists
    <3>3. r \in ClaimOf(k)
      BY <2>0, <3>1 DEF ClaimOf
    <3>4. UNCHANGED <<status, verdict, call>>
      BY <1>7 DEF BeginWorkspace
    <3>5. \A j \in Keys : ClaimOf(j)' = ClaimOf(j)
      BY <3>4 DEF ClaimOf, Exists
    <3>6. {call[a].key : a \in ran}' = {call[a].key : a \in ran} \cup {k}
      BY <2>0, <2>2, <3>4
    <3>7. Ledger!Execute(k)
      BY <1>a, <3>2, <3>3, <3>4, <3>5, <3>6 DEF Ledger!Execute
    <3>8. QED BY <3>7 DEF Ledger!Next
  <2>3. QED BY <1>7, <2>1, <2>2 DEF BeginWorkspace
<1>8. ASSUME NEW r \in Requests, AdapterReturns(r) PROVE [Ledger!Next]_(Ledger!vars)
  BY <1>8, <1>s DEF AdapterReturns
<1>9. ASSUME NEW r \in Requests, AdapterRaises(r) PROVE [Ledger!Next]_(Ledger!vars)
  BY <1>9, <1>s DEF AdapterRaises
<1>10. ASSUME NEW r \in Requests, FinalizeCancel(r) PROVE [Ledger!Next]_(Ledger!vars)
  <2>1. CASE UNCHANGED <<status, verdict>>
    BY <1>10, <1>s, <2>1 DEF FinalizeCancel
  <2>2. CASE ~UNCHANGED <<status, verdict>>
    <3>1. /\ status[r] = "running" /\ call' = call /\ ran' = ran
          /\ status' = [status EXCEPT ![r] = "cancelled"]
          /\ verdict' = verdict
      BY <1>10, <2>2 DEF FinalizeCancel, OwnedRunning
    <3>2. \A j \in Keys : ClaimOf(j)' = ClaimOf(j)
      BY <1>a, <3>1 DEF ClaimOf, Exists
    <3>3. Ledger!GiveUp(r)
      BY <1>a, <3>1, <3>2 DEF Ledger!GiveUp
    <3>4. QED BY <1>a, <3>3 DEF Ledger!Next
  <2>3. QED BY <2>1, <2>2
<1>11. ASSUME NEW r \in Requests, FinishEnter(r) PROVE [Ledger!Next]_(Ledger!vars)
  BY <1>11, <1>s DEF FinishEnter
<1>12. ASSUME NEW r \in Requests, FinishSettle(r) PROVE [Ledger!Next]_(Ledger!vars)
  <2>1. CASE UNCHANGED <<status, verdict>>
    BY <1>12, <1>s, <2>1 DEF FinishSettle
  <2>2. CASE ~UNCHANGED <<status, verdict>>
    <3>1. /\ status[r] = "running" /\ call' = call /\ ran' = ran
          /\ status' = [status EXCEPT ![r] = "failed"]
          /\ verdict' = [verdict EXCEPT ![r] = "exec"]
      BY <1>12, <2>2 DEF FinishSettle, OwnedRunning
    <3>2. \A j \in Keys : ClaimOf(j)' = ClaimOf(j)
      BY <1>a, <3>1 DEF ClaimOf, Exists
    <3>3. Ledger!GiveUp(r)
      BY <1>a, <3>1, <3>2 DEF Ledger!GiveUp
    <3>4. QED BY <1>a, <3>3 DEF Ledger!Next
  <2>3. QED BY <2>1, <2>2
<1>13. ASSUME NEW r \in Requests, FinishEvaluate(r) PROVE [Ledger!Next]_(Ledger!vars)
  <2>1. status[r] = "running" /\ r \in ran
    BY <1>13, <1>a DEF FinishEvaluate, LockInv, RowInv
  <2>2. /\ status' = [status EXCEPT ![r] = "completed"]
        /\ \E v \in Ledger!Verdicts \cup {"exec"} : verdict' = [verdict EXCEPT ![r] = v]
        /\ call' = call /\ ran' = ran
    BY <1>13 DEF FinishEvaluate, Verdicts, Ledger!Verdicts
  <2>3. r \in ClaimOf(call[r].key) /\ call[r].key \in {call[a].key : a \in ran}
    BY <2>1 DEF ClaimOf, Exists
  <2>4. \A j \in Keys : ClaimOf(j)' = ClaimOf(j)
    BY <1>a, <2>1, <2>2 DEF ClaimOf, Exists
  <2>5. Ledger!Complete(call[r].key, r)
    BY <1>a, <2>1, <2>2, <2>3, <2>4 DEF Ledger!Complete
  <2>6. QED BY <1>a, <2>5 DEF Ledger!Next
<1>14. ASSUME NEW r \in Requests, FinishEvaluateRaises(r) PROVE [Ledger!Next]_(Ledger!vars)
  <2>1. status[r] = "running" /\ r \in ran
    BY <1>14, <1>a DEF FinishEvaluateRaises, LockInv, RowInv
  <2>2. /\ status' = [status EXCEPT ![r] = "completed"]
        /\ \E v \in Ledger!Verdicts \cup {"exec"} : verdict' = [verdict EXCEPT ![r] = v]
        /\ call' = call /\ ran' = ran
    BY <1>14 DEF FinishEvaluateRaises, Verdicts, Ledger!Verdicts
  <2>3. r \in ClaimOf(call[r].key) /\ call[r].key \in {call[a].key : a \in ran}
    BY <2>1 DEF ClaimOf, Exists
  <2>4. \A j \in Keys : ClaimOf(j)' = ClaimOf(j)
    BY <1>a, <2>1, <2>2 DEF ClaimOf, Exists
  <2>5. Ledger!Complete(call[r].key, r)
    BY <1>a, <2>1, <2>2, <2>3, <2>4 DEF Ledger!Complete
  <2>6. QED BY <1>a, <2>5 DEF Ledger!Next
<1>15. ASSUME NEW r \in Requests, FinishEscapes(r) PROVE [Ledger!Next]_(Ledger!vars)
  BY <1>15, <1>s DEF FinishEscapes
<1>16. ASSUME NEW r \in Requests, FailAttempt(r) PROVE [Ledger!Next]_(Ledger!vars)
  <2>1. CASE UNCHANGED <<status, verdict>>
    BY <1>16, <1>s, <2>1 DEF FailAttempt
  <2>2. CASE ~UNCHANGED <<status, verdict>>
    <3>1. /\ status[r] = "running" /\ call' = call /\ ran' = ran
          /\ status' = [status EXCEPT ![r] = "failed"]
          /\ verdict' = verdict
      BY <1>16, <2>2 DEF FailAttempt, OwnedRunning
    <3>2. \A j \in Keys : ClaimOf(j)' = ClaimOf(j)
      BY <1>a, <3>1 DEF ClaimOf, Exists
    <3>3. Ledger!GiveUp(r)
      BY <1>a, <3>1, <3>2 DEF Ledger!GiveUp
    <3>4. QED BY <1>a, <3>3 DEF Ledger!Next
  <2>3. QED BY <2>1, <2>2
<1>17. ASSUME NEW s \in Sweepers, SweepSelect(s) PROVE [Ledger!Next]_(Ledger!vars)
  BY <1>17, <1>s DEF SweepSelect
<1>18. ASSUME NEW s \in Sweepers, SweepCommit(s) PROVE [Ledger!Next]_(Ledger!vars)
  <2> DEFINE A == sweep[s].settled
  <2>1. A \subseteq Requests /\ \A a \in A : status[a] = "running"
    BY <1>a DEF LockInv, SweepType
  <2>2. /\ status' = [a \in Requests |-> IF a \in A THEN "failed" ELSE status[a]]
        /\ call' = call /\ ran' = ran /\ verdict' = verdict
    BY <1>18 DEF SweepCommit
  <2>3. \A j \in Keys : ClaimOf(j)' = ClaimOf(j)
    BY <1>a, <2>1, <2>2 DEF ClaimOf, Exists
  <2>4. Ledger!Recover(A)
    BY <1>a, <2>1, <2>2, <2>3 DEF Ledger!Recover
  <2>5. QED BY <1>a, <2>1, <2>4 DEF Ledger!Next
<1>19. ASSUME NEW s \in Sweepers, SweepAborted(s) PROVE [Ledger!Next]_(Ledger!vars)
  BY <1>19, <1>s DEF SweepAborted
<1>20. ASSUME NEW s \in Sweepers, NEW a \in Requests, SweepCheck(s, a) PROVE [Ledger!Next]_(Ledger!vars)
  BY <1>20, <1>s DEF SweepCheck
<1>21. ASSUME NEW s \in Sweepers, NEW a \in Requests, SweepSwap(s, a) PROVE [Ledger!Next]_(Ledger!vars)
  BY <1>21, <1>s DEF SweepSwap
<1>22. ASSUME NEW p \in Procs, WriteHeartbeats(p) PROVE [Ledger!Next]_(Ledger!vars)
  BY <1>22, <1>s DEF WriteHeartbeats
<1>23. ASSUME NEW p \in Procs, Start(p) PROVE [Ledger!Next]_(Ledger!vars)
  BY <1>23, <1>s DEF Start
<1>24. ASSUME NEW p \in Procs, Crash(p) PROVE [Ledger!Next]_(Ledger!vars)
  BY <1>24, <1>s DEF Crash
<1>25. ASSUME Tick PROVE [Ledger!Next]_(Ledger!vars)
  BY <1>25, <1>s DEF Tick
<1>26. ASSUME Idle PROVE [Ledger!Next]_(Ledger!vars)
  BY <1>26, <1>s DEF Idle
<1>27. QED
  BY <1>1, <1>2, <1>3, <1>4, <1>5, <1>6, <1>7, <1>8, <1>9, <1>10, <1>11, <1>12, <1>13, <1>14,
     <1>15, <1>16, <1>17, <1>18, <1>19, <1>20, <1>21, <1>22, <1>23, <1>24, <1>25, <1>26,
     NextCases

\* The initial states of the code are those of the empty ledger.
LEMMA LedgerInit == Init => Ledger!Init
BY DEF Init, Ledger!Init, ClaimOf, Exists

\* begin, finish, recovery and every crash between them implement the ledger: a
\* key is claimed by one Attempt, run once and settled once.
THEOREM CodeImplementsLedger == Spec => LedgerSpec
<1>1. IInv /\ [Next]_vars => [Ledger!Next]_(Ledger!vars)
  BY LedgerStep
<1>2. QED
  BY <1>1, LedgerInit, Invariance, PTL DEF Spec, LedgerSpec, Ledger!Spec

-----------------------------------------------------------------------------
(* The Task and its Attempts *)

\* While no two Attempts of a Task have run at a time, Task and Attempts move
\* together: one Attempt runs, the Task says so, and a Task that is under way has
\* the Attempt that will move it on.
TaskInv ==
  /\ \A a, b \in Requests :
       status[a] = "running" /\ status[b] = "running" /\ TaskOf(a) = TaskOf(b) /\ TaskOf(a) \notin twice
         => a = b
  /\ \A a \in Requests : status[a] = "running" /\ TaskOf(a) \notin twice => task[TaskOf(a)] = "running"
  /\ \A t \in Tasks : t \notin twice /\ task[t] \in {"running", "evaluating"} =>
       \E a \in Requests : status[a] = "running" /\ TaskOf(a) = t

\* The Attempts of the list that a sweep has not spared.
Suspects(s) == sweep[s].todo \cup sweep[s].cur \cup sweep[s].settled

\* Of a Task without overlapping Attempts a sweep has one suspect and spares no
\* other Attempt: so the Task of every Attempt it fails is freed.
SuspectInv ==
  \A s \in Sweepers :
    /\ sweep[s].todo \cap sweep[s].cur = {}
    /\ (sweep[s].todo \cup sweep[s].cur) \cap sweep[s].settled = {}
    /\ \A a, b \in Suspects(s) : TaskOf(a) = TaskOf(b) /\ TaskOf(a) \notin twice => a = b
    /\ \A a \in Suspects(s) : TaskOf(a) \notin twice => TaskOf(a) \notin sweep[s].live

-----------------------------------------------------------------------------
(* A living executor keeps its lease (Timely): sweeps and sandboxes *)

\* Who is served is running and has not missed its lease.
ServedInv ==
  \A a \in Requests : HeldBy(call[a].host, a) =>
    status[a] = "running" /\ clock <= beat[a] + TTL

\* Whom a sweep takes for dead is not served, and stays so.
GoneInv ==
  \A s \in Sweepers, a \in Requests :
    a \in sweep[s].expired \cup sweep[s].cur \cup sweep[s].settled =>
      status[a] # "none" /\ ~HeldBy(call[a].host, a)

\* The sandbox rows of an Attempt are resolved.
Resolved(a) == \A b \in Boxes : row[a][b] \in {"none", "absent"}

\* Between the look at its rows and the commit, nobody opens a sandbox for it.
ResolvedInv ==
  \A s \in Sweepers, a \in Requests : a \in sweep[s].cur \cup sweep[s].settled => Resolved(a)

-----------------------------------------------------------------------------
(* What the steps do to the Task, the row and the position of a request *)

\* A running Attempt is settled, and its Task with it: a Task that was running is
\* left under way only when another Attempt of it runs.
Settles(r) ==
  /\ status[r] = "running" /\ pc' = [pc EXCEPT ![r] = "done"]
  /\ \E e \in Terminal : status' = [status EXCEPT ![r] = e]
  /\ \E x \in TaskState :
       /\ task' = [task EXCEPT ![TaskOf(r)] = x]
       /\ x \in {"running", "evaluating"} => ~Exclusive(r) \/ task[TaskOf(r)] # "running"

\* A sweep writes rows in its commit only, and ends a request only when aborted.
LEMMA SweepLeaves ==
  ASSUME NEW s \in Sweepers, Sweep(s)
  PROVE  /\ UNCHANGED <<clock, call, beat, row, sandbox>>
         /\ SweepCommit(s) \/ UNCHANGED <<task, status>>
         /\ SweepAborted(s) \/ UNCHANGED pc
<1> USE DEF attempts, remote
<1> DEFINE Left == /\ UNCHANGED <<clock, call, beat, row, sandbox>>
                   /\ SweepCommit(s) \/ UNCHANGED <<task, status>>
                   /\ SweepAborted(s) \/ UNCHANGED pc
<1>1. CASE SweepSelect(s)
  BY <1>1 DEF SweepSelect
<1>2. CASE SweepCommit(s)
  <2>1. UNCHANGED <<clock, call, beat, row, sandbox, pc>>
    BY <1>2 DEF SweepCommit
  <2>2. QED BY <1>2, <2>1
<1>3. CASE SweepAborted(s)
  <2>1. UNCHANGED <<clock, call, beat, row, sandbox, task, status>>
    BY <1>3 DEF SweepAborted
  <2>2. QED BY <1>3, <2>1
<1>4. ASSUME NEW a \in Requests, SweepCheck(s, a) PROVE Left
  BY <1>4 DEF SweepCheck
<1>5. ASSUME NEW a \in Requests, SweepSwap(s, a) PROVE Left
  BY <1>5 DEF SweepSwap
<1>6. QED BY <1>1, <1>2, <1>3, <1>4, <1>5 DEF Sweep

\* Tasks and Attempts change when an Attempt begins, is settled, or is swept.
LEMMA TaskMoves ==
  ASSUME TypeOK, LockInv, [Next]_vars
  PROVE  \/ UNCHANGED <<task, status>>
         \/ \E r \in Requests : BeginClaim(r) \/ Settles(r)
         \/ \E s \in Sweepers : SweepCommit(s)
<1> USE DEF attempts
<1> DEFINE Moved == \/ UNCHANGED <<task, status>>
                    \/ \E r \in Requests : BeginClaim(r) \/ Settles(r)
                    \/ \E s \in Sweepers : SweepCommit(s)
<1>a. /\ task \in [Tasks -> TaskState]
      /\ \A r \in Requests : TaskOf(r) \in Tasks
      /\ \A r \in Requests : pc[r] = "evaluate" => status[r] = "running"
  BY LockInv DEF TypeOK, TaskOf, Arguments, LockInv
<1>1. ASSUME NEW r \in Requests, FinalizeCancel(r) PROVE Moved
  <2>1. CASE ~OwnedRunning(r)
    BY <1>1, <2>1 DEF FinalizeCancel
  <2>2. CASE OwnedRunning(r)
    <3> DEFINE x == IF task[TaskOf(r)] = "running" THEN "inconclusive" ELSE task[TaskOf(r)]
    <3>1. /\ task' = [task EXCEPT ![TaskOf(r)] = x] /\ status' = [status EXCEPT ![r] = "cancelled"]
          /\ pc' = [pc EXCEPT ![r] = "done"]
      BY <1>1, <2>2 DEF FinalizeCancel
    <3>2. x \in TaskState /\ "cancelled" \in Terminal
      BY <1>a DEF TaskState, Terminal
    <3>3. Settles(r)
      BY <2>2, <3>1, <3>2 DEF Settles, OwnedRunning
    <3>4. QED BY <3>3
  <2>3. QED BY <2>1, <2>2
<1>2. ASSUME NEW r \in Requests, FinishSettle(r) PROVE Moved
  <2>1. \/ UNCHANGED <<task, status>>
        \/ /\ status[r] = "running"
           /\ status' = [status EXCEPT ![r] = "failed"]
           /\ task' = [task EXCEPT ![TaskOf(r)] = "failed"]
           /\ pc' = [pc EXCEPT ![r] = "done"]
    BY <1>2 DEF FinishSettle, OwnedRunning
  <2>2. QED BY <2>1 DEF Settles, Terminal, TaskState
<1>3. ASSUME NEW r \in Requests, FinishEvaluate(r) PROVE Moved
  <2>1. PICK v \in Verdicts : task' = [task EXCEPT ![TaskOf(r)] = TaskVerdict[v]]
    BY <1>3 DEF FinishEvaluate
  <2>2. TaskVerdict[v] \in TaskState \ {"running", "evaluating"}
    BY DEF TaskVerdict, Verdicts, TaskState
  <2>3. /\ status[r] = "running" /\ status' = [status EXCEPT ![r] = "completed"]
        /\ pc' = [pc EXCEPT ![r] = "done"]
    BY <1>3, <1>a DEF FinishEvaluate
  <2>4. Settles(r)
    BY <2>1, <2>2, <2>3 DEF Settles, Terminal
  <2>5. QED BY <2>4
<1>4. ASSUME NEW r \in Requests, FinishEvaluateRaises(r) PROVE Moved
  <2>1. /\ status[r] = "running" /\ status' = [status EXCEPT ![r] = "completed"]
        /\ task' = [task EXCEPT ![TaskOf(r)] = IF Exclusive(r) THEN "failed" ELSE "evaluating"]
        /\ pc' = [pc EXCEPT ![r] = "done"]
    BY <1>4, <1>a DEF FinishEvaluateRaises
  <2>2. QED BY <2>1 DEF Settles, Terminal, TaskState
<1>5. ASSUME NEW r \in Requests, FailAttempt(r) PROVE Moved
  <2>1. CASE ~OwnedRunning(r)
    BY <1>5, <2>1 DEF FailAttempt
  <2>2. CASE OwnedRunning(r) /\ ~Exclusive(r)
    <3>1. /\ status' = [status EXCEPT ![r] = "failed"]
          /\ task' = [task EXCEPT ![TaskOf(r)] = task[TaskOf(r)]]
          /\ pc' = [pc EXCEPT ![r] = "done"]
      BY <1>5, <1>a, <2>2 DEF FailAttempt
    <3>2. task[TaskOf(r)] \in TaskState /\ "failed" \in Terminal
      BY <1>a DEF Terminal
    <3>3. Settles(r)
      BY <2>2, <3>1, <3>2 DEF Settles, OwnedRunning
    <3>4. QED BY <3>3
  <2>3. CASE OwnedRunning(r) /\ Exclusive(r)
    <3> DEFINE x == IF task[TaskOf(r)] \in {"running", "evaluating"} THEN "failed" ELSE task[TaskOf(r)]
    <3>1. /\ task' = [task EXCEPT ![TaskOf(r)] = x] /\ status' = [status EXCEPT ![r] = "failed"]
          /\ pc' = [pc EXCEPT ![r] = "done"]
      BY <1>5, <2>3 DEF FailAttempt
    <3>2. x \in TaskState \ {"running", "evaluating"} /\ "failed" \in Terminal
      BY <1>a DEF TaskState, Terminal
    <3>3. Settles(r)
      BY <2>3, <3>1, <3>2 DEF Settles, OwnedRunning
    <3>4. QED BY <3>3
  <2>4. QED BY <2>1, <2>2, <2>3
<1>6. ASSUME NEW s \in Sweepers, Sweep(s) PROVE Moved
  BY <1>6, SweepLeaves
<1>7. ASSUME NEW r \in Requests, Begin(r) PROVE Moved
  BY <1>7 DEF Begin, BeginGate, BeginLookup, BeginRead, BeginInsert, BeginInvalid, BeginWorkspace
<1>8. ASSUME NEW r \in Requests, Adapter(r) PROVE Moved
  BY <1>8, <1>1 DEF Adapter, AdapterReturns, AdapterRaises
<1>9. ASSUME NEW r \in Requests, Finish(r) PROVE Moved
  BY <1>9, <1>2, <1>3, <1>4, <1>5 DEF Finish, FinishEnter, FinishEscapes
<1>10. ASSUME NEW p \in Procs, WriteHeartbeats(p) \/ Start(p) \/ Crash(p) PROVE Moved
  BY <1>10 DEF WriteHeartbeats, Start, Crash
<1>11. QED
  BY <1>6, <1>7, <1>8, <1>9, <1>10, NextCases DEF Idle, Tick, Begin, Adapter, Finish, Sweep

\* A request is served from its claim on.
LEMMA PcMoves ==
  ASSUME TypeOK, [Next]_vars, NEW q \in Requests
  PROVE  HeldBy(call[q].host, q)' => HeldBy(call[q].host, q) \/ BeginClaim(q)
<1> USE DEF attempts, HeldBy
<1> DEFINE Moved == HeldBy(call[q].host, q)' => HeldBy(call[q].host, q) \/ BeginClaim(q)
<1>a. pc \in [Requests -> Control]
  BY DEF TypeOK
<1>1. ASSUME NEW r \in Requests, Begin(r) PROVE Moved
  BY <1>1, <1>a DEF Begin, BeginGate, BeginLookup, BeginRead, BeginInsert, BeginClaim, BeginInvalid, BeginWorkspace
<1>2. ASSUME NEW r \in Requests, Adapter(r) PROVE Moved
  BY <1>2, <1>a DEF Adapter, AdapterReturns, AdapterRaises, FinalizeCancel
<1>3. ASSUME NEW r \in Requests, Finish(r) PROVE Moved
  BY <1>3, <1>a DEF Finish, FinishEnter, FinishSettle, FinishEvaluate, FinishEvaluateRaises, FinishEscapes, FailAttempt
<1>4. ASSUME NEW s \in Sweepers, Sweep(s) PROVE Moved
  <2>1. call' = call /\ \A r \in Requests : pc'[r] = pc[r] \/ pc'[r] = "done"
    <3>1. CASE SweepAborted(s)
      BY <3>1, <1>a, <1>4, SweepLeaves DEF SweepAborted
    <3>2. CASE ~SweepAborted(s)
      BY <3>2, <1>4, SweepLeaves
    <3>3. QED BY <3>1, <3>2
  <2>2. QED BY <2>1
<1>5. ASSUME NEW p \in Procs, WriteHeartbeats(p) \/ Start(p) \/ Crash(p) PROVE Moved
  BY <1>5, <1>a DEF WriteHeartbeats, Start, Crash
<1>6. ASSUME Tick \/ Idle PROVE Moved
  BY <1>6 DEF Tick, Idle
<1>7. QED
  BY <1>1, <1>2, <1>3, <1>4, <1>5, <1>6, NextCases DEF Begin, Adapter, Finish, Sweep

\* The list of a sweep stays as it is.
SameList(s) == /\ sweep'[s].todo = sweep[s].todo /\ sweep'[s].cur = sweep[s].cur
               /\ sweep'[s].settled = sweep[s].settled /\ sweep'[s].live = sweep[s].live
               /\ sweep'[s].expired = sweep[s].expired

\* The list of a sweep is read once, judged Attempt by Attempt, and dropped.
LEMMA SweepMoves ==
  ASSUME TypeOK, [Next]_vars, NEW s \in Sweepers
  PROVE  \/ SameList(s) \/ sweep'[s] = Quiet \/ SweepSelect(s)
         \/ \E a \in Requests : SweepCheck(s, a) \/ SweepSwap(s, a)
<1> DEFINE Moved == \/ SameList(s) \/ sweep'[s] = Quiet \/ SweepSelect(s)
                    \/ \E a \in Requests : SweepCheck(s, a) \/ SweepSwap(s, a)
<1>a. sweep \in [Sweepers -> SweepType]
  BY DEF TypeOK
<1>b. ASSUME NEW z \in Sweepers, sweep' = [sweep EXCEPT ![z].pc = "select"] PROVE SameList(s)
  BY <1>a, <1>b DEF SameList, SweepType
<1>c. ASSUME sweep' = sweep PROVE SameList(s)
  BY <1>c DEF SameList
<1>d. Requests \subseteq Sweepers /\ Procs \subseteq Sweepers
  BY DEF Sweepers
<1>1. ASSUME NEW r \in Requests, BeginGate(r) PROVE Moved
  BY <1>1, <1>b, <1>c, <1>d DEF BeginGate
<1>2. ASSUME NEW z \in Sweepers, SweepSelect(z) PROVE Moved
  <2>1. CASE z = s
    BY <2>1, <1>2
  <2>2. CASE z # s
    <3>1. sweep'[s] = sweep[s]
      BY <1>2, <1>a, <2>2 DEF SweepSelect
    <3>2. QED BY <3>1 DEF SameList
  <2>3. QED BY <2>1, <2>2
<1>3. ASSUME NEW z \in Sweepers, SweepCommit(z) \/ SweepAborted(z) PROVE Moved
  <2>1. sweep'[s] = sweep[s] \/ sweep'[s] = Quiet
    BY <1>3, <1>a DEF SweepCommit, SweepAborted
  <2>2. QED BY <2>1 DEF SameList
<1>4. ASSUME NEW z \in Sweepers, NEW a \in Requests, SweepCheck(z, a) PROVE Moved
  <2>1. CASE z = s
    BY <2>1, <1>4
  <2>2. CASE z # s
    <3>1. sweep'[s] = sweep[s]
      BY <1>4, <1>a, <2>2 DEF SweepCheck
    <3>2. QED BY <3>1 DEF SameList
  <2>3. QED BY <2>1, <2>2
<1>5. ASSUME NEW z \in Sweepers, NEW a \in Requests, SweepSwap(z, a) PROVE Moved
  <2>1. CASE z = s
    BY <2>1, <1>5
  <2>2. CASE z # s
    <3>1. sweep'[s] = sweep[s]
      BY <1>5, <1>a, <2>2 DEF SweepSwap
    <3>2. QED BY <3>1 DEF SameList
  <2>3. QED BY <2>1, <2>2
<1>6. ASSUME NEW p \in Procs, WriteHeartbeats(p) \/ Start(p) PROVE Moved
  BY <1>6, <1>b, <1>d DEF WriteHeartbeats, Start
<1>7. ASSUME NEW p \in Procs, Crash(p) PROVE Moved
  <2>1. sweep'[s] = sweep[s] \/ sweep'[s] = Quiet
    BY <1>7 DEF Crash
  <2>2. QED BY <2>1 DEF SameList
<1>8. QED
  BY <1>1, <1>2, <1>3, <1>4, <1>5, <1>6, <1>7, <1>c, NextCases DEF Idle,
     BeginLookup, BeginRead, BeginInsert, BeginClaim, BeginInvalid, BeginWorkspace,
     AdapterReturns, AdapterRaises, FinalizeCancel, FinishEnter, FinishSettle,
     FinishEvaluate, FinishEvaluateRaises, FinishEscapes, FailAttempt, Tick

\* The clock moves by a Tick, a lease by a claim or by the heartbeat.
LEMMA BeatMoves ==
  ASSUME TypeOK, [Next]_vars
  PROVE  \/ UNCHANGED <<clock, beat>>
         \/ \E r \in Requests : BeginClaim(r)
         \/ \E p \in Procs : WriteHeartbeats(p)
         \/ Tick
<1> USE DEF attempts
<1>1. ASSUME NEW r \in Requests, Begin(r) PROVE BeginClaim(r) \/ UNCHANGED <<clock, beat>>
  BY <1>1 DEF Begin, BeginGate, BeginLookup, BeginRead, BeginInsert, BeginInvalid, BeginWorkspace
<1>2. ASSUME NEW r \in Requests, Adapter(r) \/ Finish(r) PROVE UNCHANGED <<clock, beat>>
  BY <1>2 DEF Adapter, Finish, AdapterReturns, AdapterRaises, FinalizeCancel, FinishEnter,
     FinishSettle, FinishEvaluate, FinishEvaluateRaises, FinishEscapes, FailAttempt
<1>3. ASSUME NEW p \in Procs, Start(p) \/ Crash(p) PROVE UNCHANGED <<clock, beat>>
  BY <1>3 DEF Start, Crash
<1>4. ASSUME NEW s \in Sweepers, Sweep(s) PROVE UNCHANGED <<clock, beat>>
  BY <1>4, SweepLeaves
<1>5. QED
  BY <1>1, <1>2, <1>3, <1>4, NextCases DEF Idle, Begin, Adapter, Finish, Sweep

\* The steps outside Remote leave the sandboxes and their rows alone.
LEMMA RemoteMoves ==
  ASSUME [Next]_vars
  PROVE  \/ UNCHANGED <<row, sandbox>>
         \/ \E r \in Requests, b \in Boxes : Remote(r, b)
<1> USE DEF remote
<1>1. ASSUME NEW r \in Requests, Begin(r) \/ Adapter(r) \/ Finish(r) \/ Effect(r)
      PROVE  UNCHANGED <<row, sandbox>>
  BY <1>1 DEF Begin, Adapter, Finish, Effect,
     BeginGate, BeginLookup, BeginRead, BeginInsert, BeginClaim, BeginInvalid, BeginWorkspace,
     AdapterReturns, AdapterRaises, FinalizeCancel, FinishEnter, FinishSettle,
     FinishEvaluate, FinishEvaluateRaises, FinishEscapes, FailAttempt,
     ConfirmLive, RefreshRead, RefreshWrite
<1>2. ASSUME NEW s \in Sweepers, Sweep(s) PROVE UNCHANGED <<row, sandbox>>
  BY <1>2, SweepLeaves
<1>3. ASSUME NEW p \in Procs, WriteHeartbeats(p) \/ Start(p) \/ Crash(p) PROVE UNCHANGED <<row, sandbox>>
  BY <1>3 DEF WriteHeartbeats, Start, Crash
<1>4. ASSUME NEW t \in PlanTasks, Decide(t) PROVE UNCHANGED <<row, sandbox>>
  BY <1>4 DEF Decide
<1>5. QED BY <1>1, <1>2, <1>3, <1>4 DEF Next, Tick, vars

-----------------------------------------------------------------------------
(* The steps keep the invariants of Task and Attempts *)

\* An Attempt runs from its claim on.
LEMMA RunningMoves ==
  ASSUME TypeOK, LockInv, [Next]_vars, NEW a \in Requests, status'[a] = "running"
  PROVE  status[a] = "running" \/ BeginClaim(a)
<1>1. CASE UNCHANGED <<task, status>>
  BY <1>1
<1>2. ASSUME NEW r \in Requests, BeginClaim(r) PROVE status[a] = "running" \/ BeginClaim(a)
  BY <1>2 DEF BeginClaim, TypeOK
<1>3. ASSUME NEW r \in Requests, Settles(r) PROVE status[a] = "running"
  BY <1>3 DEF Settles, TypeOK, Terminal
<1>4. ASSUME NEW s \in Sweepers, SweepCommit(s) PROVE status[a] = "running"
  BY <1>4 DEF SweepCommit
<1>5. QED BY <1>1, <1>2, <1>3, <1>4, TaskMoves

\* A Task is marked by the claim that finds an Attempt of it running, and stays so.
LEMMA TwiceMoves ==
  ASSUME [Next]_vars
  PROVE  twice \subseteq twice'
<1>1. ASSUME NEW r \in Requests, Begin(r) \/ Adapter(r) \/ Finish(r) \/ Effect(r)
      PROVE  twice \subseteq twice'
  BY <1>1 DEF Begin, Adapter, Finish, Effect,
     BeginGate, BeginLookup, BeginRead, BeginInsert, BeginClaim, BeginInvalid, BeginWorkspace,
     AdapterReturns, AdapterRaises, FinalizeCancel, FinishEnter, FinishSettle,
     FinishEvaluate, FinishEvaluateRaises, FinishEscapes, FailAttempt,
     ConfirmLive, RefreshRead, RefreshWrite
<1>2. ASSUME NEW r \in Requests, NEW b \in Boxes, Remote(r, b) PROVE twice \subseteq twice'
  BY <1>2 DEF Remote, OpenRemoteSandbox, ProviderCreate, IdentifySandbox, ProviderGone, VerifyAbsent
<1>3. ASSUME NEW s \in Sweepers, Sweep(s) PROVE twice \subseteq twice'
  BY <1>3 DEF Sweep, SweepSelect, SweepCommit, SweepAborted, SweepCheck, SweepSwap
<1>4. ASSUME NEW p \in Procs, WriteHeartbeats(p) \/ Start(p) \/ Crash(p) PROVE twice \subseteq twice'
  BY <1>4 DEF WriteHeartbeats, Start, Crash
<1>5. ASSUME NEW t \in PlanTasks, Decide(t) PROVE twice \subseteq twice'
  BY <1>5 DEF Decide
<1>6. QED BY <1>1, <1>2, <1>3, <1>4, <1>5 DEF Next, Tick, vars

\* Every step keeps TaskInv: a claim that finds a running Attempt marks the Task,
\* who settles an Attempt moves its Task, and a sweep frees the Task.
LEMMA TaskStep ==
  ASSUME TypeOK, RowInv, LockInv, SuspectInv, TaskInv, [Next]_vars
  PROVE  TaskInv'
<1>a. /\ task \in [Tasks -> TaskState] /\ status \in [Requests -> AttemptState]
      /\ pc \in [Requests -> Control] /\ \A r \in Requests : TaskOf(r) \in Tasks
  BY DEF TypeOK, TaskOf, Arguments
<1>b. /\ \A r \in Requests : TaskOf(r)' = TaskOf(r)
      /\ \A t \in Tasks : t \notin twice' => t \notin twice
  BY CallFixed, TwiceMoves DEF TaskOf
<1>u. ASSUME NEW a \in Requests, NEW b \in Requests, status[a] = "running", status[b] = "running",
             TaskOf(a) = TaskOf(b), TaskOf(a) \notin twice
      PROVE  a = b
  BY <1>u DEF TaskInv
<1>t. ASSUME NEW a \in Requests, status[a] = "running", TaskOf(a) \notin twice
      PROVE  task[TaskOf(a)] = "running"
  BY <1>t DEF TaskInv
<1>w. ASSUME NEW t \in Tasks, t \notin twice, task[t] \in {"running", "evaluating"}
      PROVE  \E a \in Requests : status[a] = "running" /\ TaskOf(a) = t
  BY <1>w DEF TaskInv
<1>c. ASSUME NEW r \in Requests, BeginClaim(r)
      PROVE  /\ status[r] = "none"
             /\ task' = [task EXCEPT ![TaskOf(r)] = "running"]
             /\ status' = [status EXCEPT ![r] = "running"]
             /\ TaskOf(r) \in twice' \/ \A a \in Requests : TaskOf(a) = TaskOf(r) => status[a] # "running"
  BY <1>c, <1>a DEF BeginClaim, RowInv, Running
<1>f. ASSUME NEW s \in Sweepers, NEW a \in Requests, TaskOf(a) \in Freed(s), status[a] = "running",
             TaskOf(a) \notin twice
      PROVE  a \in sweep[s].settled
  <2>1. sweep[s].settled \subseteq Requests
    BY DEF TypeOK, SweepType
  <2>2. PICK c \in sweep[s].settled : TaskOf(a) = TaskOf(c)
    BY <1>f DEF Freed
  <2>3. status[c] = "running"
    BY <2>1, <2>2 DEF LockInv
  <2>4. QED BY <2>1, <2>2, <2>3, <1>f, <1>u
<1>1. ASSUME NEW a \in Requests, NEW b \in Requests, status'[a] = "running", status'[b] = "running",
             TaskOf(a)' = TaskOf(b)', TaskOf(a)' \notin twice'
      PROVE  a = b
  <2>1. TaskOf(a) = TaskOf(b) /\ TaskOf(a) \notin twice /\ TaskOf(a) \notin twice'
    BY <1>1, <1>a, <1>b
  <2>2. (status[a] = "running" \/ BeginClaim(a)) /\ (status[b] = "running" \/ BeginClaim(b))
    BY <1>1, RunningMoves
  <2>3. CASE status[a] = "running" /\ status[b] = "running"
    BY <2>1, <2>3, <1>u
  <2>4. CASE BeginClaim(a) /\ status[b] = "running"
    BY <2>1, <2>4, <1>c
  <2>5. CASE BeginClaim(b) /\ status[a] = "running"
    BY <2>1, <2>5, <1>c
  <2>6. CASE BeginClaim(a) /\ BeginClaim(b)
    BY <2>6, <1>c, <1>a, <1>1
  <2>7. QED BY <2>2, <2>3, <2>4, <2>5, <2>6
<1>2. ASSUME NEW a \in Requests, status'[a] = "running", TaskOf(a)' \notin twice'
      PROVE  task'[TaskOf(a)'] = "running"
  <2>0. TaskOf(a) \notin twice
    BY <1>2, <1>a, <1>b
  <2>1. SUFFICES task'[TaskOf(a)] = "running"
    BY <1>b
  <2>2. CASE UNCHANGED <<task, status>>
    BY <1>2, <2>0, <2>2, <1>t
  <2>3. ASSUME NEW r \in Requests, BeginClaim(r) PROVE task'[TaskOf(a)] = "running"
    <3>1. CASE TaskOf(a) = TaskOf(r)
      BY <2>3, <3>1, <1>a, <1>c
    <3>2. CASE TaskOf(a) # TaskOf(r)
      <4>1. task'[TaskOf(a)] = task[TaskOf(a)] /\ status[a] = "running"
        BY <2>3, <3>2, <1>a, <1>c, <1>2
      <4>2. QED BY <4>1, <2>0, <1>t
    <3>3. QED BY <3>1, <3>2
  <2>4. ASSUME NEW r \in Requests, Settles(r) PROVE task'[TaskOf(a)] = "running"
    <3>1. a # r /\ status[a] = "running" /\ status[r] = "running"
      BY <2>4, <1>a, <1>2 DEF Settles, Terminal
    <3>2. TaskOf(a) # TaskOf(r)
      BY <3>1, <2>0, <1>u
    <3>3. task'[TaskOf(a)] = task[TaskOf(a)]
      BY <2>4, <3>2, <1>a DEF Settles
    <3>4. QED BY <3>1, <3>3, <2>0, <1>t
  <2>5. ASSUME NEW s \in Sweepers, SweepCommit(s) PROVE task'[TaskOf(a)] = "running"
    <3>1. status[a] = "running" /\ a \notin sweep[s].settled
      BY <2>5, <1>2 DEF SweepCommit
    <3>2. TaskOf(a) \notin Freed(s)
      BY <3>1, <2>0, <1>f
    <3>3. task'[TaskOf(a)] = task[TaskOf(a)]
      BY <2>5, <3>2, <1>a DEF SweepCommit
    <3>4. QED BY <3>1, <3>3, <2>0, <1>t
  <2>6. QED BY <2>2, <2>3, <2>4, <2>5, TaskMoves
<1>3. ASSUME NEW t \in Tasks, t \notin twice', task'[t] \in {"running", "evaluating"}
      PROVE  \E a \in Requests : status'[a] = "running" /\ TaskOf(a) = t
  <2>0. t \notin twice
    BY <1>3, <1>b
  <2>1. CASE UNCHANGED <<task, status>>
    BY <1>3, <2>1, <2>0, <1>w
  <2>2. ASSUME NEW r \in Requests, BeginClaim(r)
        PROVE  \E a \in Requests : status'[a] = "running" /\ TaskOf(a) = t
    <3>1. CASE t = TaskOf(r)
      BY <2>2, <3>1, <1>a, <1>c
    <3>2. CASE t # TaskOf(r)
      <4>1. task'[t] = task[t]
        BY <2>2, <3>2, <1>a, <1>c
      <4>2. PICK a \in Requests : status[a] = "running" /\ TaskOf(a) = t
        BY <4>1, <1>3, <2>0, <1>w
      <4>3. QED BY <4>2, <3>2, <2>2, <1>a, <1>c
    <3>3. QED BY <3>1, <3>2
  <2>3. ASSUME NEW r \in Requests, Settles(r)
        PROVE  \E a \in Requests : status'[a] = "running" /\ TaskOf(a) = t
    <3>1. CASE t = TaskOf(r)
      <4>1. task[TaskOf(r)] = "running" /\ Exclusive(r)
        BY <2>3, <3>1, <2>0, <1>t, <1>u DEF Settles, Exclusive, Running
      <4>2. task'[t] \notin {"running", "evaluating"}
        BY <2>3, <3>1, <4>1, <1>a DEF Settles
      <4>3. QED BY <4>2, <1>3
    <3>2. CASE t # TaskOf(r)
      <4>1. task'[t] = task[t]
        BY <2>3, <3>2, <1>a DEF Settles
      <4>2. PICK a \in Requests : status[a] = "running" /\ TaskOf(a) = t
        BY <4>1, <1>3, <2>0, <1>w
      <4>3. status'[a] = "running"
        BY <4>2, <3>2, <2>3, <1>a DEF Settles
      <4>4. QED BY <4>2, <4>3
    <3>3. QED BY <3>1, <3>2
  <2>4. ASSUME NEW s \in Sweepers, SweepCommit(s)
        PROVE  \E a \in Requests : status'[a] = "running" /\ TaskOf(a) = t
    <3>1. task'[t] = task[t] /\ ~(t \in Freed(s) /\ task[t] = "running")
      BY <2>4, <1>3 DEF SweepCommit
    <3>2. PICK a \in Requests : status[a] = "running" /\ TaskOf(a) = t
      BY <3>1, <1>3, <2>0, <1>w
    <3>3. t \notin Freed(s)
      BY <3>1, <3>2, <2>0, <1>t
    <3>4. a \notin sweep[s].settled
      BY <3>2, <3>3, <2>0 DEF Freed, SuspectInv, Suspects
    <3>5. status'[a] = "running"
      BY <2>4, <3>2, <3>4 DEF SweepCommit
    <3>6. QED BY <3>2, <3>5
  <2>5. QED BY <2>1, <2>2, <2>3, <2>4, TaskMoves
<1>4. QED BY <1>1, <1>2, <1>3, <1>b DEF TaskInv

\* Every step keeps SuspectInv: the list has one Attempt of a Task, and the Attempt
\* that is spared leaves the list with its Task.
LEMMA SuspectStep ==
  ASSUME TypeOK, TaskInv, SuspectInv, [Next]_vars
  PROVE  SuspectInv'
<1> DEFINE One(s) == /\ sweep[s].todo \cap sweep[s].cur = {}
                     /\ (sweep[s].todo \cup sweep[s].cur) \cap sweep[s].settled = {}
                     /\ \A a, b \in Suspects(s) : TaskOf(a) = TaskOf(b) /\ TaskOf(a) \notin twice => a = b
                     /\ \A a \in Suspects(s) : TaskOf(a) \notin twice => TaskOf(a) \notin sweep[s].live
<1>a. sweep \in [Sweepers -> SweepType] /\ call' = call /\ twice \subseteq twice'
  BY CallFixed, TwiceMoves DEF TypeOK
<1>1. ASSUME NEW s \in Sweepers PROVE One(s)'
  <2>o. One(s)
    BY DEF SuspectInv
  <2>1. CASE SameList(s)
    BY <2>1, <2>o, <1>a DEF SameList, Suspects, TaskOf
  <2>2. CASE sweep'[s] = Quiet
    BY <2>2 DEF Quiet, Suspects
  <2>3. CASE SweepSelect(s)
    <3>1. /\ sweep'[s].todo = {a \in Requests : status[a] = "running"}
          /\ sweep'[s].cur = {} /\ sweep'[s].settled = {} /\ sweep'[s].live = {}
      BY <2>3, <1>a DEF SweepSelect, Quiet, SweepType
    <3>2. QED BY <3>1, <1>a DEF Suspects, TaskOf, TaskInv
  <2>4. ASSUME NEW a \in Requests, SweepCheck(s, a) PROVE One(s)'
    <3>1. /\ sweep[s].cur = {} /\ a \in sweep[s].todo
          /\ sweep'[s].todo = sweep[s].todo \ {a}
          /\ sweep'[s].settled = sweep[s].settled
          /\ \/ sweep'[s].cur = {a} /\ sweep'[s].live = sweep[s].live
             \/ sweep'[s].cur = {} /\ sweep'[s].live = sweep[s].live \cup {TaskOf(a)}
      BY <2>4, <1>a DEF SweepCheck, SweepType
    <3>2. QED BY <3>1, <2>o, <1>a DEF Suspects, TaskOf
  <2>5. ASSUME NEW a \in Requests, SweepSwap(s, a) PROVE One(s)'
    <3>1. /\ a \in sweep[s].cur
          /\ sweep'[s].todo = sweep[s].todo /\ sweep'[s].cur = {}
          /\ \/ sweep'[s].settled = sweep[s].settled \cup {a} /\ sweep'[s].live = sweep[s].live
             \/ /\ sweep'[s].settled = sweep[s].settled
                /\ sweep'[s].live \subseteq sweep[s].live \cup {TaskOf(a)}
      BY <2>5, <1>a DEF SweepSwap, SweepType
    <3>2. QED BY <3>1, <2>o, <1>a DEF Suspects, TaskOf
  <2>6. QED BY <2>1, <2>2, <2>3, <2>4, <2>5, SweepMoves
<1>2. QED BY <1>1 DEF SuspectInv

-----------------------------------------------------------------------------
(* Timely: the steps keep the invariants of sweeps and sandboxes *)

\* A row that was committed stays.
LEMMA RowStays ==
  ASSUME TypeOK, LockInv, [Next]_vars, NEW a \in Requests, status[a] # "none"
  PROVE  status'[a] # "none"
<1>1. ASSUME NEW r \in Requests, BeginClaim(r) PROVE status'[a] # "none"
  BY <1>1 DEF BeginClaim, TypeOK
<1>2. ASSUME NEW r \in Requests, Settles(r) PROVE status'[a] # "none"
  BY <1>2 DEF Settles, TypeOK, Terminal
<1>3. ASSUME NEW s \in Sweepers, SweepCommit(s) PROVE status'[a] # "none"
  BY <1>3 DEF SweepCommit
<1>4. QED BY <1>1, <1>2, <1>3, TaskMoves

\* Every step keeps ServedInv: a claim and a heartbeat renew the lease, the clock
\* waits for them, who settles an Attempt drops it, and no sweep hits a served one.
LEMMA ServedStep ==
  ASSUME Timely, TypeOK, RowInv, LockInv, ServedInv, GoneInv, [Next]_vars
  PROVE  ServedInv'
<1> SUFFICES ASSUME NEW a \in Requests, HeldBy(call[a].host, a)'
             PROVE  status'[a] = "running" /\ clock' <= beat'[a] + TTL
  BY DEF ServedInv
<1>a. /\ clock \in Nat /\ TTL \in Nat /\ beat \in [Requests -> Nat]
      /\ status \in [Requests -> AttemptState] /\ pc \in [Requests -> Control]
  BY ClockAssumption DEF TypeOK
<1>1. CASE BeginClaim(a)
  <2>1. status'[a] = "running" /\ clock' = clock /\ beat'[a] = clock
    BY <1>1, <1>a DEF BeginClaim
  <2>2. QED BY <2>1, <1>a
<1>2. CASE ~BeginClaim(a)
  <2>1. HeldBy(call[a].host, a)
    BY <1>2, PcMoves
  <2>2. status[a] = "running" /\ clock <= beat[a] + TTL
    BY <2>1 DEF ServedInv
  <2>3. status'[a] = "running"
    <3>1. ASSUME NEW r \in Requests, BeginClaim(r) PROVE status'[a] = "running"
      BY <3>1, <2>2, <1>a DEF BeginClaim
    <3>2. ASSUME NEW r \in Requests, Settles(r) PROVE status'[a] = "running"
      <4>1. r # a
        BY <3>2, <1>a DEF Settles, HeldBy
      <4>2. QED BY <3>2, <4>1, <2>2, <1>a DEF Settles
    <3>3. ASSUME NEW s \in Sweepers, SweepCommit(s) PROVE status'[a] = "running"
      BY <3>3, <2>1, <2>2 DEF SweepCommit, GoneInv
    <3>4. QED BY <2>2, <3>1, <3>2, <3>3, TaskMoves
  <2>4. clock' <= beat'[a] + TTL
    <3>1. ASSUME NEW r \in Requests, BeginClaim(r) PROVE clock' <= beat'[a] + TTL
      <4>1. r # a /\ clock' = clock /\ beat'[a] = beat[a]
        BY <3>1, <1>2, <1>a DEF BeginClaim
      <4>2. QED BY <4>1, <2>2
    <3>2. ASSUME NEW p \in Procs, WriteHeartbeats(p) PROVE clock' <= beat'[a] + TTL
      <4>1. clock' = clock /\ (beat'[a] = clock \/ beat'[a] = beat[a])
        BY <3>2 DEF WriteHeartbeats
      <4>2. QED BY <4>1, <2>2, <1>a
    <3>3. ASSUME Tick PROVE clock' <= beat'[a] + TTL
      <4>1. clock' = clock + 1 /\ beat' = beat /\ clock < beat[a] + TTL
        BY <3>3, <2>1, <2>2 DEF Tick, attempts
      <4>2. beat[a] \in Nat
        BY <1>a
      <4>3. QED BY <4>1, <4>2, <1>a
    <3>4. QED BY <2>2, <3>1, <3>2, <3>3, BeatMoves
  <2>5. QED BY <2>3, <2>4
<1>3. QED BY <1>1, <1>2

\* Every step keeps GoneInv: the lease of a served Attempt is never expired, and a
\* request that is no longer served does not come back.
LEMMA GoneStep ==
  ASSUME TypeOK, RowInv, LockInv, LeaseInv, ServedInv, GoneInv, [Next]_vars
  PROVE  GoneInv'
<1> SUFFICES ASSUME NEW s \in Sweepers, NEW a \in Requests,
                    a \in sweep'[s].expired \cup sweep'[s].cur \cup sweep'[s].settled
             PROVE  status'[a] # "none" /\ ~HeldBy(call[a].host, a)'
  BY DEF GoneInv
<1>a. sweep \in [Sweepers -> SweepType]
  BY DEF TypeOK
<1>1. SUFFICES status[a] # "none" /\ ~HeldBy(call[a].host, a)
  <2>1. ASSUME status[a] # "none" PROVE ~BeginClaim(a)
    BY <2>1 DEF BeginClaim, RowInv
  <2>2. QED BY <2>1, RowStays, PcMoves
<1>2. CASE SameList(s)
  BY <1>2 DEF SameList, GoneInv
<1>3. CASE sweep'[s] = Quiet
  BY <1>3 DEF Quiet
<1>4. CASE SweepSelect(s)
  <2>1. /\ sweep'[s].cur = {} /\ sweep'[s].settled = {}
        /\ sweep'[s].expired = {x \in Requests : status[x] = "running" /\ clock - beat[x] > TTL}
    BY <1>4, <1>a DEF SweepSelect, Quiet, SweepType
  <2>2. status[a] = "running" /\ clock - beat[a] > TTL
    BY <2>1
  <2>3. ~(clock <= beat[a] + TTL)
    BY <2>2, ClockAssumption DEF TypeOK
  <2>4. QED BY <2>2, <2>3 DEF ServedInv
<1>5. ASSUME NEW x \in Requests, SweepCheck(s, x)
      PROVE  status[a] # "none" /\ ~HeldBy(call[a].host, a)
  <2>1. /\ x \in sweep[s].todo
        /\ sweep'[s].expired = sweep[s].expired /\ sweep'[s].settled = sweep[s].settled
        /\ sweep'[s].cur = {} \/ (sweep'[s].cur = {x} /\ ~ExecutorIsLive(s, x))
    BY <1>5, <1>a DEF SweepCheck, SweepType
  <2>2. CASE a \in sweep[s].expired \cup sweep[s].settled
    BY <2>2 DEF GoneInv
  <2>3. CASE a = x /\ ~ExecutorIsLive(s, x) /\ a \notin sweep[s].expired
    <3>1. status[a] # "none"
      BY <2>1, <2>3 DEF LeaseInv
    <3>2. call[a].host = HostOf(s) /\ ~HeldBy(HostOf(s), a)
      BY <2>3 DEF ExecutorIsLive
    <3>3. QED BY <3>1, <3>2
  <2>4. QED BY <2>1, <2>2, <2>3
<1>6. ASSUME NEW x \in Requests, SweepSwap(s, x)
      PROVE  status[a] # "none" /\ ~HeldBy(call[a].host, a)
  <2>1. /\ x \in sweep[s].cur
        /\ sweep'[s].expired = sweep[s].expired /\ sweep'[s].cur = {}
        /\ sweep'[s].settled \subseteq sweep[s].settled \cup {x}
    BY <1>6, <1>a DEF SweepSwap, SweepType
  <2>2. QED BY <2>1 DEF GoneInv
<1>7. QED BY <1>2, <1>3, <1>4, <1>5, <1>6, SweepMoves

\* Only the adapter of a served Attempt opens a sandbox row.
LEMMA OpenMoves ==
  ASSUME TypeOK, [Next]_vars, NEW a \in Requests, Resolved(a), ~Resolved(a)'
  PROVE  pc[a] = "adapter"
<1>a. row \in [Requests -> [Boxes -> Phases]]
  BY DEF TypeOK
<1>1. PICK b \in Boxes : row'[a][b] \notin {"none", "absent"} /\ row[a][b] \in {"none", "absent"}
  BY DEF Resolved
<1>2. PICK r \in Requests, c \in Boxes : Remote(r, c)
  BY <1>1, RemoteMoves
<1>3. CASE OpenRemoteSandbox(r, c)
  BY <1>3, <1>1, <1>a DEF OpenRemoteSandbox
<1>4. CASE IdentifySandbox(r, c)
  BY <1>4, <1>1, <1>a DEF IdentifySandbox
<1>5. CASE VerifyAbsent(r, c)
  BY <1>5, <1>1, <1>a DEF VerifyAbsent
<1>6. QED BY <1>1, <1>2, <1>3, <1>4, <1>5 DEF Remote, ProviderCreate, ProviderGone

\* Every step keeps ResolvedInv: the adapter of an Attempt a sweep has judged is gone.
LEMMA ResolvedStep ==
  ASSUME TypeOK, GoneInv, ResolvedInv, [Next]_vars
  PROVE  ResolvedInv'
<1> SUFFICES ASSUME NEW s \in Sweepers, NEW a \in Requests, a \in sweep'[s].cur \cup sweep'[s].settled
             PROVE  Resolved(a)'
  BY DEF ResolvedInv
<1>a. sweep \in [Sweepers -> SweepType]
  BY DEF TypeOK
<1>1. ASSUME a \in sweep[s].cur \cup sweep[s].settled PROVE Resolved(a)'
  <2>1. Resolved(a) /\ ~HeldBy(call[a].host, a)
    BY <1>1 DEF ResolvedInv, GoneInv
  <2>2. pc[a] # "adapter"
    BY <2>1 DEF HeldBy
  <2>3. QED BY <2>1, <2>2, OpenMoves
<1>2. CASE SameList(s)
  BY <1>2, <1>1 DEF SameList
<1>3. CASE sweep'[s] = Quiet
  BY <1>3 DEF Quiet
<1>4. CASE SweepSelect(s)
  BY <1>4, <1>a DEF SweepSelect, Quiet, SweepType
<1>5. ASSUME NEW x \in Requests, SweepCheck(s, x) PROVE Resolved(a)'
  <2>1. /\ sweep'[s].settled = sweep[s].settled /\ row' = row
        /\ sweep'[s].cur = {} \/ (sweep'[s].cur = {x} /\ ~EffectBlocks(s, x))
    BY <1>5, <1>a DEF SweepCheck, SweepType, remote
  <2>2. CASE a = x /\ ~EffectBlocks(s, x)
    BY <2>1, <2>2 DEF EffectBlocks, Resolved
  <2>3. QED BY <2>1, <2>2, <1>1
<1>6. ASSUME NEW x \in Requests, SweepSwap(s, x) PROVE Resolved(a)'
  <2>1. /\ x \in sweep[s].cur /\ sweep'[s].cur = {}
        /\ sweep'[s].settled \subseteq sweep[s].settled \cup {x}
    BY <1>6, <1>a DEF SweepSwap, SweepType
  <2>2. QED BY <2>1, <1>1
<1>7. QED BY <1>2, <1>3, <1>4, <1>5, <1>6, SweepMoves

-----------------------------------------------------------------------------
(* The theorems *)

\* The inductive invariant of Tasks that are under way.
UnderwayInv == TaskInv /\ SuspectInv

\* A living executor keeps its lease: the inductive invariant.
TimelyInv == ServedInv /\ GoneInv /\ ResolvedInv

\* Both hold initially.
LEMMA EnvironmentInit == Init => UnderwayInv /\ TimelyInv
<1> SUFFICES ASSUME Init PROVE UnderwayInv /\ TimelyInv
  OBVIOUS
<1>1. TaskInv /\ ServedInv
  BY DEF Init, TaskInv, ServedInv, HeldBy
<1>2. SuspectInv /\ GoneInv /\ ResolvedInv
  BY DEF Init, Quiet, SuspectInv, Suspects, GoneInv, ResolvedInv
<1>3. QED BY <1>1, <1>2 DEF UnderwayInv, TimelyInv

\* Every step keeps the invariant of Tasks that are under way.
LEMMA UnderwayStep ==
  ASSUME IInv, UnderwayInv, [Next]_vars
  PROVE  UnderwayInv'
BY TaskStep, SuspectStep DEF IInv, UnderwayInv

\* Every step keeps the invariant of timely leases.
LEMMA TimelyStep ==
  ASSUME Timely, IInv, TimelyInv, [Next]_vars
  PROVE  TimelyInv'
BY ServedStep, GoneStep, ResolvedStep DEF IInv, TimelyInv

\* The invariant of Tasks that are under way always holds.
THEOREM UnderwayInvariance == Spec => []UnderwayInv
<1>1. Init => UnderwayInv
  BY EnvironmentInit
<1>2. IInv /\ UnderwayInv /\ [Next]_vars => UnderwayInv'
  BY UnderwayStep
<1>3. QED BY <1>1, <1>2, Invariance, PTL DEF Spec

\* With executors that keep their leases, the invariant always holds.
THEOREM TimelyInvariance ==
  ASSUME Timely
  PROVE  Spec => []TimelyInv
<1>1. Init => TimelyInv
  BY EnvironmentInit
<1>2. IInv /\ TimelyInv /\ [Next]_vars => TimelyInv'
  BY TimelyStep
<1>3. QED BY <1>1, <1>2, Invariance, PTL DEF Spec

\* Unless two dispatches of it overlapped, a Task is running or evaluating exactly
\* while an Attempt of it is running, one that a finish or a sweep can settle: over
\* any dispatches, crashes, raises, cancellations and concurrent sweeps.
THEOREM NoTaskIsStranded == Spec => []TaskNeverStranded
<1>1. UnderwayInv => TaskNeverStranded
  BY DEF UnderwayInv, TaskInv, TaskNeverStranded, Running
<1>2. QED BY <1>1, UnderwayInvariance, PTL

\* When living executors keep their leases, the sandbox rows of an Attempt that a
\* sweep fails are verified absent at the commit, although they were read before it.
THEOREM ReapedAreResolved ==
  ASSUME Timely
  PROVE  Spec => ReapedEffectsStopped
<1>1. ASSUME IInv, TimelyInv, [Next]_vars, NEW a \in Requests, NEW b \in Boxes, ~killed[a], killed'[a]
      PROVE  row[a][b] \in {"none", "absent"}
  <2>1. killed' # killed
    BY <1>1
  <2>2. PICK s \in Sweepers : SweepCommit(s)
    BY <1>1, <2>1, KilledFixed
  <2>3. a \in sweep[s].settled
    BY <1>1, <2>2 DEF SweepCommit
  <2>4. QED BY <1>1, <2>3 DEF TimelyInv, ResolvedInv, Resolved
<1>2. IInv /\ TimelyInv /\ [Next]_vars =>
        [\A a \in Requests, b \in Boxes : ~killed[a] /\ killed'[a] =>
           row[a][b] \in {"none", "absent"}]_vars
  BY <1>1
<1>3. QED BY <1>2, Invariance, TimelyInvariance, PTL DEF Spec, ReapedEffectsStopped
=============================================================================
