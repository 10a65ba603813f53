# Verification of SDF Core

SDF Core decides whether an agent's change to a repository may count as done.
A **Task** is dispatched as an **Attempt**: an agent works on a copy of the
repository, often inside a sandbox of a remote provider, an independent
Evaluator measures the result, and only PASS Evidence moves the Task to
`succeeded`. Several SDF Core processes share one PostgreSQL database; any of
them may die at any statement, and leases with an orphan sweep bring the work of
a dead process to an end.

This directory holds TLA+ modules of the parts where that is hard, TLC
configurations that check them on small instances, and TLAPS proofs for the
results that matter most. `PROJECT.json` lists the components, the runs, the
source lines behind every definition, the hazards and the theorems.

## 1. Inventory

| Component (under `src/`) | State | Operations | What is hard | What makes it correct |
|---|---|---|---|---|
| Execution core, `sdf_core/execution.py`, `state.py` | `tasks.status`, `attempts`, `evidence` | `begin`, `run`, `finish`, `_fail_attempt`, `execute_tool` | overlapping dispatches, stale reads, a transaction held open while the Evaluator runs | one adapter start per dispatch key; settled means settled; success only on Evidence |
| Recovery, `sdf_core/recovery.py` | `executor_id`, `executor_heartbeat_at`, a process-local owner map | claim, heartbeat, sweep, owner fence, start, shutdown | crash at any statement, late heartbeats, two sweeps at once | only orphans are reaped; every orphan is reaped in the end |
| Remote effects, `sdf_core/remote_effects.py` | `attempt_remote_sandboxes.phase`, `attempts.remote_effect` | open, identify, observe, verify, refresh, reconcile | a create whose answer is lost; a kill that is not proof of absence | no Attempt is failed over a sandbox that may be alive |
| Live run adapter, `sdf_core/run_adapter.py`, `adapter.py`, `usage.py` | slots, the metered runtime, turn rows | `run_slot`, `run`, metering, teardown with retries, release of rows | a kill that fails, a turn that times out, an id that is forgotten | a sandbox that may live stays fenced; every turn is metered; slots are returned |
| Coordinator, `sdf_core/coordinator.py` | `agent_runs`, members, subtasks, mail, the gate of a poll | create, execute (poll, relay, answer, verify, deliver, complete), finalize, cancel | agents in parallel, a decision that holds part of a run, reports that come late | a run succeeds only on succeeded Tasks and past no open decision; it ends, and leaves nothing running |
| Plan gate, `sdf_core/plans.py`, `decision_gate.py`, `materiality.py`, `casefold.py`, guards in `db.py`, triggers in `alembic/` | Plans, decision requests, the stored fold of a proposer | propose, decide, ask, resolve, start a run, list the inbox | two decisions on rows both found pending; a name in two spellings | one decision, by another human; no work on an unapproved Plan |
| Python Tool Proxy, `sdf_core/tools.py`, `policy.py` | `tool_audits`, `runtime_events`, all written in one transaction | authorize, claim, execute, record, replay | two deliveries that number the same stream, a guard on a cached row, a crash after the effect | one run that stands per action; the stream and the audit tell the same story |
| Go Tool Proxy, `go/internal/toolproxy` | claims, outcomes, decisions and Attempt records in memory or SQLite | the same, with durable claims; ensure, promote, forget | two deliveries of one action, a crash between the claim and the outcome, a store that fails | an action is executed at most once, never without a decision on record, and what callers are told follows the stored row |
| Runtime and events, `sdf_core/runtime.py`, `events.py` | sessions, bindings, `runtime_events` | start, send, stream, cancel, terminate, recover, reconnect; append | a cancel from another thread, a crash before the commit, a superseded session | streams without gaps, one chain of sessions, an end that is an end |
| Agent messaging, `sdf_core/agent_messaging.py`, `sdf_msg_shim.py` | outboxes, `agent_messages`, claims | post, relay, refuse, deliver | an envelope that is read and whose removal is not confirmed | a claim never decides by itself; a refused sender is told |
| Evaluator, acceptance, oracles, `evaluator.py`, `acceptance.py`, `checks.py`, `oracle.py` | the agenda, sealed oracle copies, frames, Evidence | evaluate, verify targets, seal, run, judge, observe, accept | a check that changes the workspace, a process that leaves early, a fixture edited meanwhile | a PASS was earned, describes the recorded revision and covers the Task |
| Measurement, routing, escalation, `measurement.py`, `qualification.py`, `routing.py`, `escalation.py`, `impact.py` | measured rows | select, escalate, measure | thin data; statistics | - |
| Revisions, artifacts, MAC, `revisions.py`, `artifacts.py`, `evidence_mac.py` | revisions, captured files, content MACs | open, close, capture, stamp, verify | a stamp before defaults and flushes, a lost file, a replaced key | verification tells the truth about every stored row |
| Agent runtimes and transports, `herdr_runtime.py`, `headless_runtime.py`, `opencode_runtime.py`, `pi_runtime.py`, `qwen_runtime.py`, `goose_runtime.py`, `e2b_herdr_transport.py`, `daytona_herdr_transport.py` | session status, panes, the sandbox id | start, send, status, cancel, terminate; exec, close | status written by two threads, timeouts that kill, ids that are lost | what they report of a turn and of its end is true |
| Sandboxes and credentials, `sandbox.py`, `containment.py`, `agent_sandbox.py`, `credentials.py`, `credential_injection.py` | processes, files, provider clients | create, run, collect, close | mostly I/O | - |
| API, auth, human read model, `api.py`, `auth.py`, `human_read.py` | tokens with roles and kinds, the inbox | HTTP handlers | a decision by the wrong principal | only a human with the role decides |
| Go orchestrator and queue, `go/internal/orchestrator`, `queue` | reserved keys, in-flight starts, a bounded channel, workers | `Start`, `abandonStart`, `ConfirmLive`, `Enqueue`, `Close` | a retry while the first start is being undone, a cancelled wait, shutdown | a key runs once; what was accepted runs, with its record and scope |
| Go message bus, `go/internal/bus` | subscriptions and their channels | `Subscribe`, `Unsubscribe`, `Publish`, `Close` | a send after the lock was released, a subscriber that stops reading | nil means accepted by every target; every call ends |
| Go gateway, metrics, command | counters | HTTP handlers | mostly I/O | - |

Components interact through the database rows, through the process-local owner
map, and through direct calls: the API calls `ExecutionService.run`, the
Coordinator calls `begin` and `finish` separately, both call the sweep, and the
run adapter and the Evaluator call `remote_effects`. The Go command `sdf-orch` is
a process of its own: its orchestrator registers the scope and the record of an
Attempt in its Tool Proxy, queues the task, and its workers publish to the bus.

## 2. Plan

The project was built in this order, the most important behaviour first:

1. `AttemptExecution` with `AttemptLedger` and `AttemptExecutionProofs`: dispatch,
   settlement, recovery and the sandbox fences.
2. `ToolFence` with `ActionLedger` and `ToolFenceProofs`: the Go Tool Proxy.
3. `ToolDelivery` with `ToolDeliveryProofs`: the Python Tool Proxy.
4. `Orchestrator` and `MessageBus` with `OrchestratorProofs`: the Go dispatcher.
5. `CoordinatorRun` with `CoordinationProofs`: a plan run with its agents, mail,
   decisions, verification rounds, cancel and end.
6. `PlanGate`, proved in the same module: proposal, decision and the guards below them.
7. `Evaluation` with `EvaluationProofs`: the inside of `finish`, from the workspace to stored Evidence and its
   readers, with verdicts as functions of what an oracle process did.
8. `LiveRun` with `LiveRunProofs`: the run adapter, runtimes and transports over a
   sandbox provider.
9. `RuntimeSessions` with `RuntimeSessionsProofs`: the controller, its durable events, crashes and cancels.

Left, in this order:

10. Compositions: an Evaluator that opens a sandbox row while `finish` holds the lock of
    the same Attempt; `CoordinatorRun` over the sweep of `AttemptExecution`; the
    orchestrator with the bus (an Attempt's own timeout spent in `Publish`).
11. The failure limiter of `auth.py` and the state machine of `escalation.py`.

The set of runs stays small: each asks one question of one instance.

## 3. Modules and the code

All modules share some conventions. One action is one statement, one mutex
section or one call that others can come between; everything the code does
before it lets others in is in the same action. History variables (`ran`, `runs`,
`killed`) only record what happened. The definitions under "Faulty variants" are
used by no behaviour: each is a slip that a property must catch.

**AttemptExecution** (`execution.py`, `recovery.py`, `remote_effects.py`, parts of
`run_adapter.py`, `coordinator.py`, `decision_gate.py`). A request is one call of
`run`; the Attempt it inserts bears its name, since `begin` mints a fresh id.
`pc[r]` is the place in `begin` (`recover`, `read`, `insert`, `claim`, `workspace`),
the adapter, and `finish` (`finish`, `settle`, `evaluate`) or `_fail_attempt`.
`task`, `status`, `beat`, `mode`, `effect` and `row` are the columns of the database;
`seen` is what a session's identity map still believes. `sweep[s]` is the local state
of one `recover_orphaned_attempts`, which runs on a refresher or inside a `begin`:
the SELECT, the check of each Attempt, each compare-and-swap and the commit are
actions of their own. Row locks are derived (`AttemptFree`, `TaskFree`): `finish` holds
the Attempt and the Task while the Evaluator runs, a sweep holds what it swapped.
PostgreSQL's deadlock detector, the sandbox provider and the death of a process are
external. Dispatches overlap as the code lets them; `twice` is the history of the Tasks
of which two Attempts ran at a time. `Timely` is an assumption on the environment that the
run `remote` makes and `dispatch` does not: living executors renew in time. **AttemptLedger** is what this promises: a key is claimed
once, started once and settled once, and a verdict comes with completion.

**ToolFence** (`go/internal/toolproxy`). `Proxy.Execute` from the decision to the
terminal row; each store call is a step and may fail. `kind` chooses between the
SQLite file, which survives a restart, and `MemoryStore`, which does not. `Init`
includes every file that the migration of `tool_outcomes` can produce. The Attempt
record (`mode`) and the scope are driven as the orchestrator drives them, at any time.
An answer is a status and an error, as `Execute` returns both: a delivery that loses the
claim to one that still runs is told `failed` with `ErrFailed`, and one whose executor
succeeded and whose row could not be written is told `executed` with the store's error.
**ActionLedger** is the abstract fence: open, taken, settled, one executor start.

**ToolDelivery** (`tools.py`, `execution.execute_tool`, `api.execute_tool_action`,
`runtime.SqlAlchemyRuntimeEventSink.append`). A delivery is one transaction:
`open[d]` and `mine[d]` are its uncommitted rows. `_emit` is two steps, the read that
computes a number (`want`) and the INSERT, which waits for another open
transaction that holds the number and then finds the row there: the same event is
accepted, another one raises `RuntimeEventConflictError` and rolls back. `cached` is
the Attempt that `execute_tool` loaded and that the guard reads again from the
session. The policy's word is any word the binding and the guard allow.

**Orchestrator** (`orchestrator.go`, `queue.go`). `Start` step by step: the reservation
under `o.mu`, `EnsureAttempt`, `RegisterScope`, the two halves of `Enqueue`, and
`abandonStart`, whose second half runs after the unlock. Workers, the runner (which
returns, since `handleTask` gives it a timeout) and `Close` are the rest.

**MessageBus** (`bus.go`). `Publish` collects the channels under the read lock and
sends after it; `Subscribe`, `Unsubscribe` and `Close` close channels meanwhile.

**CoordinatorRun** (`coordinator.py`, `agent_messaging.py`, parts of `decision_gate.py`,
`materiality.py`, `api.py`, `sdf_msg_shim.py`). `phase` is the place of the coordinator
thread in one poll: `poll` (cancel, caps, finished turns), `relay`, `gate`, `verify`,
`deliver`, `complete`; `close` is what follows a break or an exception, and `Finalize` ends
the run. Agents write at any time of a turn, so an envelope is found or not found by a
poll as the relay chooses; a human resolves, a sweep reaps and the process dies between
any two steps. A worker stands for its subtask. Costs and times are not counted: a cap
may be reached at any poll. `Fenced` are the workers whose sandbox writes rows for its
Attempt; `begin` refuses a retry of theirs while such a row is open, which is the outcome
`refused`, a kind of `failed`. An agent asks at most one question of each kind, which is a
bound of the model.

**PlanGate** (`plans.py`, `auth.py`, `human_read.py`, `db.py`, `api.py`, migrations 0014,
0024, 0033). A call is one request in a session of its own: `Enter`/`Deny`, `Load`, the
first flush (`Write`, which takes the row lock), the second flush with the commit, or
`Rollback`. `Triggers` tells PostgreSQL, whose triggers read the locked row, from SQLite,
where the session guards compare with what the session itself loaded. A row lock is one
for each request (`lock`). Names and their folds are data; the names of agents, sandboxes
and the host (`Reserved`) approve nothing; migration 0033 may come at any time.

**Evaluation** (`execution.finish`, `evaluator.py`, `oracle.py`, `checks.py`, `acceptance.py`,
`revisions.py`, `artifacts.py`, `evidence_mac.py`, `sandbox.py`). `at` is the place in
`finish`: `close`, `capture`, then for each entry of the agenda `check`, `seal`, `place`,
`run`, `notary`, `observe`, then `record` and the commit. A tree is a record of two
contents and its own digest. `PytestVerdict`, `ScriptVerdict` and `ExitVerdict` are the
code's decision tables over the frame and the exit of the child; `Sound` is the reference
they are compared with, from what the child's tests really did. `Declares` is what
`declared_test_count` finds in the files of a check: a lower bound on its tests, and 0 where
it finds none, which turns the comparison off. Errors of a test are folded into failures.
When checks for criteria are given, the commands are dropped from the agenda, as the code
does. `Acceptable` includes that the verifier is not the Task's agent and that a row that
ran has the digest of its oracle; the row of a check that could not run (`CannotRun`) never
has one in the model, where the code gives one to a check whose sandbox did not start, and is
no PASS in either. `Payload`, `Stamp` and
`Loaded` model what a MAC covers before the INSERT and after a read; the digest of a captured
output is in it when `WriteOutput` has flushed that artifact before `Record` stamps the row. The adapter's
processes no longer write once `finish` has started; the operator may edit the fixture
once, at any time.

**LiveRun** (`run_adapter.py`, `adapter.py`, the runtimes and transports, `remote_effects.py`,
`usage.py`). A run is a record; `pc` and `todo` are the phase and the remote commands that
are left in it (`Script`, from the methods of each runtime and transport), each of which must succeed, is only
tried, or closes the transport. A command may provision a sandbox first (`Fence`, then
`Provision` or one of its failures), may fail, and may time out, upon which the transport
kills the sandbox, or does not, and forgets it. `box[r]` are the sandboxes at the provider
with their rows in the database. A kill, a delete or a close that returned (`Kill`) may
leave the sandbox alive; `asked` are the sandboxes for which such a call returned, and only a
lookup that does not find the id closes its row (`Release`). A seeding error that is not one
of Herdr's is `Provision` followed by a command that fails. `Turns` is what each runtime makes of exit codes and
output. `Teardown`, `Retry`, `Release` and `Settle` are the end.

**RuntimeSessions** (`runtime.py`, `events.py`, `herdr_runtime.py`, `headless_runtime.py`,
`opencode_runtime.py`, `pi_runtime.py`). One Attempt, one process after the other; in each
a main thread and a canceller. A call of the controller is: check the session, call the
runtime (whose steps others can come between), record the event under the lock. `rows`
are committed events and `pending` those of the open transaction, which a crash loses
together with `ctl` and `mem`. `Replay` is `recover`: it sorts the events into the chain of
sessions (`InOrder`, by the generation of a session and its numbers) and applies them one by
one to a fresh controller, which keeps the highest number of each stream and stops at the
first event it refuses (`Takes`). The status that `start` and `reconnect` write when they ask
Herdr are steps of their own (`StartTold`, `Reconnected`). 0 stands for no
session and no pane. The agent's process (`agents`) goes on. A snapshot that a
caller kept may be restored later. `RecoveredFirst` is a duty of the caller: a fresh
controller starts a new id over stored events only after `recover`, as the tests of the code
do. `start` does not check it, and ADR 0029 (line 110) says that `recover` is not wired into
`LiveRunAdapter`, where each run has a fresh sandbox.

## 4. Runs

| Run | Instance | What it shows |
|---|---|---|
| `dispatch` | two requests on two processes that share a key or a process, decisions, one clock tick; leases may be missed | `AdapterOncePerKey`, `SucceededIsEvidenced`, `TaskNeverStranded`, `ReapedOnlyWhenGone`, and `LedgerSpec`: the code implements `AttemptLedger` |
| `remote` | one dispatch that a sandbox makes live, two processes, two sandboxes, leases renewed in time | `ReapedEffectsStopped`: recovery fails no Attempt with an unresolved sandbox; under fairness `OrphanSettles` |
| `fence` | three deliveries of one action, both stores, two restarts | `RunsOnce`, `AnswersFollowTheRow`, `FenceIsLedger` |
| `delivery` | an action, its redelivery, a second action by an admin | `StreamIsSerial`, `OneStandingRun`, `StreamTellsTheStory`; under fairness `DeliveryEnds` |
| `orch` | a start, its retry, and a start of the same Attempt under another key; two workers, a channel of one | `KeyRunsOnce`; under fairness `AcceptedRuns` |
| `bus` | three publishers, two ids, three channels of capacity one | `OkMeansAccepted`; under fairness `PublishEnds` |
| `plan_run` | a lead and a worker, one turn each, two verification rounds, material and plain questions | `SucceededRunIsProven`, `NothingOutlivesTheRun`, `HeldScopeWaits`; under fairness `RunEnds` |
| `retry` | the instance of `plan_run` with a worker whose sandbox writes rows | violated: `RetryRunsInItsSandbox`, see section 5 |
| `plan_gate` | two calls on one Plan, two on one question, a run; a proposer with two spellings; PostgreSQL | `ApprovedByAnother`, `WorkNeedsApproval`, `InboxIsActionable`, `DecisionIsFinal` |
| `evaluate` | nine Tasks over a pytest suite, a script, a held-out suite and a linter; the fixture edited once; two MAC keys; SQLite | `PassIsEarned`, `PassDescribesTheRevision`, `SuccessIsCovered`, `VerifyTellsTheTruth` |
| `live_run` | a run of each kind alone, or a Qwen and a Pi run with one slot; E2B and Daytona | `SurvivorIsFenced`, `EveryTurnIsMetered`, `NoSandboxForgotten`; under fairness `SlotComesBack` |
| `sessions` | three ids, three events, two crashes; a fake, a headless and a Herdr runtime | `StreamIsWhole`, `BindingFollowsTheRecord`, `EndedMeansStopped`, `RetiredStaysSilent` |

Bounds. Every race in the list of hazards is between two actors, so two
requests, starts or deliveries of the same thing show it; a third one is there
where a bystander matters (another action, another key of the same Attempt).
Two processes are one that dies and one that recovers. `MaxClock` lets a lease expire
once; with `TTL = 0` one tick is enough for that, and a renewal at the later tick
changes the lease that a sweep compares. Capacity one makes a channel full at
once. `MaxCrashes = 2` lets a restarted store be restarted. A process of
`AttemptExecution` dies only while another one can serve, which is a bound on the
environment, not on the code. One worker is enough for `plan_run`, since a subtask meets
others only through the lead and the pool, and the proofs cover any number; two rounds
let a verification fail and its retry pass. `remote` has one request, since the sweep and
the executor race over one Attempt, and the theorem covers any number. Four checks and nine
Tasks give every shape of an agenda: covered, with a gap, with a criterion listed twice, with a
mapping of no criterion, with commands beside checks, verified by the Task's own agent, commands
only, empty. Two live runs meet only in the slots, so one pair is enough. Two
contents of a file tell a changed one from the original. Three session ids are a chain in
which the middle one supersedes and is superseded, and two crashes let a recovered
controller crash. Deadlock checking is off where the system may stop when all calls are
done (all runs but `dispatch` and `remote`). The largest runs are `evaluate` (2.9 million
distinct states), `sessions` (2.3) and `dispatch` (1.4).

Fairness. `AttemptExecution` (`remote`): handlers return, because the adapter and the Evaluator
have timeouts; the refresher of a living process is restarted by its supervisor;
the clock advances; a process is started. Neither crashes nor decisions nor the
provider are fair. `ToolDelivery`: a handler that can go on does, and PostgreSQL wakes
a waiting INSERT. `Orchestrator`: workers take tasks and runners return. `MessageBus`:
a publisher's context ends. `CoordinatorRun`: the coordinator thread goes on, and the two
caps on time are strongly fair, because every poll takes time that counts towards the
one or the other. `LiveRun`: every remote call has a timeout, so a run's next step is taken.

## 5. Where the code and its words differ

What the models reach and a comment or a docstring of the code denies. The behaviours are
in the models, so that no property of a run excludes them.

- Two overlapping `begin`s of one Task under different keys both pass the still-running
  check (`execution.py:308`) and commit two running Attempts; the Task's UPDATE names its id
  only. The Evaluator of one of them may then raise while the other still runs: its
  `_fail_attempt` leaves the Task `evaluating`, where the other cannot move it.
  `TaskNeverStranded` is therefore stated for Tasks of which no two Attempts have run at
  a time (`twice`), and no property says that one Attempt runs.
- `coordinator.py:942` says "A retry runs in the worker's already-started sandbox", and
  `docs/remote-recovery.md:19`, ADR 0041:258 and `test_crash_recovery.py:1767` speak of such a
  retry. The row of that sandbox is `identified` and belongs to the Task, and `begin` refuses a
  Task with such a row, of whichever Attempt (`execution.py:243-249`, `docs/remote-recovery.md:17`).
  The refusal ends the run as failed. The run `retry` shows it; workers without rows are retried
  (`plan_run`).
- A delivery to the Go Tool Proxy that loses the claim is told `failed` (`proxy.go:252-262`) while
  the winner still runs and may be told `executed`. Two callers can hear different outcomes, so
  `AnswersFollowTheRow` speaks of the row that is stored, not of other callers.
- ADR 0041:268 says that Daytona has no lookup in this build; `remote_effects.py:253-258` has one,
  and `Release` asks either provider. ADR 0041:190 says that a `_fail_attempt` that loses its swap
  does not move the Task; the code does after its own `completed` (`execution.py:741-761`, as its
  docstring says), and so does the model.
- An Attempt that `finish` holds back for a material decision has no living service, and
  the next sweep of its own process fails it, though `execution.py:349` says it "can be
  finished once resolved".
- `abandonStart` (`orchestrator.go:248`) forgets the record and drops the scope after it
  freed the key; a retry in between is queued and loses both. When two starts of one
  Attempt both fail to queue, neither forgets the record.
- `Publish` (`bus.go:104`) can send on a channel that was closed since it collected it, and
  the process panics.
- On SQLite the session guards compare with what the session loaded, so that of two
  overlapping decisions the second overwrites the first; migration 0014 calls the guards
  equivalent to the triggers. `plan_gate` and the proofs of `DecisionIsFinal` and
  `WorkNeedsApproval` have `Triggers`. On PostgreSQL the loser gets an error 500.
- A failed kill clears the transport's id; `_teardown`'s own close then does nothing and the
  ledger says `killed` while the sandbox lives. A kill that returned may leave it alive as
  well (`remote_effects.py:254-258`). `SurvivorIsFenced` shows that its row still fences the
  Attempt, and `NoSandboxForgotten` that a completed headless run has asked for the end of
  each sandbox and was not told of a failure. `run_slot`'s bound on sandboxes is one on runs for the same reason.
- A collection that fails "leaves the local workspace untouched" (`e2b_herdr_transport.py:241`) as
  long as it downloads; when emptying or refilling the local directory fails, the tree is torn
  (`Collected`). The run then raises, and `NoSandboxForgotten` shows that no result comes
  with such a tree.
- `confirm_live` promises `live` exactly when a sandbox existed; a sandbox exists from staging
  on, and a run whose credentials cannot be seeded stays synthetic.
- After a timed-out Herdr turn the metering asks a new sandbox for the status and raises: the
  turn has no row. `EveryTurnIsMetered` is stated for headless runs and for Herdr runs that
  return a result.
- The status that `send` or `status` writes last may replace CANCELLED in memory, and a
  second cancel after a failed kill finds the runtime closed and records the end.
  `EndedMeansStopped` therefore excepts a provider that did not kill (`leaked`).
- A second `done` of a worker after its PASS leaves its verification requested for ever; the
  run then succeeds by the lead's report only, or ends at the wall cap. A late report on an
  exhausted subtask makes `finish` raise and fails the run. An envelope whose removal
  succeeded and lost its answer is dropped.
- `_fail_attempt` after a failed second capture commits PASS rows of a Task that ends failed.
- A concurrent redelivery to the Python Tool Proxy can end in `RuntimeEventConflictError`
  where the docstring of `append` speaks of idempotent concurrent redelivery; `RefusedBeforeRun`
  shows that no effect is lost by it. A delivery that dies after its executor ran leaves no
  trace, so that a redelivery runs the action again.
- An executor that misses its lease can open a sandbox between the sweep's check and its
  swap (`ReapedEffectsStopped` needs `Timely`).

## 6. Proofs

Checked by TLAPS for every value of the constants that meets the named assumptions. Each
inductive invariant below was first checked by TLC on the instances of section 4. Every
invariant and every action property that a passing run checks is a theorem here.

**AttemptExecutionProofs.** `TypeCorrect`, `AdapterRunsOnce`, `OrphansAreUnevidenced`,
`SuccessIsEvidenced`, `SettlementIsFinal`, `OnlyOrphansAreReaped`, `CodeImplementsLedger`. The
invariant `IInv` adds to the properties: which rows exist at which place of `begin`
(`RowInv`), that `finish` and a sweep never hold the lock of one Attempt together
(`LockInv`: without it a late finish could overwrite a sweep that has swapped and not
committed), that an open INSERT excludes the others of its key (`KeyInv`), that Evidence
and an error class are written only with the status that ends the Attempt
(`EvidenceInv`), and that an Attempt a sweep has judged is one whose lease has run out or
whose host no longer holds it (`LeaseInv`).

`NoTaskIsStranded` follows from `UnderwayInv`, without an assumption on how dispatches
overlap: unless two Attempts of a Task have run at a time, the Task and its Attempts move
together (`TaskInv`), and a sweep has one suspect of the Task and spares no other Attempt of
it, so the Task of every Attempt it fails is freed (`SuspectInv`). `ReapedAreResolved` has
the hypothesis `Timely` (a living executor keeps its lease) of the run `remote`, and follows
from `TimelyInv`: whom a sweep takes for dead is not served and stays so (`ServedInv`,
`GoneInv`), so nobody opens a sandbox row between the sweep's look and its commit
(`ResolvedInv`).

**ToolFenceProofs.** `ExecutorRunsOnce`, `AnswersAreTheRow`, `StampsNeverRegress`,
`DecidedBeforeRun`, `FenceImplementsLedger`. The argument: the delivery that is past its
claim is the only one of its action (`HolderInv`), because a claim is never given back,
not even by a restart of a file (`ClaimInv`); so the row it completes is free. Who lost the
claim lost it for good (`LostInv`), so that what it is told without a row is of an action
that nobody will run again. A stamp that was read is never
ahead of the record, because a live record is neither forgotten nor demoted (`StampInv`).

**ToolDeliveryProofs.** `NumbersSerialise`, `RunStandsOnce`, `RefusedBeforeRun`,
`TheStreamTells`. No code locks
the stream, and yet it is held by one delivery at a time: the committed rows fill
`1..n`, an open transaction fills `n+1..m` (`FillInv`), and a number that was read follows
a row that is still seen (`WantInv`), so that the next one to insert wants `n+1` and
waits. From its decision to its commit a delivery holds a row (`HoldInv`); so nobody
commits a claim between its look at the fence and its run (`ClaimInv`), and its
outcome's number cannot be taken. `TheStreamTells` adds `StoryInv`: no number is used
twice, so the rows that fill `1..n` are `n` (`NumberInv`); a decision follows its request
(`DecisionInv`); an outcome follows its request and its allow and is the only one of its
action, because a committed outcome has its claim beside it (`OutcomeInv`).

**OrchestratorProofs.** `EveryKeyRunsOnce` and, for the bus, `NilMeansAccepted`. Two sets of keys are kept, by `Start` and by the
queue; the proof needs the first one only. A start holds its key from `Reserve` to
`abandonStart`, an accepted one for ever (`KeyIsHeld`), so a start that is about to send
finds a key that has not run, and the channel holds distinct keys (`ChannelIsFresh`).
The module extends `MessageBus` as well. What a channel holds of a message and
what its reader took of it add up to one for every target the call has left behind, and
to zero for the others (`Counted`); a send adds one, a read moves one. A call that gives
up or panics leaves the count: it does not return nil.

**CoordinationProofs**, for the gate: `ApprovalIsAnothers`, `InboxMatchesDecisions`, and with `Triggers` as an
assumption `DecidedOnce` and `RunsAreApproved`. What a call has loaded may be stale when it
writes. Who proposed the Plan and what a token may do do not change (`InFlight`), which is
all that an approval by another human needs. That a request is still pending is compared
again under the row lock, and holds until the commit because one call has the lock of that
request (`Locked`). Plan and request move together (`RequestTracksPlan`).

For the run: `SuccessIsEarned`, `RunLeavesNothing`, `HeldScopeIsLeftAlone`. The
coordinator looks at the database once per poll: between the gate and the end of the poll
every open material request is in the gate (`GateIsCurrent`), since requests come in by the
relay, which is before it. A PASS is never taken back (`VerdictIsStored`): sweeps and
`_finalize` touch running Attempts only.

**EvaluationProofs.** `EveryPassIsEarned`, `SuccessDescribesTheRevision`,
`SuccessNeedsEveryEntry`, `SuccessCoversTheTask`, `TheReaderTellsTheTruth`. The invariant follows the Evaluator
through its agenda: nothing is committed before the end and the agenda is worked off in
order (`PhaseInv`); a child has said and ended as its suite can (`ChildInv`); a row is of
its entry and bound to the revision, and a PASS on this host was earned (`RowInv`); as long
as every row is a PASS, no check has left another tree behind and each judged the code of
the result tree (`DriftInv`: a check that changes the tree is seen by the look after it);
what is stored is what was recorded, row by row, with the MAC of what it says (`RecordInv`,
`MacInv`). A reader that loads a row computes the payload that was stamped,
so a MAC holds exactly under that key (`MacHolds`). `SuccessCoversTheTask` is about the
declaration and no longer about the agenda made of it: the loop over the criteria is
followed by induction (`AllListed`: after `n` criteria a criterion has as many entries as
it has checks, times its occurrences among the `n`), what comes after the loop is of no
criterion (`RestIsElsewhere`), and the verdicts of a Task that succeeded stand in a
bijection with the entries. The API does not refuse a criterion that is listed twice, and
`evaluate` then runs its checks twice; the theorem counts both. `TaskAssumption` says that
a declaration is made of lists of criteria and of known checks.

**LiveRunProofs.** `EverySurvivorIsFenced`, `TurnsAreMetered`, `CompletedRunsForgetNothing`,
for every fleet, both providers and any number of slots and retries
(`ProviderAssumption`: E2B and Daytona are the providers). The runs share only the slots,
so the invariant is one about a single run (`RunInv`) and a step of one leaves the others
alone (`OthersKeep`). Its parts: which commands a phase has left (`Todo`: only the end of a
run closes the transport, a sweep raises nothing, a headless run ignores no answer); a
sandbox that is being made is the last row of its run and not yet alive (`Fenced`); the one
turn is counted when it is sent and its row written before the next phase, whatever raised
(`Metered`); a headless run that raised nothing has had one sandbox at most, knows its id
while it is open, and has asked for its end by a call that returned once its transport was
closed (`Homed`); a result is
that of a collected tree (`Brought`). `Homed` is the part that is not obvious: a timeout
forgets the id of a sandbox whose kill failed, and the next command makes another one; it
holds because such a timeout always raises in a headless run. `LiveRun` defines `@@`
itself, as the module TLC does, because the provers do not know that module.

**RuntimeSessionsProofs.** `SessionsTyped`, `StreamsAreWhole`, `BindingIsRecorded`,
`RetiredIsSilent`, `EndedIsStopped`, `AppendsNeverConflict`, for any number of sessions, events
and crashes and for every runtime. They hold under `RecoveredFirst` (section 3), a duty of
the caller that `start` does not check: a controller that starts a new id over stored events
without `recover` would number its stream from 1 beside a chain it does not know. `IInv` says of a set of events that its streams are
numbered from 1 without a gap and that its sessions form one chain, each superseding the
one before (`Recorded`); it says so of the committed rows and of all that is written,
because a crash goes back from the second to the first. A controller is fresh or bound to
the end of the chain and has the last number of every stream it has seen (`Knows`), and a
call in flight is about a session that the runtime still has (`InCall`): a runtime has one
session until its process ends, so no session is retired while a call is about it. The
step that needs most is `Recover`: `InOrder` lists the events along the chain
(`InOrderSorts`, from `GenerationIsPlace`), and after `i` events the replayed controller is
bound to the session of the `i`-th (`Upon`), so after all of them it is bound to the chain's
end. `AppendsNeverConflict` says that the number `_record` allocates is new in its stream:
the refusal in `append` is never met by the one controller of an Attempt.
`EndedIsStopped` adds `SInv`: a call is at its marking only when it cancels or terminates
(`Marking`), and a pane whose end was recorded, or whose session was closed, has no agent
and gets none again (`Stopping`).

Induction over data. The provers cannot instantiate an induction schema, so `LeastNumber`
takes its place in `RuntimeSessionsProofs` and `EvaluationProofs`: a non-empty set of natural
numbers has a least element, which follows from the well-foundedness of inclusion on finite
sets. That a recursive function has the values its definition says (`ReplaySteps`,
`CriteriaSteps`) and what it computes after `n` steps are then proved by looking at the first
`n` at which it fails.

Only model-checked: the liveness properties (`OrphanSettles`, `AcceptedRuns`, `PublishEnds`,
`DeliveryEnds`, `RunEnds`, `SlotComesBack`), since fairness and `ENABLED` are out of the
prover's reach.

## 7. Not modelled

- A second process on the SQLite file of the Go store, which its documentation excludes;
  an ambiguous commit of SQLite; closing the store while a `Start` still uses it.
- SQLite under SDF Core: one writer at a time makes its interleavings a subset of
  those of PostgreSQL here, apart from its busy errors, which abort a transaction.
- `settle_local_attempts` at shutdown: a sweep followed by the death of the process.
- Overlapping controllers of one Attempt, and a rollback that the controller survives: the
  code has one process at a time drive an Attempt.
- Writes to the workspace by processes that outlive the adapter, once `finish` has started;
  a file that changes and changes back between two looks.
- In a plan run: an exception inside `_finalize` itself, and an admin who reconciles the row of
  a worker's open sandbox during the run, which kills it under a running turn.
- An operator's `observed` row.
- The failure limiter and the life of tokens; the audit row of a mutation, which is a
  transaction of its own after the commit.
- Containment of an agent's processes. `confine_workspace_subprocesses` replaces
  `subprocess.Popen` for the whole process and restores what it found
  (`process_containment.py:160-196`), which nests but does not interleave: of two turns that
  overlap without nesting, the first to end removes the wrapper of the second, and the
  second puts back the wrapper of the first. The model has no processes to confine.
- The text of events, audit rows and Evidence, digests, telemetry and metrics.
- The components that `PROJECT.json` lists as not modelled, each with its reason.
