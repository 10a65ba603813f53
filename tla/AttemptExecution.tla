-------------------------- MODULE AttemptExecution --------------------------
(***************************************************************************)
(* One Attempt from dispatch to settlement: ExecutionService.begin, run,   *)
(* finish and _fail_attempt (sdf_core/execution.py), the executor lease,   *)
(* the heartbeat and the orphan sweep (sdf_core/recovery.py), the durable  *)
(* sandbox rows that hold a recovery back (sdf_core/remote_effects.py) and *)
(* the crash or start of an SDF Core process.                              *)
(*                                                                         *)
(* Several processes share one PostgreSQL database at READ COMMITTED: a    *)
(* statement sees what is committed when it runs, an UPDATE waits for the  *)
(* row lock of another open transaction and then re-evaluates its WHERE    *)
(* clause, and a crash rolls every open transaction back.  One action is   *)
(* one statement or one group of statements that nobody can come between.  *)
(*                                                                         *)
(* begin mints a fresh Attempt id on every call, so the Attempt that       *)
(* request r inserts is named r, and its executor_id is r's process.       *)
(***************************************************************************)
EXTENDS Integers, FiniteSets

CONSTANTS Procs,     \* OS processes; each mints one EXECUTOR_ID, a restart is a new one
          Requests,  \* calls of ExecutionService.run or of the Coordinator
          Tasks,     \* Task ids
          PlanTasks, \* Tasks of a Plan: only a plan run asks for material decisions
          Keys,      \* dispatch keys
          Boxes,     \* sandbox rows one Attempt may open
          Modes,     \* evidence modes a caller begins an Attempt with
          Calls,     \* what the callers ask for: assignments of arguments to requests
          TTL,       \* LEASE_TTL in clock ticks
          MaxClock,  \* bound on the database clock
          Timely     \* environment: a living executor never misses its lease

ASSUME ActorAssumption == Procs \cap Requests = {}
ASSUME PlanAssumption == PlanTasks \subseteq Tasks
ASSUME ModeAssumption == Modes \subseteq {"synthetic", "live"}
\* The process that serves a request and the arguments of begin.
Arguments == [host : Procs, task : Tasks, key : Keys, mode : Modes]
ASSUME CallAssumption == Calls \subseteq [Requests -> Arguments]
ASSUME ClockAssumption == TTL \in Nat /\ MaxClock \in Nat
ASSUME EnvironmentAssumption == Timely \in BOOLEAN

VARIABLES clock,    \* the database clock, lease_clock
          proc,     \* "off", "up" or "gone"
          held,     \* Tasks on which a material decision is pending (decision_gate.py)
          task,     \* tasks.status
          call,     \* the arguments of a request and the process that serves it
          pc,       \* where a request is in begin, run and finish
          seen,     \* the tasks.status begin read and keeps in its identity map
          status,   \* attempts.status; "none" when the row was never committed
          beat,     \* attempts.executor_heartbeat_at
          killed,   \* the Attempt was failed by a sweep (error_class killed when empty)
          mode,     \* attempts.evidence_mode
          effect,   \* attempts.remote_effect
          row,      \* attempt_remote_sandboxes.phase; "none" when there is no row
          sandbox,  \* the provider's own state of that sandbox
          stopping, \* Attempts a refresh_remote_effect found stopped and has not written yet
          verdict,  \* the Evidence rows of the Attempt
          sweep,    \* the local state of one run of recover_orphaned_attempts
          ran,      \* history: Attempts whose adapter was started
          twice     \* history: Tasks that had two Attempts running at a time

attempts == <<status, beat, killed, mode, effect, verdict>>
remote == <<row, sandbox, stopping>>
vars == <<clock, proc, held, task, call, pc, seen, status, beat, killed, mode,
          effect, row, sandbox, stopping, verdict, sweep, ran, twice>>

TaskState == {"created", "ready", "running", "evaluating",
              "succeeded", "failed", "inconclusive"}
Terminal == {"completed", "failed", "cancelled"}
AttemptState == {"none", "running"} \cup Terminal
\* Tasks that transition_task lets begin move to ready and then to running.
Dispatchable == {"created", "failed", "inconclusive"}
Verdicts == {"PASS", "FAIL", "INCONCLUSIVE"}
TaskVerdictLenient == [PASS |-> "succeeded", FAIL |-> "failed", INCONCLUSIVE |-> "succeeded"]
\* The task_state that finish derives from the evaluation.
TaskVerdict == [PASS |-> "succeeded", FAIL |-> "failed", INCONCLUSIVE |-> "inconclusive"]
Effects == {"null", "uncertain", "stopped"}
Phases == {"none", "creating", "identified", "absent"}

\* A sweep runs on the refresher thread of a process or inside a begin.
Sweepers == Procs \cup Requests
HostOf(s) == IF s \in Procs THEN s ELSE call[s].host
Quiet == [pc |-> "idle", todo |-> {}, cur |-> {}, settled |-> {},
          live |-> {}, expired |-> {}, unsure |-> {}, lease |-> [a \in Requests |-> 0]]

TaskOf(a) == call[a].task
Exists(a) == status[a] # "none"
Running(t) == {a \in Requests : status[a] = "running" /\ TaskOf(a) = t}

\* _owners maps the Attempt to a living service of process p (claim_executor).
HeldBy(p, a) == /\ call[a].host = p
                /\ pc[a] \in {"workspace", "adapter", "finish", "settle", "evaluate", "failing"}

\* Row locks of open transactions: finish holds the Attempt and the Task while
\* the Evaluator runs, a sweep holds the Attempts it has updated.
AttemptFree(a) == pc[a] # "evaluate" /\ \A s \in Sweepers : a \notin sweep[s].settled
TaskFree(t) == \A r \in Requests : pc[r] = "evaluate" => TaskOf(r) # t

-----------------------------------------------------------------------------
(* Faulty variants of definitions below, one plausible slip each.  No behaviour *)
(* uses them; each breaks a property of this module.                            *)

\* No unique index on dispatch_key.
NoUniqueIndex(r) == FALSE
\* The status in the session's identity map is trusted.
OwnedCached(r) == TRUE
\* Another process is taken to be alive whatever its lease says.
ForeignIsLive(s, a) == HeldBy(HostOf(s), a) \/ call[a].host # HostOf(s)
\* A create whose id was never stored does not keep recovery away either.
IdentifiedBlocks(s, a) == \E b \in Boxes : row[a][b] = "identified"
SwapOnStatus(s, a) == status[a] = "running"
\* The sweep settles Attempts and forgets their Tasks.
FreedNever(s) == {}

-----------------------------------------------------------------------------
(* ExecutionService.begin *)

\* check_decision_gate, then the orphan sweep in a side session.
BeginGate(r) ==
  /\ pc[r] = "idle" /\ proc[call[r].host] = "up"
  /\ IF held[TaskOf(r)]
       THEN pc' = [pc EXCEPT ![r] = "done"] /\ UNCHANGED sweep
       ELSE /\ pc' = [pc EXCEPT ![r] = "recover"]
            /\ sweep' = [sweep EXCEPT ![r].pc = "select"]
  /\ UNCHANGED <<clock, proc, held, task, call, seen, attempts, remote, ran, twice>>

KeyTaken(r) == \E a \in Requests : Exists(a) /\ call[a].key = call[r].key

\* Look the dispatch key up; an existing Attempt is returned, never run again.
BeginLookup(r) ==
  /\ pc[r] = "recover" /\ sweep[r].pc = "idle"
  /\ pc' = [pc EXCEPT ![r] = IF KeyTaken(r) THEN "done" ELSE "read"]
  /\ UNCHANGED <<clock, proc, held, task, call, seen, attempts, remote, sweep, ran, twice>>

\* unresolved_effect_id: a sandbox row on the Task that is not verified absent.
Unresolved(t) == \E a \in Requests, b \in Boxes :
                   TaskOf(a) = t /\ row[a][b] \notin {"none", "absent"}

\* The refusal of a Task that is running and has a running Attempt.
Blocked(t) == task[t] = "running" /\ Running(t) # {}

\* Read the Task, refuse while an Attempt of it runs or a sandbox is unresolved.
BeginRead(r) ==
  /\ pc[r] = "read"
  /\ IF Blocked(TaskOf(r)) \/ Unresolved(TaskOf(r))
       THEN pc' = [pc EXCEPT ![r] = "done"] /\ UNCHANGED seen
       ELSE pc' = [pc EXCEPT ![r] = "insert"] /\ seen' = [seen EXCEPT ![r] = task[TaskOf(r)]]
  /\ UNCHANGED <<clock, proc, held, task, call, attempts, remote, sweep, ran, twice>>

\* IntegrityError on dispatch_key.
UniqueViolation(r) == KeyTaken(r)

\* flush() of the INSERT: the unique index on dispatch_key waits for an open
\* INSERT of the same key; against a committed row it raises IntegrityError and
\* begin returns the winner.
BeginInsert(r) ==
  /\ pc[r] = "insert"
  /\ \A q \in Requests \ {r} : pc[q] = "claim" => call[q].key # call[r].key
  /\ pc' = [pc EXCEPT ![r] = IF UniqueViolation(r) THEN "done" ELSE "claim"]
  /\ UNCHANGED <<clock, proc, held, task, call, seen, attempts, remote, sweep, ran, twice>>

\* claim_executor, transition_task twice from the status that was read, commit.
\* The UPDATE of the Task names its id only: what it overwrites is not compared.
BeginClaim(r) ==
  /\ pc[r] = "claim" /\ seen[r] \in Dispatchable /\ TaskFree(TaskOf(r))
  /\ task' = [task EXCEPT ![TaskOf(r)] = "running"]
  /\ status' = [status EXCEPT ![r] = "running"]
  /\ twice' = IF Running(TaskOf(r)) = {} THEN twice ELSE twice \cup {TaskOf(r)}
  /\ beat' = [beat EXCEPT ![r] = clock]
  /\ mode' = [mode EXCEPT ![r] = call[r].mode]
  /\ pc' = [pc EXCEPT ![r] = "workspace"]
  /\ UNCHANGED <<clock, proc, held, call, seen, killed, effect, verdict, remote, sweep, ran>>

\* transition_task raises: the unit of work with the INSERT is rolled back.
BeginInvalid(r) ==
  /\ pc[r] = "claim" /\ seen[r] \notin Dispatchable
  /\ pc' = [pc EXCEPT ![r] = "done"]
  /\ UNCHANGED <<clock, proc, held, task, call, seen, attempts, remote, sweep, ran, twice>>

\* The workspace and the base revision, then adapter.run; or _fail_attempt.
BeginWorkspace(r) ==
  /\ pc[r] = "workspace"
  /\ \/ pc' = [pc EXCEPT ![r] = "adapter"] /\ ran' = ran \cup {r}
     \/ pc' = [pc EXCEPT ![r] = "failing"] /\ UNCHANGED ran
  /\ UNCHANGED <<clock, proc, held, task, call, seen, attempts, remote, sweep, twice>>

-----------------------------------------------------------------------------
(* The adapter's remote sandbox (remote_effects.py) and the provider *)

\* open_remote_sandbox: committed before the provider call.  It does not ask
\* whether the Attempt is still running or still owned.
OpenRemoteSandbox(r, b) ==
  /\ pc[r] = "adapter" /\ row[r][b] = "none" /\ AttemptFree(r)
  /\ row' = [row EXCEPT ![r][b] = "creating"]
  /\ effect' = [effect EXCEPT ![r] = "uncertain"]
  /\ UNCHANGED <<clock, proc, held, task, call, pc, seen, status, beat, killed, mode,
                 verdict, sandbox, stopping, sweep, ran, twice>>

\* External: the provider creates the sandbox, perhaps after its caller died.
ProviderCreate(r, b) ==
  /\ row[r][b] = "creating" /\ sandbox[r][b] = "none"
  /\ sandbox' = [sandbox EXCEPT ![r][b] = "live"]
  /\ UNCHANGED <<clock, proc, held, task, call, pc, seen, attempts, row, stopping, sweep, ran,
                 twice>>

\* identify_remote_sandbox, once create() has returned an id.
IdentifySandbox(r, b) ==
  /\ pc[r] = "adapter" /\ row[r][b] = "creating" /\ sandbox[r][b] # "none"
  /\ row' = [row EXCEPT ![r][b] = "identified"]
  /\ UNCHANGED <<clock, proc, held, task, call, pc, seen, attempts, sandbox, stopping, sweep,
                 ran, twice>>

\* confirm_live: an Attempt with a sandbox is promoted to live, in a commit of its own.
ConfirmLive(r) ==
  /\ pc[r] = "adapter" /\ AttemptFree(r)
  /\ \E b \in Boxes : row[r][b] \in {"identified", "absent"}
  /\ mode' = [mode EXCEPT ![r] = "live"]
  /\ UNCHANGED <<clock, proc, held, task, call, pc, seen, status, beat, killed, effect,
                 verdict, remote, sweep, ran, twice>>

\* External: a sandbox ends, by kill() or at its own timeout.
ProviderGone(a, b) ==
  /\ sandbox[a][b] = "live"
  /\ sandbox' = [sandbox EXCEPT ![a][b] = "gone"]
  /\ UNCHANGED <<clock, proc, held, task, call, pc, seen, attempts, row, stopping, sweep, ran,
                 twice>>

\* reconcile_attempt on one row: absence is trusted only from a lookup.
VerifyAbsent(a, b) ==
  /\ row[a][b] = "identified" /\ sandbox[a][b] = "gone"
  /\ row' = [row EXCEPT ![a][b] = "absent"]
  /\ UNCHANGED <<clock, proc, held, task, call, pc, seen, attempts, sandbox, stopping, sweep,
                 ran, twice>>

\* refresh_remote_effect reads the rows, and then writes stopped when all of
\* them are absent: nothing keeps a row from being opened between the two.
RefreshRead(a) ==
  /\ effect[a] = "uncertain" /\ a \notin stopping
  /\ \E b \in Boxes : row[a][b] # "none"
  /\ \A b \in Boxes : row[a][b] \in {"none", "absent"}
  /\ stopping' = stopping \cup {a}
  /\ UNCHANGED <<clock, proc, held, task, call, pc, seen, attempts, row, sandbox, sweep, ran,
                 twice>>

RefreshWrite(a) ==
  /\ a \in stopping /\ AttemptFree(a)
  /\ stopping' = stopping \ {a}
  /\ effect' = [effect EXCEPT ![a] = "stopped"]
  /\ UNCHANGED <<clock, proc, held, task, call, pc, seen, status, beat, killed, mode,
                 verdict, row, sandbox, sweep, ran, twice>>

-----------------------------------------------------------------------------
(* ExecutionService.run, finish and _fail_attempt *)

AdapterReturns(r) ==
  /\ pc[r] = "adapter"
  /\ pc' = [pc EXCEPT ![r] = "finish"]
  /\ UNCHANGED <<clock, proc, held, task, call, seen, attempts, remote, sweep, ran, twice>>

AdapterRaises(r) ==
  /\ pc[r] = "adapter"
  /\ pc' = [pc EXCEPT ![r] = "failing"]
  /\ UNCHANGED <<clock, proc, held, task, call, seen, attempts, remote, sweep, ran, twice>>

\* The fence of require_owned_running and settle_owned_attempt: the row is
\* running, and the process of r is the only one to write it as executor_id.
OwnedRunning(r) == status[r] = "running"

\* require_owned_running, check_decision_gate, close_revision and the capture.
FinishEnter(r) ==
  /\ pc[r] = "finish"
  /\ \/ /\ ~OwnedRunning(r) /\ pc' = [pc EXCEPT ![r] = "done"]
     \/ /\ OwnedRunning(r) /\ held[TaskOf(r)]
        /\ pc' = [pc EXCEPT ![r] = "gated"]
     \/ /\ OwnedRunning(r) /\ ~held[TaskOf(r)]
        /\ pc' \in {[pc EXCEPT ![r] = "settle"], [pc EXCEPT ![r] = "failing"]}
  /\ UNCHANGED <<clock, proc, held, task, call, seen, attempts, remote, sweep, ran, twice>>

\* settle_owned_attempt and the Task's compare-and-swap running -> evaluating.
\* A lost swap rolls the whole unit of work back.  A failed adapter result ends
\* here with its execution Evidence; otherwise the transaction stays open.
FinishSettle(r) ==
  /\ pc[r] = "settle" /\ AttemptFree(r)
  /\ \/ /\ ~OwnedRunning(r) /\ pc' = [pc EXCEPT ![r] = "done"]
        /\ UNCHANGED <<task, status, verdict>>
     \/ /\ OwnedRunning(r) /\ TaskFree(TaskOf(r)) /\ task[TaskOf(r)] # "running"
        /\ pc' = [pc EXCEPT ![r] = "done"] /\ UNCHANGED <<task, status, verdict>>
     \/ /\ OwnedRunning(r) /\ TaskFree(TaskOf(r)) /\ task[TaskOf(r)] = "running"
        /\ \/ /\ pc' = [pc EXCEPT ![r] = "evaluate"]
              /\ UNCHANGED <<task, status, verdict>>
           \/ /\ pc' = [pc EXCEPT ![r] = "done"]
              /\ status' = [status EXCEPT ![r] = "failed"]
              /\ verdict' = [verdict EXCEPT ![r] = "exec"]
              /\ task' = [task EXCEPT ![TaskOf(r)] = "failed"]
  /\ UNCHANGED <<clock, proc, held, call, seen, beat, killed, mode, effect, remote, sweep, ran,
                 twice>>

\* The evaluation, its Evidence rows and the Task's verdict, in one commit.
FinishEvaluate(r) ==
  /\ pc[r] = "evaluate"
  /\ \E v \in Verdicts :
       /\ verdict' = [verdict EXCEPT ![r] = v]
       /\ task' = [task EXCEPT ![TaskOf(r)] = TaskVerdict[v]]
  /\ status' = [status EXCEPT ![r] = "completed"]
  /\ pc' = [pc EXCEPT ![r] = "done"]
  /\ UNCHANGED <<clock, proc, held, call, seen, beat, killed, mode, effect, remote, sweep, ran,
                 twice>>

\* _fail_task_if_exclusive: no other running Attempt of the Task.
Exclusive(r) == Running(TaskOf(r)) \subseteq {r}

\* The Evaluator raises.  _fail_attempt loses its own swap, because this
\* transaction already wrote completed, fails the Task when no other Attempt of
\* it is running, and commits: the Task is otherwise left evaluating.
FinishEvaluateRaises(r) ==
  /\ pc[r] = "evaluate"
  /\ status' = [status EXCEPT ![r] = "completed"]
  /\ verdict' = [verdict EXCEPT ![r] = "exec"]
  /\ task' = [task EXCEPT ![TaskOf(r)] =
       IF Exclusive(r) THEN "failed" ELSE "evaluating"]
  /\ pc' = [pc EXCEPT ![r] = "done"]
  /\ UNCHANGED <<clock, proc, held, call, seen, beat, killed, mode, effect, remote, sweep, ran,
                 twice>>

\* An error that finish does not catch (a failed flush or commit): the
\* unit of work is rolled back and the Attempt is left running, with no executor.
FinishEscapes(r) ==
  /\ pc[r] \in {"settle", "evaluate"}
  /\ pc' = [pc EXCEPT ![r] = "done"]
  /\ UNCHANGED <<clock, proc, held, task, call, seen, attempts, remote, sweep, ran, twice>>

\* _fail_attempt and _fail_task_if_exclusive.
FailAttempt(r) ==
  /\ pc[r] = "failing" /\ AttemptFree(r)
  /\ \/ ~OwnedRunning(r) /\ UNCHANGED <<status, task>>
     \/ /\ OwnedRunning(r)
        /\ status' = [status EXCEPT ![r] = "failed"]
        /\ \/ ~Exclusive(r) /\ UNCHANGED task
           \/ /\ Exclusive(r) /\ TaskFree(TaskOf(r))
              /\ task' = [task EXCEPT ![TaskOf(r)] =
                   IF @ \in {"running", "evaluating"} THEN "failed" ELSE @]
  /\ pc' = [pc EXCEPT ![r] = "done"]
  /\ UNCHANGED <<clock, proc, held, call, seen, beat, killed, mode, effect, verdict, remote,
                 sweep, ran, twice>>

\* Coordinator._finalize: cancel the running Attempt of a run that ends, and
\* leave the Task inconclusive when it is still running.
FinalizeCancel(r) ==
  /\ pc[r] = "adapter" /\ AttemptFree(r) /\ TaskFree(TaskOf(r))
  /\ IF ~OwnedRunning(r) THEN UNCHANGED <<status, task>>
     ELSE /\ status' = [status EXCEPT ![r] = "cancelled"]
          /\ task' = [task EXCEPT ![TaskOf(r)] = IF @ = "running" THEN "inconclusive" ELSE @]
  /\ pc' = [pc EXCEPT ![r] = "done"]
  /\ UNCHANGED <<clock, proc, held, call, seen, beat, killed, mode, effect, verdict, remote,
                 sweep, ran, twice>>

-----------------------------------------------------------------------------
(* Lease, heartbeat and recover_orphaned_attempts *)

\* _write_heartbeats: the refresher renews what its process still owns.  The
\* UPDATE waits for any of these rows that an open transaction has locked.
WriteHeartbeats(p) ==
  LET mine == {a \in Requests : HeldBy(p, a) /\ status[a] = "running"} IN
  /\ proc[p] = "up" /\ sweep[p].pc = "idle"
  /\ \A a \in mine : AttemptFree(a)
  /\ beat' = [a \in Requests |-> IF a \in mine THEN clock ELSE beat[a]]
  /\ sweep' = [sweep EXCEPT ![p].pc = "select"]
  /\ UNCHANGED <<clock, proc, held, task, call, pc, seen, status, killed, mode, effect,
                 verdict, remote, ran, twice>>

\* What the columns of the row say of its effects: uncertain, or live without
\* a stopped.
ColumnBlocks(a) == \/ effect[a] = "uncertain"
                   \/ effect[a] = "null" /\ mode[a] = "live"

\* The SELECT of the running Attempts and of the database clock.
SweepSelect(s) ==
  /\ sweep[s].pc = "select"
  /\ sweep' = [sweep EXCEPT ![s] =
       [Quiet EXCEPT !.pc = "scan",
          !.todo = {a \in Requests : status[a] = "running"},
          !.expired = {a \in Requests : status[a] = "running" /\ clock - beat[a] > TTL},
          !.lease = [a \in Requests |-> IF status[a] = "running" THEN beat[a] ELSE 0],
          !.unsure = {a \in Requests : status[a] = "running" /\ ColumnBlocks(a)}]]
  /\ UNCHANGED <<clock, proc, held, task, call, pc, seen, attempts, remote, ran, twice>>

\* executor_is_live on the selected lease: the owner map is read now, a dropped
\* owner of this process is dead at once, another process is live inside the TTL.
ExecutorIsLive(s, a) ==
  \/ HeldBy(HostOf(s), a)
  \/ call[a].host # HostOf(s) /\ a \notin sweep[s].expired

\* _remote_effect_blocks_settle: the sandbox rows are read now, the columns are
\* what the SELECT saw.
EffectBlocks(s, a) ==
  a \in sweep[s].unsure \/ \E b \in Boxes : row[a][b] \notin {"none", "absent"}

\* One Attempt of the list is judged; a live or unresolved one is left running.
SweepCheck(s, a) ==
  /\ sweep[s].pc = "scan" /\ sweep[s].cur = {} /\ a \in sweep[s].todo
  /\ sweep' = [sweep EXCEPT ![s].todo = @ \ {a},
       ![s].live = IF ExecutorIsLive(s, a) \/ EffectBlocks(s, a) THEN @ \cup {TaskOf(a)} ELSE @,
       ![s].cur = IF ExecutorIsLive(s, a) \/ EffectBlocks(s, a) THEN {} ELSE {a}]
  /\ UNCHANGED <<clock, proc, held, task, call, pc, seen, attempts, remote, ran, twice>>

\* The WHERE clause of compare_and_swap_attempt with the observed lease.
SwapWins(s, a) == status[a] = "running" /\ beat[a] = sweep[s].lease[a]

\* compare_and_swap_attempt on one Attempt.
SweepSwap(s, a) ==
  /\ sweep[s].pc = "scan" /\ a \in sweep[s].cur /\ AttemptFree(a)
  /\ sweep' = [sweep EXCEPT ![s].cur = {},
       ![s].settled = IF SwapWins(s, a) THEN @ \cup {a} ELSE @,
       ![s].live = IF ~SwapWins(s, a) /\ status[a] = "running" THEN @ \cup {TaskOf(a)} ELSE @]
  /\ UNCHANGED <<clock, proc, held, task, call, pc, seen, attempts, remote, ran, twice>>

\* The Tasks of the settled Attempts, unless another Attempt of theirs is live.
Freed(s) == {TaskOf(a) : a \in sweep[s].settled} \ sweep[s].live

\* The compare-and-swap of these Tasks and the one commit of the sweep.
SweepCommit(s) ==
  /\ sweep[s].pc = "scan" /\ sweep[s].todo = {} /\ sweep[s].cur = {}
  /\ \A t \in Freed(s) : TaskFree(t)
  /\ status' = [a \in Requests |-> IF a \in sweep[s].settled THEN "failed" ELSE status[a]]
  /\ killed' = [a \in Requests |-> a \in sweep[s].settled \/ killed[a]]
  /\ task' = [t \in Tasks |-> IF t \in Freed(s) /\ task[t] = "running" THEN "failed" ELSE task[t]]
  /\ sweep' = [sweep EXCEPT ![s] = Quiet]
  /\ UNCHANGED <<clock, proc, held, call, pc, seen, beat, mode, effect, verdict, remote, ran,
                 twice>>

\* External: two sweeps hold a row the other waits for, PostgreSQL aborts one.
\* The refresher starts over; a begin that loses its sweep raises.
SweepAborted(s) ==
  /\ \E z \in Sweepers \ {s} : /\ sweep[s].cur \cap sweep[z].settled # {}
                               /\ sweep[z].cur \cap sweep[s].settled # {}
  /\ sweep' = [sweep EXCEPT ![s] = Quiet]
  /\ pc' = IF s \in Requests THEN [pc EXCEPT ![s] = "done"] ELSE pc
  /\ UNCHANGED <<clock, proc, held, task, call, seen, attempts, remote, ran, twice>>

-----------------------------------------------------------------------------
(* The environment *)

\* lifespan startup: the refresher starts and the first sweep runs.
Start(p) ==
  /\ proc[p] = "off"
  /\ proc' = [proc EXCEPT ![p] = "up"]
  /\ sweep' = [sweep EXCEPT ![p].pc = "select"]
  /\ UNCHANGED <<clock, held, task, call, pc, seen, attempts, remote, ran, twice>>

\* The process dies: its threads stop, its open transactions are rolled back.
\* Bound: one process that has not died is left to serve the database.
Crash(p) ==
  /\ proc[p] = "up" /\ \E q \in Procs \ {p} : proc[q] # "gone"
  /\ proc' = [proc EXCEPT ![p] = "gone"]
  /\ pc' = [r \in Requests |-> IF call[r].host = p THEN "done" ELSE pc[r]]
  /\ sweep' = [s \in Sweepers |-> IF HostOf(s) = p THEN Quiet ELSE sweep[s]]
  /\ UNCHANGED <<clock, held, task, call, seen, attempts, remote, ran, twice>>

\* A material decision is asked for, or a human resolves it (decision_gate.py).
Decide(t) ==
  /\ held' = [held EXCEPT ![t] = ~@]
  /\ UNCHANGED <<clock, proc, task, call, pc, seen, attempts, remote, sweep, ran, twice>>

Tick ==
  /\ clock < MaxClock
  /\ Timely => \A a \in Requests :
       HeldBy(call[a].host, a) /\ status[a] = "running" => clock < beat[a] + TTL
  /\ clock' = clock + 1
  /\ UNCHANGED <<proc, held, task, call, pc, seen, attempts, remote, sweep, ran, twice>>

Init ==
  /\ clock = 0
  /\ proc = [p \in Procs |-> "off"]
  /\ held = [t \in Tasks |-> FALSE]
  /\ task = [t \in Tasks |-> "created"]
  /\ call \in Calls
  /\ pc = [r \in Requests |-> "idle"]
  /\ seen = [r \in Requests |-> "created"]
  /\ status = [r \in Requests |-> "none"]
  /\ beat = [r \in Requests |-> 0]
  /\ killed = [r \in Requests |-> FALSE]
  /\ mode = [r \in Requests |-> "synthetic"]
  /\ effect = [r \in Requests |-> "null"]
  /\ row = [r \in Requests |-> [b \in Boxes |-> "none"]]
  /\ sandbox = [r \in Requests |-> [b \in Boxes |-> "none"]]
  /\ stopping = {}
  /\ verdict = [r \in Requests |-> "none"]
  /\ sweep = [s \in Sweepers |-> Quiet]
  /\ ran = {}
  /\ twice = {}

Begin(r) == BeginGate(r) \/ BeginLookup(r) \/ BeginRead(r) \/ BeginInsert(r)
            \/ BeginClaim(r) \/ BeginInvalid(r) \/ BeginWorkspace(r)
Finish(r) == FinishEnter(r) \/ FinishSettle(r) \/ FinishEvaluate(r)
             \/ FinishEvaluateRaises(r) \/ FinishEscapes(r) \/ FailAttempt(r)
Adapter(r) == AdapterReturns(r) \/ AdapterRaises(r) \/ FinalizeCancel(r)
Remote(r, b) == OpenRemoteSandbox(r, b) \/ ProviderCreate(r, b) \/ IdentifySandbox(r, b)
                \/ ProviderGone(r, b) \/ VerifyAbsent(r, b)
Effect(a) == ConfirmLive(a) \/ RefreshRead(a) \/ RefreshWrite(a)
Sweep(s) == SweepSelect(s) \/ SweepCommit(s) \/ SweepAborted(s)
            \/ \E a \in Requests : SweepCheck(s, a) \/ SweepSwap(s, a)

Next == \/ \E r \in Requests : Begin(r) \/ Adapter(r) \/ Finish(r) \/ Effect(r)
        \/ \E r \in Requests, b \in Boxes : Remote(r, b)
        \/ \E s \in Sweepers : Sweep(s)
        \/ \E p \in Procs : WriteHeartbeats(p) \/ Start(p) \/ Crash(p)
        \/ \E t \in PlanTasks : Decide(t)
        \/ Tick

Spec == Init /\ [][Next]_vars

\* Handlers return (the adapter and the Evaluator have timeouts), the supervisor
\* keeps the refresher of a living process running, the clock advances, and a
\* process is started when one can be.
Fairness == /\ \A r \in Requests : /\ WF_vars(Begin(r))
                                   /\ WF_vars(AdapterReturns(r))
                                   /\ WF_vars(Finish(r))
            /\ \A s \in Sweepers : WF_vars(Sweep(s))
            /\ \A p \in Procs : WF_vars(WriteHeartbeats(p)) /\ WF_vars(Start(p))
            /\ WF_vars(Tick)
FairSpec == Spec /\ Fairness

-----------------------------------------------------------------------------
(* Refinement: the Attempt rows as entries of an AttemptLedger *)

ClaimOf(k) == {a \in Requests : Exists(a) /\ call[a].key = k}
Ledger == INSTANCE AttemptLedger WITH
            Attempts <- Requests, claim <- [k \in Keys |-> ClaimOf(k)], outcome <- status,
            evidence <- verdict, started <- {call[a].key : a \in ran}

\* The code keeps the promises of AttemptLedger: one Attempt and one adapter
\* start for a key, one settlement, a verdict only from a completed Attempt.
LedgerSpec == Ledger!Spec

-----------------------------------------------------------------------------
(* Properties *)

\* Where a request can be.
Control == {"idle", "recover", "read", "insert", "claim", "workspace", "adapter",
            "finish", "settle", "evaluate", "failing", "gated", "done"}
SweepType == [pc : {"idle", "select", "scan"}, todo : SUBSET Requests,
              cur : SUBSET Requests, settled : SUBSET Requests, live : SUBSET Tasks,
              expired : SUBSET Requests, unsure : SUBSET Requests, lease : [Requests -> Nat]]

\* Every variable has its type; the clock stays within its bound.
TypeOK ==
  /\ clock \in Nat /\ clock <= MaxClock
  /\ proc \in [Procs -> {"off", "up", "gone"}]
  /\ held \in [Tasks -> BOOLEAN]
  /\ task \in [Tasks -> TaskState]
  /\ call \in [Requests -> Arguments]
  /\ pc \in [Requests -> Control]
  /\ seen \in [Requests -> TaskState]
  /\ status \in [Requests -> AttemptState]
  /\ beat \in [Requests -> Nat]
  /\ killed \in [Requests -> BOOLEAN]
  /\ mode \in [Requests -> {"synthetic", "live"}]
  /\ effect \in [Requests -> Effects]
  /\ row \in [Requests -> [Boxes -> Phases]]
  /\ sandbox \in [Requests -> [Boxes -> {"none", "live", "gone"}]]
  /\ stopping \subseteq Requests
  /\ verdict \in [Requests -> {"none", "exec"} \cup Verdicts]
  /\ sweep \in [Sweepers -> SweepType]
  /\ ran \subseteq Requests
  /\ twice \subseteq Tasks

\* A dispatch key runs the adapter at most once, however often the request is
\* repeated, in whatever processes, and whatever crashes (ADR 0041, ADR 0031).
AdapterOncePerKey ==
  \A a, b \in ran : call[a].key = call[b].key => a = b

\* A settled Attempt keeps its status and its Evidence: neither a late finish
\* nor a late sweep overwrites the winner (settle_owned_attempt, compare_and_swap_attempt).
FinalStaysFinal ==
  [][\A a \in Requests : status[a] \in Terminal =>
       status'[a] = status[a] /\ verdict'[a] = verdict[a] /\ killed'[a] = killed[a]]_vars

\* Evidence and a verdict come only from the finish that completed the Attempt:
\* an Attempt recovery gave up, or cancelled, carries none.
OrphanLeavesNoEvidence ==
  \A a \in Requests : /\ killed[a] => status[a] = "failed" /\ verdict[a] = "none"
                      /\ verdict[a] \in Verdicts => status[a] = "completed"

\* A Task is succeeded only on PASS Evidence of a completed Attempt of that
\* Task, whatever races with the finish that wrote it.
SucceededIsEvidenced ==
  \A t \in Tasks : task[t] = "succeeded" =>
    \E a \in Requests : TaskOf(a) = t /\ status[a] = "completed" /\ verdict[a] = "PASS"

\* When a sweep commits, each Attempt it fails really lost its executor: the
\* lease in the row is expired or nobody serves the Attempt any more.
ReapedOnlyWhenGone ==
  [][\A a \in Requests : ~killed[a] /\ killed'[a] =>
       clock - beat[a] > TTL \/ ~HeldBy(call[a].host, a)]_vars

\* While no two Attempts of a Task have run at a time, the Task is running or
\* evaluating exactly while an Attempt of it is running: whatever crashed, raised
\* or swept in between, the Task is never left where no sweep and no begin can
\* move it again (execution.py _fail_task_if_exclusive, recovery.py).
TaskNeverStranded ==
  \A t \in Tasks \ twice :
    task[t] \in {"running", "evaluating"} <=> Running(t) # {}

\* When a sweep fails an Attempt, every sandbox row of it is verified absent.
ReapedEffectsStopped ==
  [][\A a \in Requests, b \in Boxes : ~killed[a] /\ killed'[a] =>
       row[a][b] \in {"none", "absent"}]_vars

\* An orphan that left no remote effect behind is settled in the end (within the
\* clock's bound).
OrphanSettles ==
  \A a \in Requests :
    (/\ status[a] = "running" /\ ~HeldBy(call[a].host, a) /\ beat[a] + TTL < MaxClock
     /\ ~ColumnBlocks(a) /\ \A b \in Boxes : row[a][b] \in {"none", "absent"})
      ~> (status[a] # "running")
=============================================================================
