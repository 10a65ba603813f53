------------------------------ MODULE LiveRun ------------------------------
(***************************************************************************)
(* Live runs of agents in disposable sandboxes: POST /tasks/{id}/run with  *)
(* SDF_RUN_ADAPTER=live.  One run goes through LiveRunAdapter.run, the     *)
(* metered RuntimeAgentAdapter below it, one agent runtime (Herdr for      *)
(* codex and claude, a headless runtime for the other kinds) and the       *)
(* transport that owns the sandbox, down to the sandbox provider.          *)
(*                                                                         *)
(* Every remote command may succeed, fail, or time out.  A timeout closes  *)
(* the transport: the kill returns or fails, and the transport forgets its *)
(* id in both cases.  The next command then provisions a new sandbox.  A   *)
(* kill that returned was accepted by the provider; the sandbox may be     *)
(* there still, and only a lookup says that it is not.  The commands of    *)
(* one loop, whose errors are handled alike, are one command here.         *)
(***************************************************************************)
EXTENDS Integers, Sequences, FiniteSets

CONSTANTS
  Runs,         \* requests served by one process
  Fleets,       \* the requests that may arrive, with the kind of agent of each
  Providers,    \* the sandbox providers to consider
  Limit,        \* SDF_RUN_MAX_CONCURRENT
  KillRetries,  \* KILL_RETRIES
  None          \* no exit marker in a turn's output

HerdrKinds == {"codex"}                       \* codex stands for codex and claude
HeadlessKinds == {"opencode", "pi", "qwen", "goose"}

ASSUME FleetAssumption ==
  \A fleet \in Fleets : \E S \in SUBSET Runs : fleet \in [S -> HerdrKinds \cup HeadlessKinds]
ASSUME ProviderAssumption == Providers \subseteq {"e2b", "daytona"}
ASSUME LimitAssumption == Limit \in Nat \ {0} /\ KillRetries \in Nat

VARIABLES
  run,       \* what the process keeps for each request, and its committed rows
  box,       \* each request's sandboxes, in the order of the provider calls
  slots,     \* the requests that hold a live-run slot
  provider,  \* the sandbox provider of this process
  up         \* the process is alive

vars == <<run, box, slots, provider, up>>

Herdr(r) == run[r].agent \in HerdrKinds

(***************************************************************************)
(* What the turn of a headless runtime makes of the exit code its wrapper  *)
(* printed.  Setup exits mean that the agent was never started.            *)
(***************************************************************************)
TimeoutExits == {124, 137}
WrapperExits == {0, 1, 94, 95, 96, 97} \cup TimeoutExits \cup {None}
DriverExits == {0, 1, 96, 97, 98} \cup TimeoutExits \cup {None}
PiExits == {0, 1, 95, 96, 97} \cup TimeoutExits \cup {None}

Ended(rc, errors) ==
  IF rc = 0 /\ ~errors THEN "completed"
  ELSE IF rc \in TimeoutExits THEN "terminated"
  ELSE "created"

\* What an agent printed: nothing that parses, or events with or without an
\* error and with tokens (1) or without (0).
Tokens == {0, 1}
Nothing == [events |-> "none", tokens |-> 0]
Outputs == {Nothing} \cup [events : {"fine", "error"}, tokens : Tokens]

\* The parsers: Qwen Code and Goose must print a result, OpenCode and Pi need
\* not print anything.
QwenParse == [out \in Outputs |-> [errors |-> out.events # "fine", tokens |-> out.tokens]]
GooseParse == [out \in Outputs |-> [errors |-> out.events # "fine", tokens |-> out.tokens]]
OpenCodeParse(out) == [errors |-> out.events = "error", tokens |-> out.tokens]
PiParse(out) == [errors |-> out.events = "error", tokens |-> out.tokens]

Turn(rc, parsed) == [status |-> Ended(rc, parsed.errors), tokens |-> parsed.tokens]
Printed(rc, setup) == IF rc \in setup THEN {Nothing} ELSE Outputs

\* HeadlessAgentRuntime.send, OpenCodeHeadlessRuntime.send and
\* PiHeadlessRuntime.send.
HeadlessTurns(parse) ==
  UNION {{Turn(rc, parse[out]) : out \in Printed(rc, {94, 95, 96, 97})} : rc \in WrapperExits}
OpenCodeTurns ==
  UNION {{Turn(rc, OpenCodeParse(out)) : out \in Printed(rc, {96, 97, 98})} : rc \in DriverExits}
PiTurns ==
  UNION {{Turn(rc, PiParse(out)) : out \in Printed(rc, {95, 96, 97})} : rc \in PiExits}

\* HerdrRuntime._send: the turn ended, outlived Herdr's wait, or Herdr reported
\* that the session was cancelled or has exited.  Usage is read later.
HerdrStatuses == {"completed", "running", "cancelled", "terminated"}
HerdrTurns == {[status |-> s, tokens |-> 0] : s \in HerdrStatuses}

Turns(r) == CASE run[r].agent = "opencode" -> OpenCodeTurns
              [] run[r].agent = "pi" -> PiTurns
              [] run[r].agent = "qwen" -> HeadlessTurns(QwenParse)
              [] run[r].agent = "goose" -> HeadlessTurns(GooseParse)
              [] OTHER -> HerdrTurns

\* A headless turn that did not complete raises.
Raises(r, turn) == ~Herdr(r) /\ turn.status # "completed"

(***************************************************************************)
(* The remote commands of each phase.  An error of a "must" command is     *)
(* raised, one of a "try" command is swallowed; "close" closes the         *)
(* transport and raises when the kill fails.                               *)
(***************************************************************************)
Phases == {"stage", "start", "query", "turn", "sweep", "meter", "observe",
           "collect", "terminate"}

\* stage_workspace: what an earlier stage left is removed, then every directory
\* and file is written.
E2BStage == <<"must">>
DaytonaStage == <<"must">>

\* collect_workspace: the tree is listed, E2B in one call and Daytona directory
\* by directory, and every file is read into a staging directory beside the
\* local workspace.
E2BCollect == <<"must", "must">>
DaytonaCollect == <<"must", "must">>

\* HerdrRuntime.start: the workspace with its pane, the pane's enrolment in a
\* containment, the agent.
HerdrEnrol == <<"try">>
HerdrStart == <<"must">> \o HerdrEnrol \o <<"must">>

\* The start of a headless session checks the version of the CLI, Pi's that of
\* each extension too.
HeadlessStart == <<"must">>
OpenCodeStart == <<"must">>
PiStart == <<"must", "must">>

\* HerdrRuntime.terminate: the pane is closed, no agent may stay in the
\* foreground, the containment is killed.
HerdrQuiesce == <<"must">>
HerdrTerminate == <<"must">> \o HerdrQuiesce \o <<"try", "close">>
HeadlessTerminate == <<"close">>

StartOf == [codex |-> HerdrStart, opencode |-> OpenCodeStart, pi |-> PiStart,
            qwen |-> HeadlessStart, goose |-> HeadlessStart]
StageOf == [e2b |-> E2BStage, daytona |-> DaytonaStage]
CollectOf == [e2b |-> E2BCollect, daytona |-> DaytonaCollect]

\* Between these a Herdr run reads the session's status before the turn, sweeps
\* after it, asks for status and usage to meter it, and for stream and status.
Script(r, phase) ==
  CASE phase = "stage" -> StageOf[provider]
    [] phase = "start" -> StartOf[run[r].agent]
    [] phase = "turn" -> <<"must">>
    [] phase = "collect" -> CollectOf[provider]
    [] phase = "terminate" -> IF Herdr(r) THEN HerdrTerminate ELSE HeadlessTerminate
    [] Herdr(r) /\ phase \in {"query", "observe"} -> <<"must">>
    [] Herdr(r) /\ phase = "sweep" -> <<"try">>
    [] Herdr(r) /\ phase = "meter" -> <<"must", "try">>
    [] OTHER -> <<>>

\* Where an error raised in a phase leads: the finally clauses of
\* RuntimeAgentAdapter.run, _MeteredRuntime.send and HerdrRuntime.send.
Handler == [stage |-> "teardown", start |-> "seen", query |-> "seenTurn",
            turn |-> "sweep", meter |-> "ending", observe |-> "ending",
            collect |-> "ending", terminate |-> "teardown"]

Fresh(a) ==
  [pc |-> "idle", agent |-> a, todo |-> <<>>,
   cur |-> 0,            \* transport._sandbox_id
   stray |-> 0,          \* the Daytona transport's _unidentified_sandbox
   opened |-> FALSE,     \* a creating row is committed, the provider not yet called
   home |-> 0,           \* the sandbox with the staged workspace
   seen |-> 0,           \* _MeteredRuntime.sandbox_id
   tree |-> "task",      \* the local workspace: the Task's, the agent's, or torn
   used |-> 0,           \* the tokens the runtime, or the usage script, knows of
   sess |-> "none",      \* the runtime session's status
   err |-> FALSE,        \* an exception is on its way up
   turns |-> 0,          \* turns sent
   rows |-> <<>>,        \* the turn rows of the usage ledger
   mode |-> "synthetic", \* attempts.evidence_mode, committed
   id |-> 0, tries |-> 0, \* _teardown: the id to kill, the retries made
   cleanup |-> FALSE,    \* cleanup_error is set
   asked |-> {},         \* the sandboxes whose kill returned at the run's end (history)
   result |-> "none", ledger |-> "none"]

Init ==
  /\ \E fleet \in Fleets : /\ run = [r \in DOMAIN fleet |-> Fresh(fleet[r])]
                           /\ box = [r \in DOMAIN fleet |-> <<>>]
  /\ slots = {}
  /\ provider \in Providers
  /\ up = TRUE

\* A record with the fields of f, and those of g that f lacks (@@ of the module TLC).
f @@ g == [x \in DOMAIN f \cup DOMAIN g |-> IF x \in DOMAIN f THEN f[x] ELSE g[x]]

\* The run's fields named by the record change become those of the record.
Becomes(r, change) == run' = [run EXCEPT ![r] = change @@ @]

Enter(r, phase) == [pc |-> phase, todo |-> Script(r, phase)]

Raise(r) ==
  LET handler == Handler[run[r].pc]
  IN  [err |-> TRUE] @@ IF handler \in Phases THEN Enter(r, handler) ELSE [pc |-> handler]

At(r, phase) == up /\ run[r].pc = phase
Finished(r, phase) == At(r, phase) /\ run[r].todo = <<>>
Idle == UNCHANGED <<slots, provider, up>>
Local == UNCHANGED box /\ Idle

-----------------------------------------------------------------------------
(***************************************************************************)
(* run_slot: a request without a free slot fails at once (429).            *)
(***************************************************************************)
Admit(r) ==
  /\ At(r, "idle") /\ Cardinality(slots) < Limit
  /\ slots' = slots \cup {r}
  /\ Becomes(r, Enter(r, "stage"))
  /\ UNCHANGED <<box, provider, up>>

Busy(r) ==
  /\ At(r, "idle") /\ Cardinality(slots) >= Limit
  /\ Becomes(r, [pc |-> "busy"])
  /\ Local

\* Before there is a sandbox, bind_workspace refuses project configuration that
\* the agent would load, and stage_workspace a symlink or too large a tree.
ConfigKinds == {"pi", "qwen", "goose"}

Refuse(r) ==
  /\ At(r, "stage") /\ run[r].cur = 0 /\ run[r].stray = 0 /\ ~run[r].opened
  /\ Becomes(r, Raise(r))
  /\ Local

RefuseConfig(r) ==
  /\ At(r, "stage") /\ run[r].todo = Script(r, "stage") /\ run[r].agent \in ConfigKinds
  /\ run[r].cur = 0 /\ run[r].stray = 0 /\ ~run[r].opened
  /\ Becomes(r, Raise(r))
  /\ Local

(***************************************************************************)
(* The transport.                                                          *)
(***************************************************************************)
Command(r) == up /\ run[r].pc \in Phases /\ run[r].todo # <<>>
Calls(r) == Command(r) /\ Head(run[r].todo) \in {"must", "try"}

Done(r) == [todo |-> Tail(run[r].todo)]
Failed(r) == IF Head(run[r].todo) = "try" THEN Done(r) ELSE Raise(r)

Alive(r, i) == i # 0 /\ box[r][i].alive
Dead(r, i) == [box EXCEPT ![r][i].alive = FALSE]

\* _kill_by_id, E2B's kill and Daytona's delete: the sandbox dies, now or later
\* or not at all, whether or not the call returned.
Kill(r, i) == {box, Dead(r, i)}

\* open_remote_sandbox: the fence is committed before the provider is called.
Fence(r) ==
  /\ Calls(r) /\ run[r].cur = 0 /\ run[r].stray = 0 /\ ~run[r].opened
  /\ box' = [box EXCEPT ![r] = Append(@, [alive |-> FALSE, row |-> "creating"])]
  /\ Becomes(r, [opened |-> TRUE])
  /\ Idle

Last(r) == Len(box[r])

\* _ensure_sandbox with the credential seeds of CredentialSeedingMixin: the
\* sandbox is identified, published and seeded.
Provision(r) ==
  /\ Calls(r) /\ run[r].opened
  /\ box' = [box EXCEPT ![r][Last(r)] = [alive |-> TRUE, row |-> "identified"]]
  /\ Becomes(r, [opened |-> FALSE, cur |-> Last(r)])
  /\ Idle

\* The provider made no sandbox, or made one whose id never arrived.
ProvisionFails(r) ==
  /\ Calls(r) /\ run[r].opened
  /\ \E made \in BOOLEAN : box' = [box EXCEPT ![r][Last(r)].alive = made]
  /\ Becomes(r, [opened |-> FALSE] @@ Failed(r))
  /\ Idle

\* Daytona answered with a sandbox without an id and did not delete it: the
\* transport keeps it, and provisions nothing until it is closed.
Unidentified(r) ==
  /\ Calls(r) /\ run[r].opened /\ provider = "daytona"
  /\ box' = [box EXCEPT ![r][Last(r)].alive = TRUE]
  /\ Becomes(r, [opened |-> FALSE, stray |-> Last(r)] @@ Failed(r))
  /\ Idle

CleanupPending(r) ==
  /\ Calls(r) /\ run[r].stray # 0
  /\ Becomes(r, Failed(r))
  /\ Local

\* A seed command failed with a HerdrRuntimeError: _kill_after_timeout closes the
\* transport and swallows the error of the kill.  Any other error leaves the
\* sandbox to the run's end: Provision, then CommandFails.
SeedFails(r) ==
  /\ Calls(r) /\ run[r].opened
  /\ \E killed \in BOOLEAN :
       box' = [box EXCEPT ![r][Last(r)] = [alive |-> ~killed, row |-> "identified"]]
  /\ Becomes(r, [opened |-> FALSE] @@ Failed(r))
  /\ Idle

\* A command that answers.  Outside the sandbox that holds the workspace there
\* is neither agent nor pane nor Attempt directory, so that only staging and
\* the commands whose answer is ignored succeed there.
Answers(r) ==
  /\ Calls(r) /\ run[r].pc # "turn" /\ Alive(r, run[r].cur)
  /\ \/ run[r].cur = run[r].home
     \/ run[r].pc = "stage" \/ Head(run[r].todo) = "try"
  /\ \/ /\ run[r].pc = "stage"
        /\ Becomes(r, [home |-> run[r].cur] @@ Done(r))
     \/ /\ run[r].pc = "meter" /\ Head(run[r].todo) = "try"
        /\ \E n \in Tokens : Becomes(r, [used |-> n] @@ Done(r))
     \/ /\ run[r].pc # "stage" /\ ~(run[r].pc = "meter" /\ Head(run[r].todo) = "try")
        /\ Becomes(r, Done(r))
  /\ Local

\* The answer of the turn itself.
TurnAnswers(r) ==
  /\ Calls(r) /\ run[r].pc = "turn"
  /\ run[r].cur = run[r].home /\ Alive(r, run[r].cur)
  /\ \E turn \in Turns(r) :
       Becomes(r, [sess |-> turn.status, used |-> run[r].used + turn.tokens] @@
                  IF Raises(r, turn) THEN Raise(r) ELSE Done(r))
  /\ Local

CommandFails(r) ==
  /\ Calls(r) /\ run[r].cur # 0
  /\ Becomes(r, Failed(r))
  /\ Local

\* _exec: the command timed out, the sandbox is killed and forgotten.  Staging
\* and collection copy files, and have no such command.
CommandTimesOut(r) ==
  /\ Calls(r) /\ run[r].cur # 0 /\ run[r].pc \notin {"stage", "collect"}
  /\ box' \in Kill(r, run[r].cur)
  /\ Becomes(r, [cur |-> 0] @@ Failed(r))
  /\ Idle

\* transport.close: nothing to do without an id or a stray sandbox; the id is
\* forgotten when the kill fails, a stray sandbox is not.
CloseIsEmpty(r) == run[r].cur = 0 /\ run[r].stray = 0
Closing(r) == IF run[r].cur # 0 THEN run[r].cur ELSE run[r].stray
Forgets(r) == IF run[r].cur # 0 THEN [cur |-> 0] ELSE <<>>
Closed(r) == [asked |-> run[r].asked \cup {Closing(r)}] @@
             IF run[r].cur # 0 THEN [cur |-> 0] ELSE [stray |-> 0]

-----------------------------------------------------------------------------
(***************************************************************************)
(* The phases of a run.                                                    *)
(***************************************************************************)
Staged(r) ==
  /\ Finished(r, "stage")
  /\ Becomes(r, Enter(r, "start"))
  /\ Local

\* runtime.start binds the session; _seen_sandbox follows in its finally.
Started(r) ==
  /\ Finished(r, "start")
  /\ Becomes(r, [pc |-> "seen", sess |-> IF Herdr(r) THEN "running" ELSE "created"])
  /\ Local

\* The id a caller reads: the transport's, or the one seen before.
Known(r) == IF run[r].cur # 0 THEN run[r].cur ELSE run[r].seen

\* confirm_live: promoted once there is an id, committed at once.
Confirm(r, id) == IF id = 0 THEN run[r].mode ELSE "live"

Seen(r) ==
  /\ At(r, "seen")
  /\ Becomes(r, [seen |-> Known(r), mode |-> Confirm(r, Known(r))] @@
                IF run[r].err THEN [pc |-> "teardown"]
                ELSE [turns |-> run[r].turns + 1] @@ Enter(r, "query"))
  /\ Local

\* HeadlessAgentRuntime.send sets RUNNING before the turn.
Queried(r) ==
  /\ Finished(r, "query")
  /\ Becomes(r, Enter(r, "turn") @@ IF Herdr(r) THEN <<>> ELSE [sess |-> "running"])
  /\ Local

\* HerdrRuntime.send: a turn that outlived Herdr's wait is not swept.
TurnEnds(r) ==
  /\ Finished(r, "turn")
  /\ Becomes(r, IF run[r].sess = "running" THEN [pc |-> "seenTurn"] ELSE Enter(r, "sweep"))
  /\ Local

Swept(r) ==
  /\ Finished(r, "sweep")
  /\ Becomes(r, [pc |-> "seenTurn"])
  /\ Local

\* The finally clause of _MeteredRuntime.send: the sandbox, the status, the
\* usage, and one row of the ledger, which says missing rather than 0.
SeenTurn(r) ==
  /\ At(r, "seenTurn")
  /\ Becomes(r, [seen |-> Known(r), mode |-> Confirm(r, Known(r))] @@ Enter(r, "meter"))
  /\ Local

TurnRow(r) == [status |-> run[r].sess,
               source |-> IF run[r].used > 0 THEN "reported" ELSE "missing"]

\* Mutant of RecordTurn: a turn that raised gets no row.
RecordCleanTurn(r) ==
  /\ Finished(r, "meter")
  /\ Becomes(r, IF run[r].err THEN [pc |-> "ending"]
                ELSE [rows |-> Append(run[r].rows, TurnRow(r))] @@ Enter(r, "observe"))
  /\ Local

RecordTurn(r) ==
  /\ Finished(r, "meter")
  /\ Becomes(r, [rows |-> Append(run[r].rows, TurnRow(r))] @@
                IF run[r].err THEN [pc |-> "ending"] ELSE Enter(r, "observe"))
  /\ Local

\* stream, then the status that becomes the result; Herdr reports its own.
Observed(r) ==
  /\ Finished(r, "observe")
  /\ \E s \in IF Herdr(r) THEN HerdrStatuses ELSE {run[r].sess} :
       Becomes(r, [sess |-> s] @@ Enter(r, "collect"))
  /\ Local

\* The local workspace is emptied and the staging directory moved into it, which
\* may fail half way.
Collected(r) ==
  /\ Finished(r, "collect")
  /\ \/ Becomes(r, [tree |-> "agent", result |-> run[r].sess, pc |-> "ending"])
     \/ Becomes(r, [tree |-> "torn"] @@ Raise(r))
  /\ Local

\* metered.terminate reads the id before the session is closed.
Ending(r) ==
  /\ At(r, "ending")
  /\ Becomes(r, [seen |-> Known(r)] @@ Enter(r, "terminate"))
  /\ Local

\* Mutant of Terminate: the error of a failed kill is swallowed.
TerminateQuietly(r) ==
  /\ Command(r) /\ Head(run[r].todo) = "close"
  /\ \/ CloseIsEmpty(r) /\ Becomes(r, Done(r)) /\ UNCHANGED box
     \/ /\ ~CloseIsEmpty(r)
        /\ Becomes(r, Closed(r) @@ Done(r)) \/ Becomes(r, Forgets(r) @@ Done(r))
        /\ box' \in Kill(r, Closing(r))
  /\ Idle

\* runtime.terminate closes the transport.
Terminate(r) ==
  /\ Command(r) /\ Head(run[r].todo) = "close"
  /\ \/ /\ CloseIsEmpty(r)
        /\ Becomes(r, Done(r)) /\ UNCHANGED box
     \/ /\ ~CloseIsEmpty(r)
        /\ box' \in Kill(r, Closing(r)) /\ Becomes(r, Closed(r) @@ Done(r))
     \/ /\ ~CloseIsEmpty(r)
        /\ box' \in Kill(r, Closing(r)) /\ Becomes(r, Forgets(r) @@ Raise(r))
  /\ Idle

Terminated(r) ==
  /\ Finished(r, "terminate")
  /\ Becomes(r, [pc |-> "teardown", sess |-> "terminated"])
  /\ Local

\* LiveRunAdapter.run: confirm_live once more, then _teardown's own close.
Teardown(r) ==
  /\ At(r, "teardown")
  /\ LET kept == [id |-> Known(r), mode |-> Confirm(r, Known(r)), pc |-> "release"]
     IN  \/ /\ CloseIsEmpty(r)
            /\ Becomes(r, kept) /\ UNCHANGED box
         \/ /\ ~CloseIsEmpty(r)
            /\ box' \in Kill(r, Closing(r)) /\ Becomes(r, Closed(r) @@ kept)
         \/ /\ ~CloseIsEmpty(r)
            /\ Becomes(r, Forgets(r) @@ [cleanup |-> TRUE] @@
                          (IF Known(r) = 0 THEN <<>> ELSE [pc |-> "retry"]) @@ kept)
            /\ box' \in Kill(r, Closing(r))
  /\ Idle

\* The kills by id after a close that failed.
Retry(r) ==
  /\ At(r, "retry")
  /\ \/ /\ run[r].tries < KillRetries
        /\ box' \in Kill(r, run[r].id)
        /\ Becomes(r, [cleanup |-> FALSE, pc |-> "release",
                       asked |-> run[r].asked \cup {run[r].id}])
     \/ /\ run[r].tries < KillRetries
        /\ box' \in Kill(r, run[r].id)
        /\ Becomes(r, [tries |-> run[r].tries + 1])
     \/ /\ run[r].tries = KillRetries
        /\ Becomes(r, [pc |-> "release"]) /\ UNCHANGED box
  /\ Idle

Identified(r) == {i \in DOMAIN box[r] : box[r][i].row = "identified"}

\* probe_from_environ: a sandbox is absent when the lookup says not found or
\* destroyed; any other answer, and a missing key, is no absence.
Absent(r, killed) == {i \in Identified(r) : i \in killed \/ ~box[r][i].alive}

\* Mutant of Release: the rows are closed without asking the provider.
ReleaseUnasked(r) ==
  /\ At(r, "release") /\ ~run[r].cleanup /\ run[r].id # 0
  /\ \E killed \in SUBSET Identified(r) :
       box' = [box EXCEPT ![r] = [i \in DOMAIN @ |->
            [alive |-> @[i].alive /\ i \notin killed,
             row |-> IF i \in Identified(r) THEN "absent" ELSE @[i].row]]]
  /\ Becomes(r, [pc |-> "settle"])
  /\ Idle

\* release_verified_sandboxes: every known sandbox is killed once more, best
\* effort, and a row becomes absent when the provider's lookup says so.
Release(r) ==
  /\ At(r, "release") /\ ~run[r].cleanup /\ run[r].id # 0
  /\ \E killed \in SUBSET Identified(r) : \E told \in SUBSET Absent(r, killed) :
       /\ box' = [box EXCEPT ![r] = [i \in DOMAIN @ |->
            [alive |-> @[i].alive /\ i \notin killed,
             row |-> IF i \in told THEN "absent" ELSE @[i].row]]]
  /\ Becomes(r, [pc |-> "settle"])
  /\ Idle

NoRelease(r) ==
  /\ At(r, "release") /\ (run[r].cleanup \/ run[r].id = 0)
  /\ Becomes(r, [pc |-> "settle"])
  /\ Local

\* Mutant of Settle: a run that raised keeps its slot.
SettleWithSlot(r) ==
  /\ At(r, "settle")
  /\ Becomes(r, [pc |-> "done",
                 ledger |-> IF run[r].cleanup THEN "cleanup_failed" ELSE "killed",
                 result |-> IF run[r].err THEN "raised"
                            ELSE IF run[r].cleanup THEN "cleanup_failed" ELSE run[r].result])
  /\ slots' = IF run[r].err THEN slots ELSE slots \ {r}
  /\ UNCHANGED <<box, provider, up>>

\* record_sandbox and the result; run_slot gives the slot back.
Settle(r) ==
  /\ At(r, "settle")
  /\ Becomes(r, [pc |-> "done",
                 ledger |-> IF run[r].cleanup THEN "cleanup_failed" ELSE "killed",
                 result |-> IF run[r].err THEN "raised"
                            ELSE IF run[r].cleanup THEN "cleanup_failed" ELSE run[r].result])
  /\ slots' = slots \ {r}
  /\ UNCHANGED <<box, provider, up>>

\* The provider ends a sandbox whose lifetime is over.
Expire(r) ==
  /\ \E i \in DOMAIN box[r] : box[r][i].alive /\ box' = Dead(r, i)
  /\ UNCHANGED run /\ Idle

\* The process dies: what it had not committed is lost, the provider keeps its
\* sandboxes.
Die ==
  /\ up /\ up' = FALSE
  /\ run' = [r \in DOMAIN run |-> [pc |-> "lost", mode |-> run[r].mode] @@ Fresh(run[r].agent)]
  /\ slots' = {}
  /\ UNCHANGED <<box, provider>>

Step(r) ==
  /\ r \in DOMAIN run
  /\ \/ Admit(r) \/ Busy(r) \/ RefuseConfig(r) \/ Refuse(r)
     \/ Fence(r) \/ Provision(r) \/ ProvisionFails(r) \/ Unidentified(r)
     \/ CleanupPending(r) \/ SeedFails(r)
     \/ Answers(r) \/ TurnAnswers(r) \/ CommandFails(r) \/ CommandTimesOut(r)
     \/ Staged(r) \/ Started(r) \/ Seen(r) \/ Queried(r) \/ TurnEnds(r) \/ Swept(r)
     \/ SeenTurn(r) \/ RecordTurn(r) \/ Observed(r) \/ Collected(r)
     \/ Ending(r) \/ Terminate(r) \/ Terminated(r)
     \/ Teardown(r) \/ Retry(r) \/ Release(r) \/ NoRelease(r) \/ Settle(r)

Next == Die \/ (\E r \in Runs : Step(r)) \/ (\E r \in DOMAIN run : Expire(r))

Spec == Init /\ [][Next]_vars

\* Every call of the run is bounded by a timeout of its own.
FairSpec == Spec /\ \A r \in Runs : WF_vars(Step(r))

-----------------------------------------------------------------------------
(***************************************************************************)
(* Properties.                                                             *)
(***************************************************************************)
\* A sandbox that is alive at the provider has a row in the database that still
\* fences its Attempt, whatever failed, timed out, was forgotten or died.
SurvivorIsFenced ==
  \A r \in DOMAIN run : \A i \in DOMAIN box[r] : box[r][i].alive => box[r][i].row # "absent"

\* A headless turn has one row in the usage ledger when its run is over, however
\* it ended, and the row reports tokens when the runtime knew of some; a Herdr
\* run that returns a result has one too.
EveryTurnIsMetered ==
  \A r \in DOMAIN run : run[r].pc = "done" =>
    /\ Len(run[r].rows) <= run[r].turns
    /\ ~Herdr(r) \/ run[r].result # "raised" => Len(run[r].rows) = run[r].turns
    /\ \A k \in DOMAIN run[r].rows : run[r].rows[k].source = "reported" <=> run[r].used > 0

\* A headless run whose result is a completed turn has forgotten no sandbox: the
\* kill of each one it opened, by the transport's close or by id, returned without
\* an error.  (Whether it is gone by then only a lookup says; until one does, its
\* row fences the Attempt.)  A run that returns any result has brought the agent's
\* tree home.
NoSandboxForgotten ==
  \A r \in DOMAIN run : run[r].pc = "done" =>
    /\ run[r].result \in {"completed", "running", "cancelled", "terminated"} =>
         run[r].tree = "agent"
    /\ run[r].result = "completed" /\ ~Herdr(r) =>
         DOMAIN box[r] \subseteq run[r].asked

\* A run that got a slot gives it back.
SlotComesBack == \A r \in Runs : r \in slots ~> r \notin slots
=============================================================================
