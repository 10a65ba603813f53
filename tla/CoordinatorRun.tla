---------------------------- MODULE CoordinatorRun ----------------------------
(***************************************************************************)
(* One run of an approved Plan: Coordinator.execute over MessageHub and the *)
(* material decision gate.  A lead and one worker per subtask take turns in *)
(* a thread pool and write envelopes into the outboxes of their sandboxes;  *)
(* the coordinator thread polls: it collects turns, relays envelopes,       *)
(* answers decisions, computes the gate, verifies what was reported,        *)
(* delivers mail, wakes agents and asks whether the run is over.  Humans,   *)
(* the cancel endpoint, orphan sweeps of other processes and the death of   *)
(* the process come between any two of these steps.                         *)
(*                                                                          *)
(* A worker stands for its subtask: the Task, the current Attempt and the   *)
(* verdict are indexed by it.  Time is not counted: a cap may be reached at *)
(* any poll, and the fairness says which cap must be in the end.            *)
(***************************************************************************)
EXTENDS Integers, FiniteSets

CONSTANTS Workers, Lead,
          Fenced,        \* workers whose sandbox has bind_attempt (E2BAgentSandbox)
          Says,          \* the kinds of envelope each agent may write
          MaxTurns,      \* RunConfig.max_turns_per_agent
          MaxRounds,     \* RunConfig.max_verify_rounds
          MaxConcurrent  \* RunConfig.max_concurrent_turns

Agents == Workers \cup {Lead}
Kinds == {"talk", "done", "plain", "material"}
Asking == {"plain", "material"}

\* What from_dict requires of a configuration; cost, prices and times are left out.
ValidConfig == {MaxTurns, MaxRounds, MaxConcurrent} \subseteq Nat \ {0}

ASSUME CoordinatorAssumption ==
  /\ Lead \notin Workers /\ Workers # {} /\ Fenced \subseteq Workers
  /\ Says \in [Agents -> SUBSET Kinds]
  /\ ValidConfig

VARIABLES run,      \* agent_runs.status
          phase,    \* where the coordinator thread is
          outcome,  \* the local outcome, before _finalize; "refused" is "failed" with the
                    \* error "remote sandbox ... is not verified absent"
          task,     \* tasks.status, by subtask
          attempt,  \* attempts.status of the current Attempt, by subtask
          rounds,   \* _Subtask.rounds
          verdict,  \* _Subtask.verdict; FAIL stands for INCONCLUSIVE too
          asked,    \* subtasks with verify_requested
          stalled,  \* subtasks whose current Attempt is in stall_verified
          request,  \* decision_requests.status, by agent and kind
          pending,  \* recipients of messages not delivered yet
          mail,     \* agents with files in their inbox
          wake,     \* agents with their wake flag
          busy,     \* agents whose _Agent.future is not None
          turns,    \* _Agent.turns
          gate,     \* who asked the material requests that this poll saw pending
          reported, \* lead_reported
          notified, \* all_pass_notified
          worked,   \* host_worked
          held,     \* held_prev
          idle      \* idle_since is set

subtasks == <<task, attempt, rounds, verdict, asked, stalled>>
inboxes == <<pending, mail, wake>>
flags == <<reported, notified, worked, held, idle>>
vars == <<run, phase, outcome, subtasks, request, inboxes, busy, turns, gate, flags>>

Loop == {"poll", "relay", "gate", "verify", "deliver", "complete"}
Over == {"done", "dead"}

\* Every variable has its type.
TypeOK ==
  /\ run \in {"running", "succeeded", "failed", "cancelled"}
  /\ phase \in {"begin", "close"} \cup Loop \cup Over
  /\ outcome \in {"succeeded", "failed", "cancelled", "refused"}
  /\ task \in [Workers -> {"created", "running", "succeeded", "failed", "inconclusive"}]
  /\ attempt \in [Workers -> {"none", "running", "completed", "failed", "cancelled"}]
  /\ rounds \in [Workers -> 0..MaxRounds] /\ verdict \in [Workers -> {"none", "PASS", "FAIL"}]
  /\ asked \subseteq Workers /\ stalled \subseteq Workers
  /\ request \in [Agents -> [Asking -> {"none", "pending", "resolved", "told"}]]
  /\ pending \subseteq Agents /\ mail \subseteq Agents /\ wake \subseteq Agents
  /\ busy \subseteq Agents /\ turns \in [Agents -> 0..MaxTurns]
  /\ gate \subseteq Agents
  /\ {reported, notified, worked, held, idle} \subseteq BOOLEAN

Go(to) == phase' = to
\* A break of the loop or an exception: the rest of the loop is skipped.
Break(how) == Go("close") /\ outcome' = how

AllPass == \A w \in Workers : verdict[w] = "PASS"
\* Faulty variant of the next: a lead's request holds the lead only.
HoldsItself(a, b) == a = b
\* The request of one agent holds another: a worker's holds its own subtask,
\* the lead's the whole run.
Holds(a, b) == a = Lead \/ a = b
Blocked == {b \in Agents : \E a \in gate : Holds(a, b)}
Active == busy # {} \/ pending # {} \/ wake # {} \/ asked # {}

-----------------------------------------------------------------------------
(* Faulty variants of definitions below, one plausible slip each. *)

\* Completion does not look at the gate.
SucceedsUngated == AllPass /\ (reported \/ ~Active)
\* _finalize cancels only what a cancelled run leaves behind.
LeftBehindOnCancel(w) == attempt[w] = "running" /\ outcome = "cancelled"
\* The time held by a decision is counted nowhere.
HoldCapNever == FALSE /\ UNCHANGED vars

-----------------------------------------------------------------------------
(* Before the loop: Attempts, then sandboxes, then the first messages *)

\* begin of one subtask's first Attempt, before any sandbox exists.
BeginAttempt(w) ==
  /\ phase = "begin" /\ attempt[w] = "none"
  /\ attempt' = [attempt EXCEPT ![w] = "running"]
  /\ task' = [task EXCEPT ![w] = "running"]
  /\ rounds' = [rounds EXCEPT ![w] = @ + 1]
  /\ UNCHANGED <<run, phase, outcome, verdict, asked, stalled, request, inboxes,
                 busy, turns, gate, flags>>

\* Every sandbox has started; the lead gets the brief, each worker a note.
StartSandboxes ==
  /\ phase = "begin" /\ \A w \in Workers : attempt[w] # "none"
  /\ pending' = Agents
  /\ Go("poll")
  /\ UNCHANGED <<run, outcome, subtasks, request, mail, wake, busy, turns, gate, flags>>

\* A fixture refused, a begin refused, a sandbox that did not start; in the
\* loop, a failed statement or a sandbox that cannot be collected.
Raise ==
  /\ phase \in Loop \cup {"begin"}
  /\ Break("failed")
  /\ UNCHANGED <<run, subtasks, request, inboxes, busy, turns, gate, flags>>

-----------------------------------------------------------------------------
(* The top of a poll: cancel, the caps, finished turns *)

\* A cancel was asked for since: the endpoint sets cancel_requested_at on a run
\* that is running, and the event this poll looks at.
Cancelled ==
  /\ phase = "poll"
  /\ Break("cancelled")
  /\ UNCHANGED <<run, subtasks, request, inboxes, busy, turns, gate, flags>>

CapReached ==
  /\ phase = "poll"
  /\ Break("failed")
  /\ UNCHANGED <<run, subtasks, request, inboxes, busy, turns, gate, flags>>
\* Time that a decision held counts towards max_material_hold_s and all other
\* time towards max_wall_s; what it costs counts at all times.
WallCap == CapReached /\ ~held
HoldCap == CapReached /\ held

\* The turns that are over are collected, and their agents have or have not read
\* their inbox (sdf-msg read moves every file away).
Poll ==
  /\ phase = "poll"
  /\ \E ended \in SUBSET busy : \E read \in SUBSET ended :
       busy' = busy \ ended /\ wake' = wake \cup ended /\ mail' = mail \ read
  /\ Go("relay")
  /\ UNCHANGED <<run, outcome, subtasks, request, pending, turns, gate, flags>>

-----------------------------------------------------------------------------
(* The relay: _safe_list, _take, MessageHub.ingest and its effects *)

\* MessageHub._route: another member, or all workers when the lead writes.
Recipients(a) == {{b} : b \in Agents \ {a}} \cup (IF a = Lead THEN {Workers} ELSE {})

\* What a persisted envelope does.  A configured policy may answer a request
\* at once, but never a material one, whose sender is told when a rule and
\* not the agent found it material.
Effect(a, e) ==
  /\ asked' = IF e = "done" /\ a # Lead THEN asked \cup {a} ELSE asked
  /\ reported' = (reported \/ (e = "done" /\ a = Lead))
  /\ CASE e \in Asking ->
            /\ \E s \in {"pending"} \cup (IF e = "plain" THEN {"resolved"} ELSE {}) :
                 request' = [request EXCEPT ![a][e] = s]
            /\ \E told \in SUBSET (IF e = "material" THEN {a} ELSE {}) :
                 pending' = pending \cup told
       [] e = "talk" -> /\ \E to \in Recipients(a) : pending' = pending \cup to
                        /\ UNCHANGED request
       [] OTHER -> UNCHANGED <<request, pending>>

\* _safe_list and _take: the outbox of an agent that has had a turn.  Which of its
\* envelopes a poll finds is left open, for a listing, a read or a removal that
\* fails leaves an envelope for a later poll, and one whose removal succeeds and
\* loses its answer is dropped.
Listed(a) == turns[a] > 0

\* sdf-msg send writes envelopes during any turn and in any number.  (One request
\* of each kind per agent is a bound of the model.)
Written(a, e) == Listed(a) /\ e \in Says[a] /\ (e \in Asking => request[a][e] = "none")

Relay(a, e) ==
  /\ phase = "relay" /\ Written(a, e)
  /\ Effect(a, e)
  /\ UNCHANGED <<run, phase, outcome, task, attempt, rounds, verdict, stalled,
                 mail, wake, busy, turns, gate, notified, worked, held, idle>>

\* ingest refuses a malformed envelope, a recipient that is no member, a repeated
\* message_id, and any envelope of a sender at max_messages_per_agent.
Refuse(a) ==
  /\ phase = "relay" /\ Listed(a)
  /\ pending' = pending \cup {a}
  /\ UNCHANGED <<run, phase, outcome, subtasks, request, mail, wake, busy, turns, gate, flags>>

-----------------------------------------------------------------------------
(* Decisions: answers that are due, and the gate *)

\* The relay is over, and the requests resolved since are answered.
Answer ==
  /\ phase = "relay"
  /\ request' = [a \in Agents |-> [k \in Asking |->
                   IF request[a][k] = "resolved" THEN "told" ELSE request[a][k]]]
  /\ pending' = pending \cup {a \in Agents : \E k \in Asking : request[a][k] = "resolved"}
  /\ Go("gate")
  /\ UNCHANGED <<run, outcome, subtasks, mail, wake, busy, turns, gate, flags>>

\* pending_material, read again from the database at every poll.
Gate ==
  /\ phase = "gate"
  /\ gate' = {a \in Agents : request[a]["material"] = "pending"}
  /\ Go("verify")
  /\ UNCHANGED <<run, outcome, subtasks, request, inboxes, busy, turns, flags>>

\* _keep_alive: a sandbox would expire while a decision holds the run.
KeepAliveFails ==
  /\ phase = "gate"
  /\ gate' = {a \in Agents : request[a]["material"] = "pending"} /\ gate' # {}
  /\ Break("failed")
  /\ UNCHANGED <<run, subtasks, request, inboxes, busy, turns, flags>>

-----------------------------------------------------------------------------
(* Host verification *)

Due(w) == w \in asked /\ w \notin Blocked /\ w \notin busy /\ verdict[w] # "PASS"

\* _verify: finish settles the Attempt and the Task on Evidence, and a retry is
\* begun while rounds are left.  An Attempt that is not running any more, which
\* a sweep settled or an earlier round completed, raises AttemptFenceError.
Verify(w) ==
  /\ phase = "verify" /\ Due(w)
  /\ asked' = asked \ {w} /\ worked' = TRUE
  /\ IF attempt[w] # "running"
     THEN /\ Break("failed")
          /\ UNCHANGED <<task, attempt, rounds, verdict, stalled, pending>>
     ELSE \E v \in {"PASS", "FAIL"} :
            LET retry == v = "FAIL" /\ rounds[w] < MaxRounds IN
              /\ retry => w \notin Fenced
              /\ attempt' = [attempt EXCEPT ![w] = IF retry THEN "running" ELSE "completed"]
              /\ task' = [task EXCEPT ![w] = IF retry THEN "running"
                                             ELSE IF v = "PASS" THEN "succeeded" ELSE "failed"]
              /\ rounds' = [rounds EXCEPT ![w] = IF retry THEN @ + 1 ELSE @]
              /\ verdict' = [verdict EXCEPT ![w] = IF retry THEN "none" ELSE v]
              /\ stalled' = IF retry THEN stalled \ {w} ELSE stalled
              /\ pending' = pending \cup {w, Lead}
              /\ UNCHANGED <<phase, outcome>>
  /\ UNCHANGED <<run, request, mail, wake, busy, turns, gate, reported, notified, held, idle>>

\* The failed round is recorded and begin refuses the retry.  _fence_worker_attempt
\* has bound the Attempt of the failed round to the worker's sandbox, whose row is
\* identified while the sandbox is open, and begin refuses the Task because of it
\* (unresolved_effect_id).  An admin who reconciles that row meanwhile, and so
\* kills the sandbox of a running turn, is left out.
RetryRefused(w) ==
  /\ phase = "verify" /\ Due(w) /\ attempt[w] = "running" /\ rounds[w] < MaxRounds
  /\ attempt' = [attempt EXCEPT ![w] = "completed"]
  /\ task' = [task EXCEPT ![w] = "failed"]
  /\ verdict' = [verdict EXCEPT ![w] = "FAIL"]
  /\ rounds' = [rounds EXCEPT ![w] = @ + 1]
  /\ asked' = asked \ {w} /\ worked' = TRUE
  /\ \E how \in {"failed"} \cup (IF w \in Fenced THEN {"refused"} ELSE {}) : Break(how)
  /\ UNCHANGED <<run, stalled, request, inboxes, busy, turns, gate, reported, notified, held, idle>>

\* The loop over the subtasks ends; the lead is told once that all of them pass.
VerifyDone ==
  /\ phase = "verify" /\ \A w \in Workers : ~Due(w)
  /\ notified' = (notified \/ AllPass)
  /\ pending' = IF AllPass /\ ~notified THEN pending \cup {Lead} ELSE pending
  /\ Go("deliver")
  /\ UNCHANGED <<run, outcome, subtasks, request, mail, wake, busy, turns, gate,
                 reported, worked, held, idle>>

-----------------------------------------------------------------------------
(* Deliveries, turns, completion *)

\* Each delivery is tried three times; what fails stays for the next poll.
Deliveries == SUBSET pending

\* Then an agent with its wake flag starts a turn when it has mail and turns left.  It
\* keeps the flag when it is held, when the pool is full, or when its inbox
\* could not be counted.
Deliver ==
  /\ phase = "deliver"
  /\ \E to \in Deliveries :
       LET free == (wake \cup to) \ (busy \cup Blocked)
           able == {a \in free : a \in mail \cup to /\ turns[a] < MaxTurns}
       IN /\ pending' = pending \ to /\ mail' = mail \cup to
          /\ \E start \in SUBSET able, keep \in SUBSET free :
               /\ start \cap keep = {} /\ able \subseteq start \cup keep
               /\ Cardinality(busy) + Cardinality(start) <= MaxConcurrent
               /\ busy' = busy \cup start
               /\ turns' = [a \in Agents |-> IF a \in start THEN turns[a] + 1 ELSE turns[a]]
               /\ wake' = (wake \cup to) \ (free \ keep)
  /\ Go("complete")
  /\ UNCHANGED <<run, outcome, subtasks, request, gate, flags>>

Succeeds == AllPass /\ (reported \/ ~Active) /\ gate = {}
Exhausted == {w \in Workers : verdict[w] = "FAIL" /\ rounds[w] >= MaxRounds}
GivesUp == /\ Exhausted # {} /\ ~Active
           /\ \A w \in Workers : verdict[w] = "PASS" \/ w \in Exhausted
Waiting == Active \/ \E a \in Agents, k \in Asking : request[a][k] = "pending"
Unverified == {w \in Workers : verdict[w] = "none" /\ w \notin stalled}

\* Step 7 of a poll: success, failure, the next poll, or agents gone quiet for
\* stall_s, upon which the host verifies by itself, once per Attempt.
Complete ==
  /\ phase = "complete"
  /\ held' = (gate # {} /\ ~worked /\ busy = {})
  /\ gate' = {} /\ worked' = FALSE  \* read only within one poll
  /\ CASE Succeeds -> Break("succeeded") /\ UNCHANGED <<idle, asked, stalled>>
       [] ~Succeeds /\ GivesUp -> Break("failed") /\ UNCHANGED <<idle, asked, stalled>>
       [] ~Succeeds /\ ~GivesUp /\ Waiting ->
            Go("poll") /\ idle' = FALSE /\ UNCHANGED <<outcome, asked, stalled>>
       [] OTHER ->
            \/ Go("poll") /\ idle' = TRUE /\ UNCHANGED <<outcome, asked, stalled>>
            \/ /\ idle /\ Unverified # {}
               /\ stalled' = stalled \cup Unverified /\ asked' = asked \cup Unverified
               /\ Go("poll") /\ idle' = FALSE /\ UNCHANGED outcome
            \/ /\ idle /\ Unverified = {}
               /\ Break("failed") /\ UNCHANGED <<idle, asked, stalled>>
  /\ UNCHANGED <<run, task, attempt, rounds, verdict, request, inboxes, busy, turns,
                 reported, notified>>

-----------------------------------------------------------------------------
(* The end: sandboxes closed, which ends the turns, the pool drained, _finalize *)

\* Locals of execute, files of the sandboxes and undelivered messages, which
\* nobody reads once the coordinator is gone.
Forget ==
  /\ asked' = {} /\ stalled' = {} /\ pending' = {} /\ mail' = {} /\ wake' = {} /\ gate' = {}
  /\ busy' = {} /\ turns' = [a \in Agents |-> 0]
  /\ reported' = FALSE /\ notified' = FALSE /\ worked' = FALSE /\ held' = FALSE /\ idle' = FALSE

\* The current Attempt of a subtask that _finalize cancels.
LeftBehind(w) == attempt[w] = "running"

Finalize ==
  /\ phase = "close"
  /\ run' = IF outcome = "refused" \/ (outcome = "succeeded" /\ ~AllPass) THEN "failed"
            ELSE outcome
  /\ attempt' = [w \in Workers |-> IF LeftBehind(w) THEN "cancelled" ELSE attempt[w]]
  /\ task' = [w \in Workers |-> IF LeftBehind(w) THEN "inconclusive" ELSE task[w]]
  /\ Forget /\ Go("done")
  /\ UNCHANGED <<outcome, rounds, verdict, request>>

-----------------------------------------------------------------------------
(* The others *)

\* A human resolves a pending request, at any time.
Resolve(a, k) ==
  /\ request[a][k] = "pending"
  /\ request' = [request EXCEPT ![a][k] = "resolved"]
  /\ UNCHANGED <<run, phase, outcome, subtasks, inboxes, busy, turns, gate, flags>>

\* A sweep of another process finds the lease of an Attempt expired.
Reap(w) ==
  /\ attempt[w] = "running"
  /\ attempt' = [attempt EXCEPT ![w] = "failed"]
  /\ task' = [task EXCEPT ![w] = "failed"]
  /\ UNCHANGED <<run, phase, outcome, rounds, verdict, asked, stalled, request, inboxes,
                 busy, turns, gate, flags>>

\* The process dies; or a statement of _finalize raises, which rolls its
\* transaction back and leaves the same rows behind.
Crash ==
  /\ phase \notin Over
  /\ Forget /\ Go("dead")
  /\ UNCHANGED <<run, outcome, task, attempt, rounds, verdict, request>>

-----------------------------------------------------------------------------
\* create_run: the Plan is approved, its Tasks may run, nothing has begun.
Init ==
  /\ run = "running" /\ phase = "begin" /\ outcome = "failed"
  /\ task = [w \in Workers |-> "created"] /\ attempt = [w \in Workers |-> "none"]
  /\ rounds = [w \in Workers |-> 0] /\ verdict = [w \in Workers |-> "none"]
  /\ asked = {} /\ stalled = {}
  /\ request = [a \in Agents |-> [k \in Asking |-> "none"]]
  /\ pending = {} /\ mail = {} /\ wake = {}
  /\ busy = {} /\ turns = [a \in Agents |-> 0]
  /\ gate = {} /\ reported = FALSE /\ notified = FALSE /\ worked = FALSE
  /\ held = FALSE /\ idle = FALSE

Coordinator ==
  \/ \E w \in Workers : BeginAttempt(w) \/ Verify(w) \/ RetryRefused(w)
  \/ StartSandboxes \/ Raise
  \/ Cancelled \/ WallCap \/ HoldCap \/ Poll
  \/ \E a \in Agents, e \in Kinds : Relay(a, e)
  \/ \E a \in Agents : Refuse(a)
  \/ Answer \/ Gate \/ KeepAliveFails
  \/ VerifyDone \/ Deliver \/ Complete \/ Finalize

Others ==
  \/ \E a \in Agents, k \in Asking : Resolve(a, k)
  \/ \E w \in Workers : Reap(w)
  \/ Crash

Next == Coordinator \/ Others

Spec == Init /\ [][Next]_vars

\* The coordinator thread keeps running (what it relays or verifies in one poll is
\* finite).  A poll takes at least poll_interval_s, so polls without end reach the
\* cap that counts their time.
Fairness == WF_vars(Coordinator) /\ SF_vars(WallCap) /\ SF_vars(HoldCap)
FairSpec == Spec /\ Fairness

-----------------------------------------------------------------------------
\* A run that succeeded has succeeded Tasks behind every subtask, and left no
\* material decision to a human (Coordinator._execute, _finalize, ADR 0033).
SucceededRunIsProven ==
  run = "succeeded" => /\ \A w \in Workers : task[w] = "succeeded"
                       /\ \A a \in Agents : request[a]["material"] # "pending"

\* While a material request is pending in the database no agent it holds is
\* given a turn, and no subtask it holds is verified or begun again, whatever
\* the order in which envelopes, answers and reports come in.
HeldScopeWaits ==
  [][\A a, b \in Agents : request[a]["material"] = "pending" /\ a \in {Lead, b} =>
       /\ b \in busy' => b \in busy
       /\ b \in Workers => rounds'[b] = rounds[b] /\ verdict'[b] = verdict[b]]_vars

\* A run that has ended leaves no Attempt running and no Task taken, however it
\* ended (Coordinator._finalize); what a dead process leaves is for the sweeps.
NothingOutlivesTheRun ==
  phase = "done" => \A w \in Workers : attempt[w] # "running" /\ task[w] # "running"

\* "A retry runs in the worker's already-started sandbox" (_verify): begin does not
\* refuse the retry because of that very sandbox.
RetryRunsInItsSandbox == outcome # "refused"

\* Every run ends, also when a human never answers, agents fall silent, an
\* outbox is never empty or no delivery succeeds.
RunEnds == <>(phase \in Over)
=============================================================================
