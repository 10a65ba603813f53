------------------------------ MODULE ToolFence ------------------------------
(***************************************************************************)
(* The Go Tool Proxy (go/internal/toolproxy): Proxy.Execute for several    *)
(* deliveries at a time, the two OutcomeStores behind it, and the death    *)
(* and restart of the sdf-orch process that owns them.                     *)
(*                                                                         *)
(* Every store operation is one atomic step (MemoryStore holds its mutex,  *)
(* SQLiteStore has one connection), and a step may fail instead.  An       *)
(* action is a pair of attempt_id and action_id; a delivery is one call of *)
(* Execute.  The store keeps rows: decided (policy_decided, one for each   *)
(* delivery), claim (action_claimed) and outcome (action_executed or       *)
(* action_failed), each stamped with an evidence mode.                     *)
(***************************************************************************)
EXTENDS Integers, FiniteSets

CONSTANTS Attempts,   \* attempt ids
          Actions,    \* action identities
          AttemptOf,  \* the Attempt each action belongs to
          Deliveries, \* calls of Execute; two of one action are a redelivery
          ActionOf,   \* the action each delivery asks for
          MaxCrashes  \* bound on the deaths of the process

ASSUME OwnerAssumption == AttemptOf \in [Actions -> Attempts]
ASSUME RequestAssumption == ActionOf \in [Deliveries -> Actions]
ASSUME CrashAssumption == MaxCrashes \in Nat

VARIABLES kind,    \* the store: "sqlite" (a file) or "memory"
          mode,    \* attempt_evidence_modes; "none" when there is no row
          scope,   \* Attempts with a SandboxScope in the process
          decided, \* the policy_decided row of each delivery, or none
          claim,   \* the mode on the action_claimed row, or "none"
          outcome, \* the terminal row of each action, or none
          pc,      \* where each delivery is in Execute
          stamp,   \* the mode a delivery read last
          effect,  \* its decision, "allow" or "deny"
          got,     \* what the executor returned to it
          answer,  \* what Execute returned: the Result's status and the error
          runs,    \* history: executor starts per action since the store is new
          crashes  \* deaths of the process so far

rows == <<mode, decided, claim, outcome>>
local == <<stamp, effect, got>>
vars == <<kind, mode, scope, decided, claim, outcome, pc, stamp, effect, got,
          answer, runs, crashes>>

EvidenceModes == {"synthetic", "live"}
Statuses == {"executed", "failed"}
NoRow == [status |-> "none", mode |-> "none"]
Row(s, m) == [status |-> s, mode |-> m]
Inside == {"stamp_decision", "append", "lookup", "stamp_claim", "claim",
           "relook", "exec", "stamp_outcome", "complete"}
Answers == [status : {"none", "denied"} \cup Statuses,
            err : {"none", "nil", "denied", "failed", "store"}]
NoAnswer == [status |-> "none", err |-> "none"]
Answer(s, e) == [status |-> s, err |-> e]

-----------------------------------------------------------------------------
(* Faulty variants of definitions below, one plausible slip each. *)

\* Claim looks for a terminal row only.
TakenTerminalOnly(x) == outcome[x] # NoRow
\* A delivery whose claim was lost runs the action when nobody has finished it.
RelookRetries(d) ==
  /\ pc[d] = "relook"
  /\ pc' = [pc EXCEPT ![d] = "exec"]
  /\ UNCHANGED <<kind, mode, scope, decided, claim, outcome, stamp, effect, got, answer, runs, crashes>>

-----------------------------------------------------------------------------
(* Proxy.Execute *)

Asked(d) == ActionOf[d]
Step(d, from, to) == pc[d] = from /\ pc' = [pc EXCEPT ![d] = to]
Return(d, a) == /\ pc' = [pc EXCEPT ![d] = "done"]
                /\ answer' = [answer EXCEPT ![d] = a]

\* The checks before the fence: reserved context keys, the scope, the derived
\* actor, the owner, the credential and the allowlist.  Without a scope the
\* delivery is denied; with one the rest of the request decides.
Decide(d) ==
  /\ Step(d, "idle", "stamp_decision")
  /\ \E e \in IF AttemptOf[Asked(d)] \in scope THEN {"allow", "deny"} ELSE {"deny"} :
       effect' = [effect EXCEPT ![d] = e]
  /\ UNCHANGED <<kind, rows, scope, stamp, got, answer, runs, crashes>>

StampSite == [stamp_decision |-> "append", stamp_claim |-> "claim", stamp_outcome |-> "complete"]
StampEvidenceMode(d) == IF mode[AttemptOf[Asked(d)]] = "live" THEN "live" ELSE "synthetic"

\* Proxy.stamp, read before each of the three inserts.
Stamp(d) ==
  /\ pc[d] \in DOMAIN StampSite
  /\ stamp' = [stamp EXCEPT ![d] = StampEvidenceMode(d)]
  /\ pc' = [pc EXCEPT ![d] = StampSite[pc[d]]]
  /\ UNCHANGED <<kind, rows, scope, effect, got, answer, runs, crashes>>

PolicyRow(d) == Row(effect[d], stamp[d])

\* AppendPolicy: a row for this delivery, denials and replays included.
AppendDecision(d) ==
  /\ pc[d] = "append"
  /\ decided' = [decided EXCEPT ![d] = PolicyRow(d)]
  /\ IF effect[d] = "deny"
       THEN Return(d, Answer("denied", "denied"))
       ELSE pc' = [pc EXCEPT ![d] = "lookup"] /\ UNCHANGED answer
  /\ UNCHANGED <<kind, mode, scope, claim, outcome, local, runs, crashes>>

\* Proxy.replay: the stored status; a failed one comes with ErrFailed.
Replay(x) == Answer(outcome[x].status, IF outcome[x].status = "failed" THEN "failed" ELSE "nil")

\* Lookup before the claim: a terminal row is replayed.
Lookup(d) ==
  /\ pc[d] = "lookup"
  /\ IF outcome[Asked(d)] # NoRow
       THEN Return(d, Replay(Asked(d)))
       ELSE pc' = [pc EXCEPT ![d] = "stamp_claim"] /\ UNCHANGED answer
  /\ UNCHANGED <<kind, rows, scope, local, runs, crashes>>

Taken(x) == outcome[x] # NoRow \/ claim[x] # "none"

\* OutcomeStore.Claim reserves the execution slot, or reports that it is gone.
Claim(d) ==
  /\ pc[d] = "claim"
  /\ IF Taken(Asked(d))
       THEN pc' = [pc EXCEPT ![d] = "relook"] /\ UNCHANGED claim
       ELSE /\ claim' = [claim EXCEPT ![Asked(d)] = stamp[d]]
            /\ pc' = [pc EXCEPT ![d] = "exec"]
  /\ UNCHANGED <<kind, mode, scope, decided, outcome, local, answer, runs, crashes>>

\* A lost claim: replay what the winner stored or, while it has stored nothing,
\* say failed without executing ("already claimed by another delivery").
Relook(d) ==
  /\ pc[d] = "relook"
  /\ Return(d, IF outcome[Asked(d)] # NoRow THEN Replay(Asked(d)) ELSE Answer("failed", "failed"))
  /\ UNCHANGED <<kind, rows, scope, local, runs, crashes>>

\* The executor runs; an error, a timeout and a cancelled context all count as failed.
Execute(d) ==
  /\ Step(d, "exec", "stamp_outcome")
  /\ runs' = [runs EXCEPT ![Asked(d)] = @ + 1]
  /\ \E s \in Statuses : got' = [got EXCEPT ![d] = s]
  /\ UNCHANGED <<kind, rows, scope, stamp, effect, answer, crashes>>

Completes(x) == outcome[x] = NoRow
\* The Result carries what the executor returned; an error of Complete is
\* returned beside an executed one and is not looked at for a failed one.
Result(d, stored) == Answer(got[d], IF got[d] = "failed" THEN "failed"
                                    ELSE IF stored THEN "nil" ELSE "store")

\* OutcomeStore.Complete: the first terminal outcome sticks.
Complete(d) ==
  /\ pc[d] = "complete"
  /\ outcome' = IF Completes(Asked(d))
                  THEN [outcome EXCEPT ![Asked(d)] = Row(got[d], stamp[d])]
                  ELSE outcome
  /\ Return(d, Result(d, Completes(Asked(d)) \/ outcome[Asked(d)].status = got[d]))
  /\ UNCHANGED <<kind, mode, scope, decided, claim, local, runs, crashes>>

\* A store operation fails: Execute returns an empty Result with the error, or
\* the executor's when the operation is Complete.
StoreError(d) ==
  /\ pc[d] \in Inside \ {"exec"}
  /\ Return(d, IF pc[d] = "complete" THEN Result(d, FALSE) ELSE Answer("none", "store"))
  /\ UNCHANGED <<kind, rows, scope, local, runs, crashes>>

-----------------------------------------------------------------------------
(* The Attempt record and the scope, as the orchestrator drives them. *)

EnsureAttempt(t) ==
  /\ mode[t] = "none"
  /\ mode' = [mode EXCEPT ![t] = "synthetic"]
  /\ UNCHANGED <<kind, scope, decided, claim, outcome, pc, local, answer, runs, crashes>>

PromoteAttempt(t) ==
  /\ mode[t] = "synthetic"
  /\ mode' = [mode EXCEPT ![t] = "live"]
  /\ UNCHANGED <<kind, scope, decided, claim, outcome, pc, local, answer, runs, crashes>>

Forgettable == {"synthetic"}

ForgetSyntheticAttempt(t) ==
  /\ mode[t] \in Forgettable
  /\ mode' = [mode EXCEPT ![t] = "none"]
  /\ UNCHANGED <<kind, scope, decided, claim, outcome, pc, local, answer, runs, crashes>>

RegisterScope(t) ==
  /\ scope' = scope \cup {t}
  /\ UNCHANGED <<kind, rows, pc, local, answer, runs, crashes>>

DropScope(t) ==
  /\ scope' = scope \ {t}
  /\ UNCHANGED <<kind, rows, pc, local, answer, runs, crashes>>

-----------------------------------------------------------------------------
\* The process dies and sdf-orch is started again: scopes are gone, a file
\* keeps its rows, a MemoryStore starts empty (with it the histories).
Restart ==
  /\ crashes < MaxCrashes
  /\ crashes' = crashes + 1
  /\ pc' = [d \in Deliveries |-> IF pc[d] \in Inside THEN "lost" ELSE pc[d]]
  /\ scope' = {}
  /\ IF kind = "sqlite"
       THEN UNCHANGED <<rows, answer, runs>>
       ELSE /\ mode' = [t \in Attempts |-> "none"]
            /\ decided' = [d \in Deliveries |-> NoRow]
            /\ answer' = [d \in Deliveries |-> NoAnswer]
            /\ runs' = [x \in Actions |-> 0]
            /\ claim' = [x \in Actions |-> "none"]
            /\ outcome' = [x \in Actions |-> NoRow]
  /\ UNCHANGED <<kind, local>>

\* A file of the tool_outcomes release: each old row becomes a claim and, when
\* it was terminal, an outcome, stamped synthetic.
MigrateLegacyOutcomes ==
  \E old \in [Actions -> {"none", "claimed"} \cup Statuses] :
    /\ kind = "memory" => old = [x \in Actions |-> "none"]
    /\ claim = [x \in Actions |-> IF old[x] = "none" THEN "none" ELSE "synthetic"]
    /\ outcome = [x \in Actions |-> IF old[x] \in Statuses THEN Row(old[x], "synthetic") ELSE NoRow]

Init ==
  /\ kind \in {"sqlite", "memory"}
  /\ MigrateLegacyOutcomes
  /\ mode = [t \in Attempts |-> "none"]
  /\ decided = [d \in Deliveries |-> NoRow]
  /\ answer = [d \in Deliveries |-> NoAnswer]
  /\ runs = [x \in Actions |-> 0]
  /\ scope = {}
  /\ pc = [d \in Deliveries |-> "idle"]
  /\ stamp = [d \in Deliveries |-> "none"]
  /\ effect = [d \in Deliveries |-> "none"]
  /\ got = [d \in Deliveries |-> "none"]
  /\ crashes = 0

Deliver(d) == \/ Decide(d) \/ Stamp(d) \/ AppendDecision(d) \/ Lookup(d) \/ Claim(d)
              \/ Relook(d) \/ Execute(d) \/ Complete(d) \/ StoreError(d)
Record(t) == \/ EnsureAttempt(t) \/ PromoteAttempt(t) \/ ForgetSyntheticAttempt(t)
             \/ RegisterScope(t) \/ DropScope(t)

Next == (\E d \in Deliveries : Deliver(d)) \/ (\E t \in Attempts : Record(t)) \/ Restart

Spec == Init /\ [][Next]_vars

-----------------------------------------------------------------------------
(* Properties *)

\* Every variable has its type.
TypeOK ==
  /\ kind \in {"sqlite", "memory"}
  /\ mode \in [Attempts -> {"none"} \cup EvidenceModes]
  /\ scope \in SUBSET Attempts
  /\ decided \in [Deliveries -> [status : {"none", "allow", "deny"}, mode : {"none"} \cup EvidenceModes]]
  /\ claim \in [Actions -> {"none"} \cup EvidenceModes]
  /\ outcome \in [Actions -> [status : {"none"} \cup Statuses, mode : {"none"} \cup EvidenceModes]]
  /\ pc \in [Deliveries -> {"idle", "done", "lost"} \cup Inside]
  /\ stamp \in [Deliveries -> {"none"} \cup EvidenceModes]
  /\ effect \in [Deliveries -> {"none", "allow", "deny"}]
  /\ got \in [Deliveries -> {"none"} \cup Statuses]
  /\ answer \in [Deliveries -> Answers]
  /\ runs \in [Actions -> Nat]
  /\ crashes \in Nat

\* The executor is started at most once for an action however often it is
\* delivered, and across restarts when the store is a file (docs/sdf-orch.md:
\* a later delivery "does not run the action again").
RunsOnce == \A x \in Actions : runs[x] <= 1

\* What Execute tells a caller of an action follows its row: once an outcome is
\* stored every delivery is told that outcome; executed without an error is said
\* only of an action_executed row; and an outcome told without a row is of an
\* action that is claimed for good, so no later delivery runs it (replay, the
\* lost claim, the executor's result and the error of Complete).
AnswersFollowTheRow ==
  [][\A d \in Deliveries : answer'[d] # answer[d] /\ answer'[d].status \in Statuses =>
       /\ outcome'[Asked(d)] # NoRow => answer'[d].status = outcome'[Asked(d)].status
       /\ answer'[d].err = "nil" => outcome'[Asked(d)].status = "executed"
       /\ claim'[Asked(d)] # "none"]_vars

\* Stamps only ever move forward: a row says live only while the Attempt is
\* recorded live, and the outcome of a live claim is live.  Promotion is one-way
\* and a live record is never forgotten (ADR 0038).
StampsMoveForward ==
  /\ \A d \in Deliveries : decided[d].mode = "live" => mode[AttemptOf[Asked(d)]] = "live"
  /\ \A x \in Actions :
       /\ "live" \in {claim[x], outcome[x].mode} => mode[AttemptOf[x]] = "live"
       /\ claim[x] = "live" /\ outcome[x] # NoRow => outcome[x].mode = "live"

\* The executor of an action runs only when an allow decision of a delivery of
\* that action is on record (ADR 0026: policy_decided is appended before the fence).
RunsAreDecided ==
  \A x \in Actions : runs[x] > 0 =>
     \E d \in Deliveries : ActionOf[d] = x /\ decided[d].status = "allow"

Ledger == INSTANCE ActionLedger WITH
            state <- [x \in Actions |-> IF outcome[x] # NoRow THEN outcome[x].status
                                        ELSE IF claim[x] # "none" THEN "taken" ELSE "open"]

\* The proxy and its stores implement the ledger of actions (refinement).
FenceIsLedger == Ledger!Spec
=============================================================================
