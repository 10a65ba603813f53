------------------------------- MODULE PlanGate -------------------------------
(***************************************************************************)
(* The human gate in front of a Plan: the API calls that propose a Plan,    *)
(* decide it, resolve the question of an agent and start a run, with the    *)
(* tokens they present and the database that arbitrates between them.       *)
(*                                                                          *)
(* A call is one HTTP request in a session of its own.  It authenticates,   *)
(* loads rows, decides on what it loaded, flushes the decision request,     *)
(* flushes the Plan and commits; other calls come in between.  Triggers     *)
(* says whether the database has the triggers of the migrations (PostgreSQL)*)
(* or only the session guards of db.py (SQLite), which compare with what    *)
(* the session itself loaded.                                               *)
(***************************************************************************)
EXTENDS Naturals

CONSTANTS Calls, Tokens,
          Use,        \* the token a call presents
          Does,       \* approve, reject, answer or run
          Subject,    \* what a call decides: the Plan or an agent's question
          Holder,     \* ApiTokenRow.principal
          Roles,      \* ApiTokenRow.roles
          Kind,       \* ApiTokenRow.kind: human or service
          Reserved,   \* the names kept for agents, sandboxes and the host
          Fold,       \* str.casefold, over the names in use
          SingleUser, \* SDF_AUTH_SINGLE_USER
          Triggers,   \* the database has the triggers of the migrations
          None

Subjects == {"plan", "agent"}
Names == {Holder[t] : t \in Tokens}
Outcome == [approve |-> "approved", reject |-> "rejected", answer |-> "answered"]

ASSUME PlanGateAssumption ==
  /\ Use \in [Calls -> Tokens] /\ Does \in [Calls -> {"approve", "reject", "answer", "run"}]
  /\ Subject \in [Calls -> Subjects] /\ Roles \in [Tokens -> SUBSET {"viewer", "operator", "approver", "admin"}]
  /\ Kind \in [Tokens -> {"human", "service"}] /\ SingleUser \in BOOLEAN /\ Triggers \in BOOLEAN
  /\ None \notin Calls \cup Names /\ \A n \in Names : Fold[n] # None
  \* the body of a plan decision is approve or reject
  /\ \A c \in Calls : Does[c] = "answer" => Subject[c] = "agent"

VARIABLES plan,     \* plans.status, none before it is proposed
          proposer, \* plans.proposed_by
          fold,     \* plans.proposed_by_casefold
          decision, \* decision_requests, by subject: status, resolver_kind, resolved_by
          material, \* the agent's message says that its question is material
          nodes,    \* the calls whose decision node and edge are in the graph
          runs,     \* the calls whose agent_runs row exists
          pc,       \* how far a call is
          lock      \* by subject, the call that has updated its request and not committed

rows == <<plan, proposer, fold, decision, material, nodes, runs>>
gateVars == <<rows, pc, lock>>

Statuses == {"none", "pending", "approved", "rejected", "answered"}
\* Every variable has its type.
GateTypeOK ==
  /\ plan \in {"none", "proposed", "approved", "rejected"}
  /\ proposer \in Names \cup {None} /\ fold \in {Fold[n] : n \in Names} \cup {None}
  /\ decision \in [Subjects -> [status : Statuses, kind : {None, "human", "policy"}, by : Names \cup {None}]]
  /\ material \in BOOLEAN /\ nodes \subseteq Calls /\ runs \subseteq Calls
  /\ lock \in [Subjects -> Calls \cup {None}]
  /\ pc \in [Calls -> {"new", "in", "loaded", "written", "refused", "done", "gone"}]

Open == [status |-> "pending", kind |-> None, by |-> None]
To(c, where) == pc' = [pc EXCEPT ![c] = where]

-----------------------------------------------------------------------------
(* Faulty variants of definitions below, one plausible slip each. *)

\* The handler checks that the request is pending and not who proposed the Plan.
LoadUnowned(c) ==
  /\ pc[c] = "in" /\ Does[c] # "run"
  /\ To(c, IF decision[Subject[c]].status = "pending" THEN "loaded" ELSE "refused")
  /\ UNCHANGED <<rows, lock>>
\* The trigger of migration 0014 on decision_requests is not installed.
RequestUnguarded(c) == TRUE
\* A run looks at the Plan's decision request only to see that it was decided.
RunOnceDecided(c) == plan \in {"approved", "rejected"}

-----------------------------------------------------------------------------
(* Tokens and roles; the audit rows of a call decide nothing and are left out *)

Implies == [viewer |-> {"viewer"}, operator |-> {"operator", "viewer"},
            approver |-> {"approver", "viewer"}, admin |-> {"viewer", "operator", "approver", "admin"}]
Has(t, role) == \E r \in Roles[t] : role \in Implies[r]
CanApprove(t) == Has(t, "approver") /\ Kind[t] = "human" /\ Holder[t] \notin Reserved
Needed(c) == IF Does[c] = "run" THEN "operator" ELSE "approver"
Authorized(c) == Has(Use[c], Needed(c)) /\ (Needed(c) = "approver" => CanApprove(Use[c]))

\* authorize: the token is verified and last_used_at committed, a column of its own.
Enter(c) ==
  /\ pc[c] = "new"
  /\ Authorized(c)
  /\ To(c, "in")
  /\ UNCHANGED <<rows, lock>>

\* 401, 403 or 429: a token that was revoked or has expired, a role it does not
\* have, a client that is locked out.
Deny(c) ==
  /\ pc[c] = "new"
  /\ To(c, "refused")
  /\ UNCHANGED <<rows, lock>>

-----------------------------------------------------------------------------
(* Proposals and questions *)

\* POST /plans: the proposer is the principal, the stored fold is computed at the INSERT.
Propose(t) ==
  /\ plan = "none" /\ Has(t, "operator")
  /\ plan' = "proposed" /\ proposer' = Holder[t] /\ fold' = Fold[Holder[t]]
  /\ decision' = [decision EXCEPT !["plan"] = Open]
  /\ UNCHANGED <<material, nodes, runs, pc, lock>>

\* Migration 0033 fills the fold of a Plan that is older.
Backfill ==
  /\ plan # "none" /\ fold = None
  /\ fold' = Fold[proposer]
  /\ UNCHANGED <<plan, proposer, decision, material, nodes, runs, pc, lock>>

\* An agent asks, in a run; a policy may answer in the same transaction, but
\* approves nothing and leaves what is material to humans.
Ask ==
  /\ runs # {} /\ decision["agent"].status = "none"
  /\ \E m \in BOOLEAN, r \in {Open} \cup {[status |-> s, kind |-> "policy", by |-> None] : s \in {"rejected", "answered"}} :
       /\ m => r = Open
       /\ material' = m /\ decision' = [decision EXCEPT !["agent"] = r]
  /\ UNCHANGED <<plan, proposer, fold, nodes, runs, pc, lock>>

-----------------------------------------------------------------------------
(* decide_plan and resolve_request *)

SelfDecision(t) == Fold[Holder[t]] = Fold[proposer]

\* What the handler checks on the rows it has loaded.
Accepts(t, s, does) ==
  /\ decision[s].status = "pending"
  /\ s = "plan" => /\ plan = "proposed"
                   /\ does = "approve" /\ SelfDecision(t) => SingleUser

Load(c) ==
  /\ pc[c] = "in" /\ Does[c] # "run"
  /\ To(c, IF Accepts(Use[c], Subject[c], Does[c]) THEN "loaded" ELSE "refused")
  /\ UNCHANGED <<rows, lock>>

\* trg_decision_requests_guard reads the row that the UPDATE has locked.
RequestGuard(c) == Triggers => decision[Subject[c]].status = "pending"

\* The first flush: UPDATE decision_requests, INSERT the decision node.  It waits
\* for a call that has the row, and the session guard compares with what was loaded.
Write(c) ==
  /\ pc[c] = "loaded" /\ lock[Subject[c]] = None
  /\ IF RequestGuard(c) THEN To(c, "written") /\ lock' = [lock EXCEPT ![Subject[c]] = c]
                        ELSE To(c, "refused") /\ UNCHANGED lock
  /\ UNCHANGED <<rows>>

\* The transaction of a call has ended, and with it the lock of the row it updated.
Unlock(c) == lock' = [s \in Subjects |-> IF lock[s] = c THEN None ELSE lock[s]]

\* trg_plans_guard: one move from proposed, and approval by a human only.
PlanGuard(c) == Subject[c] = "plan" /\ Triggers => plan = "proposed"

\* The second flush, UPDATE plans and INSERT the edge, and the commit.
Commit(c) ==
  /\ pc[c] = "written" /\ PlanGuard(c)
  /\ decision' = [decision EXCEPT ![Subject[c]] =
                   [status |-> Outcome[Does[c]], kind |-> "human", by |-> Holder[Use[c]]]]
  /\ plan' = IF Subject[c] = "plan" THEN Outcome[Does[c]] ELSE plan
  /\ nodes' = nodes \cup {c} /\ Unlock(c)
  /\ To(c, "done")
  /\ UNCHANGED <<proposer, fold, material, runs>>

\* A guard raises or a statement fails: the session is rolled back.
Rollback(c) ==
  /\ pc[c] = "written"
  /\ Unlock(c)
  /\ To(c, "refused")
  /\ UNCHANGED rows

-----------------------------------------------------------------------------
(* Runs, the death of a process *)

\* start_agent_run and trg_agent_runs_plan_gate both read the Plan.
RunGate(c) == plan = "approved"

StartRun(c) ==
  /\ pc[c] = "in" /\ Does[c] = "run"
  /\ IF RunGate(c) THEN runs' = runs \cup {c} /\ To(c, "done")
                   ELSE UNCHANGED runs /\ To(c, "refused")
  /\ UNCHANGED <<plan, proposer, fold, decision, material, nodes, lock>>

Die(c) ==
  /\ pc[c] \in {"in", "loaded", "written"}
  /\ Unlock(c) /\ To(c, "gone")
  /\ UNCHANGED <<rows>>

-----------------------------------------------------------------------------
\* No Plan yet, or one that was proposed before migration 0033.
GateInit ==
  /\ \/ plan = "none" /\ proposer = None
     \/ plan = "proposed" /\ proposer \in Names
  /\ fold = None
  /\ decision = [s \in Subjects |-> IF s = "plan" /\ plan = "proposed" THEN Open ELSE [Open EXCEPT !.status = "none"]]
  /\ material = FALSE /\ nodes = {} /\ runs = {}
  /\ pc = [c \in Calls |-> "new"] /\ lock = [s \in Subjects |-> None]

CallStep(c) ==
  \/ Enter(c) \/ Deny(c) \/ Load(c) \/ Write(c) \/ Commit(c) \/ Rollback(c)
  \/ StartRun(c)

GateNext ==
  \/ \E c \in Calls : CallStep(c) \/ Die(c)
  \/ \E t \in Tokens : Propose(t)
  \/ Backfill \/ Ask

GateSpec == GateInit /\ [][GateNext]_gateVars

-----------------------------------------------------------------------------
\* Mutant of Inbox: it compares what the column holds with the caller's plain name.
InboxByName(t) ==
  {s \in Subjects : /\ CanApprove(t) /\ decision[s].status = "pending"
                    /\ s = "plan" => SingleUser \/ fold # Holder[t]}

\* The pending requests that GET /inbox lists: none for a caller who cannot approve.
Inbox(t) ==
  {s \in Subjects : /\ CanApprove(t) /\ decision[s].status = "pending"
                    /\ s = "plan" => SingleUser \/ fold # Fold[Holder[t]]}

\* An approved Plan was approved by a human who did not propose it, under any
\* spelling of the name (plans.decide_plan, ADR 0015).
ApprovedByAnother ==
  plan = "approved" =>
    /\ decision["plan"].status = "approved" /\ decision["plan"].kind = "human"
    /\ SingleUser \/ Fold[decision["plan"].by] # Fold[proposer]
    /\ \E t \in Tokens : Holder[t] = decision["plan"].by /\ CanApprove(t)

\* A decision is taken once: neither the request nor the Plan moves again and the
\* graph gets no second node for it, when two calls decide on rows that both found
\* pending (db._guard_plans_and_decisions, migration 0014).
DecisionIsFinal ==
  [][/\ \A s \in Subjects : decision[s].status \notin {"none", "pending"} =>
          decision'[s] = decision[s] /\ \A c \in nodes' \ nodes : Subject[c] # s
     /\ plan \in {"approved", "rejected"} => plan' = plan]_gateVars

\* Whatever runs, runs on an approved Plan (Coordinator.create_run, migration 0014).
WorkNeedsApproval == runs # {} => plan = "approved"

\* The inbox lists what its reader may approve now, no more and no less, although
\* it compares a stored fold in SQL and decide_plan computes it (human_read.inbox_page).
InboxIsActionable ==
  (plan # "none" => fold # None) =>
    \A t \in Tokens, s \in Subjects :
      s \in Inbox(t) <=> CanApprove(t) /\ Accepts(t, s, "approve")

=============================================================================
