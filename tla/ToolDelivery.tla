----------------------------- MODULE ToolDelivery -----------------------------
(***************************************************************************)
(* One HTTP delivery of a structured action to the Python Tool Proxy:      *)
(* api.execute_tool_action, ExecutionService.execute_tool, ToolProxy.execute *)
(* over SqlAlchemyAuditSink and SqlAlchemyToolEventSink, on PostgreSQL at  *)
(* READ COMMITTED.  A delivery is one transaction: nothing it writes is    *)
(* seen before its commit, an INSERT waits for an open transaction that    *)
(* inserted the same unique key, and an error or a crash takes all of it   *)
(* back, but not what the executor did.                                    *)
(*                                                                         *)
(* The runtime events of one Attempt are a numbered stream, tool:<attempt>: *)
(* an event takes the number after the highest one its transaction sees.   *)
(* Deliveries to other Attempts share no row, so the module has one.       *)
(***************************************************************************)
EXTENDS Integers, FiniteSets

CONSTANTS Deliveries, \* HTTP calls of POST /attempts/{id}/actions
          Actions,    \* action identities (ActionRequest.action_id)
          Principals, \* authenticated callers
          ActionOf,   \* the action of each delivery
          PrincipalOf,\* the caller of each delivery
          Bound       \* deliveries that AttemptBinding.check does not deny

ASSUME DeliveryAssumption == /\ ActionOf \in [Deliveries -> Actions]
                             /\ PrincipalOf \in [Deliveries -> Principals]
                             /\ Bound \subseteq Deliveries
ASSUME NameAssumption == Deliveries \cap Principals = {}

VARIABLES active,  \* attempts.status is one of SqlAlchemyAttemptGuard._ACTIVE
          pc,      \* where each delivery is
          cached,  \* active, as the delivery's session loaded the Attempt
          effect,  \* the delivery's PolicyDecision.effect
          result,  \* the delivery's ToolExecution.status
          want,    \* the sequence number _emit computed; 0 before that
          stream,  \* committed rows of runtime_events
          open,    \* uncommitted rows of runtime_events, by delivery
          audit,   \* committed execution rows of tool_audits
          mine,    \* uncommitted execution rows of tool_audits, by delivery
          ran      \* history: deliveries that started the executor

tx == <<cached, effect, result, want>>
vars == <<active, pc, cached, effect, result, want, stream, open, audit, mine, ran>>

Emitting == {"requested", "decided", "outcome"}
Busy == Emitting \cup {"decide", "executed?", "failed?", "claim", "run", "commit"}
Effects == {"allow", "deny"}
Results == {"executed", "failed", "denied"}
Marks == {"claimed", "executed", "failed"}

\* The event a delivery emits at its place: tool_requested carries the action
\* and the principal, the others the audit_id of this very delivery.
Event(d) == [kind |-> pc[d],
             act  |-> ActionOf[d],
             by   |-> IF pc[d] = "requested" THEN PrincipalOf[d] ELSE d,
             word |-> CASE pc[d] = "requested" -> "request"
                        [] pc[d] = "decided" -> effect[d]
                        [] OTHER -> result[d]]
Row(n, e) == [seq |-> n, event |-> e]

\* READ COMMITTED: what is committed now and what the delivery wrote itself.
Visible(d) == stream \cup open[d]
\* Faulty: the fence reads an old snapshot, only what the delivery wrote itself.
MarkedInSnapshot(d, m) == [act |-> ActionOf[d], mark |-> m] \in mine[d]
\* tool_audits has an execution row of the action with this event.
Marked(d, m) == [act |-> ActionOf[d], mark |-> m] \in audit \cup mine[d]
Last(d) == CHOOSE n \in {0} \cup {r.seq : r \in Visible(d)} :
             \A r \in Visible(d) : r.seq <= n

\* Faulty: a denied delivery goes on to the executor.
AfterUnchecked(d) == CASE pc[d] = "requested" -> "decide"
                       [] pc[d] = "decided" -> "executed?"
                       [] OTHER -> "commit"
\* After the event of its place a delivery goes on.
After(d) == CASE pc[d] = "requested" -> "decide"
              [] pc[d] = "decided" -> IF effect[d] = "allow" THEN "executed?" ELSE "commit"
              [] OTHER -> "commit"

\* Faulty: an INSERT does not wait: the index of runtime_events is not unique.
NumberNeverHeld(d) == FALSE
\* Another open transaction holds the number in the unique index.
NumberHeld(d) == \E e \in Deliveries \ {d} : \E r \in open[e] : r.seq = want[d]

-----------------------------------------------------------------------------
(* Faulty variants of definitions below, one plausible slip each. *)

\* A conflict is tried again under the same number.
ConflictRetried(d) ==
  /\ pc[d] \in Emitting /\ want[d] # 0 /\ ~NumberHeld(d)
  /\ \E r \in Visible(d) : r.seq = want[d] /\ r.event # Event(d)
  /\ UNCHANGED vars

-----------------------------------------------------------------------------
(* The handler, up to the first event *)

\* execute_tool_action and execute_tool load the Attempt into the session.
Arrive(d) ==
  /\ pc[d] = "idle"
  /\ cached' = [cached EXCEPT ![d] = active]
  /\ pc' = [pc EXCEPT ![d] = "requested"]
  /\ UNCHANGED <<active, effect, result, want, stream, open, audit, mine, ran>>

-----------------------------------------------------------------------------
(* SqlAlchemyToolEventSink._emit and SqlAlchemyRuntimeEventSink.append *)

\* Requests and outcomes are deduplicated by action, decisions by audit_id.
Duplicate(d) ==
  /\ pc[d] # "decided"
  /\ \E r \in Visible(d) : /\ r.event.kind = pc[d] /\ r.event.act = ActionOf[d]
                           /\ pc[d] = "outcome" => r.event.word = result[d]

\* _emit reads the stream: a duplicate is skipped, or the number is computed.
\* The audit row of the record was written just before, by the same transaction.
EmitRead(d) ==
  /\ pc[d] \in Emitting /\ want[d] = 0
  /\ IF Duplicate(d)
       THEN pc' = [pc EXCEPT ![d] = After(d)] /\ UNCHANGED want
       ELSE want' = [want EXCEPT ![d] = Last(d) + 1] /\ UNCHANGED pc
  /\ UNCHANGED <<active, cached, effect, result, stream, open, audit, mine, ran>>

\* _compatible: the row at the number is the same event.
Compatible(r, d) == r.event = Event(d)

\* INSERT .. ON CONFLICT DO NOTHING, and the SELECT of the row that is there.
EmitInsert(d) ==
  /\ pc[d] \in Emitting /\ want[d] # 0 /\ ~NumberHeld(d)
  /\ \A r \in Visible(d) : r.seq = want[d] => Compatible(r, d)
  /\ open' = [open EXCEPT ![d] =
       IF \E r \in Visible(d) : r.seq = want[d] THEN @ ELSE @ \cup {Row(want[d], Event(d))}]
  /\ pc' = [pc EXCEPT ![d] = After(d)]
  /\ want' = [want EXCEPT ![d] = 0]
  /\ UNCHANGED <<active, cached, effect, result, stream, audit, mine, ran>>

\* RuntimeEventConflictError: the handler raises and its session is rolled back.
EmitConflict(d) ==
  /\ pc[d] \in Emitting /\ want[d] # 0 /\ ~NumberHeld(d)
  /\ \E r \in Visible(d) : r.seq = want[d] /\ ~Compatible(r, d)
  /\ open' = [open EXCEPT ![d] = {}] /\ mine' = [mine EXCEPT ![d] = {}]
  /\ pc' = [pc EXCEPT ![d] = "conflict"]
  /\ want' = [want EXCEPT ![d] = 0]
  /\ UNCHANGED <<active, cached, effect, result, stream, audit, ran>>

-----------------------------------------------------------------------------
(* ToolProxy.execute *)

\* The binding, then the guard on the Attempt the session has cached, then the
\* policy of the configuration, whose word is not restricted here.
Decide(d) ==
  /\ pc[d] = "decide"
  /\ \E f \in Effects :
       /\ d \notin Bound \/ ~cached[d] => f = "deny"
       /\ effect' = [effect EXCEPT ![d] = f]
       /\ result' = [result EXCEPT ![d] = "denied"]
  /\ pc' = [pc EXCEPT ![d] = "decided"]
  /\ UNCHANGED <<active, cached, want, stream, open, audit, mine, ran>>

\* has_event(ACTION_EXECUTED), then has_event(ACTION_FAILED): a replay.
LookupExecuted(d) ==
  /\ pc[d] = "executed?"
  /\ result' = [result EXCEPT ![d] = IF Marked(d, "executed") THEN "executed" ELSE @]
  /\ pc' = [pc EXCEPT ![d] = IF Marked(d, "executed") THEN "commit" ELSE "failed?"]
  /\ UNCHANGED <<active, cached, effect, want, stream, open, audit, mine, ran>>

LookupFailed(d) ==
  /\ pc[d] = "failed?"
  /\ result' = [result EXCEPT ![d] = IF Marked(d, "failed") THEN "failed" ELSE @]
  /\ pc' = [pc EXCEPT ![d] = IF Marked(d, "failed") THEN "commit" ELSE "claim"]
  /\ UNCHANGED <<active, cached, effect, want, stream, open, audit, mine, ran>>

\* The owner of the claim row is another delivery.
ClaimLost(d) == Marked(d, "claimed")

\* claim_action waits for an open claim of the same action.
ClaimAction(d) ==
  /\ pc[d] = "claim"
  /\ \A e \in Deliveries \ {d} : [act |-> ActionOf[d], mark |-> "claimed"] \notin mine[e]
  /\ IF ClaimLost(d)
       THEN /\ result' = [result EXCEPT ![d] = "failed"]
            /\ pc' = [pc EXCEPT ![d] = "commit"] /\ UNCHANGED mine
       ELSE /\ mine' = [mine EXCEPT ![d] = @ \cup {[act |-> ActionOf[d], mark |-> "claimed"]}]
            /\ pc' = [pc EXCEPT ![d] = "run"] /\ UNCHANGED result
  /\ UNCHANGED <<active, cached, effect, want, stream, open, audit, ran>>

\* The executor, and the audit row of its outcome.
Execute(d) ==
  /\ pc[d] = "run"
  /\ ran' = ran \cup {d}
  /\ \E f \in {"executed", "failed"} :
       /\ result' = [result EXCEPT ![d] = f]
       /\ mine' = [mine EXCEPT ![d] = @ \cup {[act |-> ActionOf[d], mark |-> f]}]
  /\ pc' = [pc EXCEPT ![d] = "outcome"]
  /\ UNCHANGED <<active, cached, effect, want, stream, open, audit>>

\* execute_tool commits and the caller is answered.
Commit(d) ==
  /\ pc[d] = "commit"
  /\ stream' = stream \cup open[d] /\ open' = [open EXCEPT ![d] = {}]
  /\ audit' = audit \cup mine[d] /\ mine' = [mine EXCEPT ![d] = {}]
  /\ pc' = [pc EXCEPT ![d] = "answered"]
  /\ UNCHANGED <<active, tx, ran>>

-----------------------------------------------------------------------------
(* The environment *)

\* The process dies or loses its connection: the transaction is rolled back.
Crash(d) ==
  /\ pc[d] \in Busy
  /\ open' = [open EXCEPT ![d] = {}] /\ mine' = [mine EXCEPT ![d] = {}]
  /\ pc' = [pc EXCEPT ![d] = "lost"]
  /\ want' = [want EXCEPT ![d] = 0]
  /\ UNCHANGED <<active, cached, effect, result, stream, audit, ran>>

\* finish, recovery or a cancel settles the Attempt in another session.
Settle ==
  /\ active
  /\ active' = FALSE
  /\ UNCHANGED <<pc, tx, stream, open, audit, mine, ran>>

Init ==
  /\ active = TRUE
  /\ pc = [d \in Deliveries |-> "idle"]
  /\ cached = [d \in Deliveries |-> FALSE]
  /\ effect = [d \in Deliveries |-> "deny"]
  /\ result = [d \in Deliveries |-> "denied"]
  /\ want = [d \in Deliveries |-> 0]
  /\ stream = {} /\ open = [d \in Deliveries |-> {}]
  /\ audit = {} /\ mine = [d \in Deliveries |-> {}]
  /\ ran = {}

Emit(d) == EmitRead(d) \/ EmitInsert(d) \/ EmitConflict(d)
Proxy(d) == \/ Arrive(d) \/ Emit(d) \/ Decide(d) \/ LookupExecuted(d) \/ LookupFailed(d)
            \/ ClaimAction(d) \/ Execute(d) \/ Commit(d)
Next == Settle \/ \E d \in Deliveries : Proxy(d) \/ Crash(d)

Spec == Init /\ [][Next]_vars
\* A handler that can go on does: the executor has a timeout, and PostgreSQL
\* wakes a waiting INSERT when the transaction it waits for ends.
Fairness == \A d \in Deliveries : WF_vars(Proxy(d))
FairSpec == Spec /\ Fairness

-----------------------------------------------------------------------------
(* Properties *)

EventType == [kind : Emitting, act : Actions, by : Deliveries \cup Principals,
              word : {"request"} \cup Effects \cup Results]
RowType == [seq : Nat \ {0}, event : EventType]
MarkType == [act : Actions, mark : Marks]

\* Every variable has its type.
TypeOK ==
  /\ active \in BOOLEAN
  /\ pc \in [Deliveries -> {"idle", "answered", "conflict", "lost"} \cup Busy]
  /\ cached \in [Deliveries -> BOOLEAN]
  /\ effect \in [Deliveries -> Effects]
  /\ result \in [Deliveries -> Results]
  /\ want \in [Deliveries -> Nat]
  /\ stream \subseteq RowType /\ open \in [Deliveries -> SUBSET RowType]
  /\ audit \subseteq MarkType /\ mine \in [Deliveries -> SUBSET MarkType]
  /\ ran \subseteq Deliveries

\* The numbering of the stream serialises the deliveries of an Attempt: no two
\* transactions hold events of it that are not committed, though no code locks.
StreamIsSerial ==
  \A d, e \in Deliveries : open[d] # {} /\ open[e] # {} => d = e

\* The executor runs at most once for an action, but for runs whose delivery
\* was lost with its claim (has_event, claim_action and the one commit).
OneStandingRun ==
  \A d, e \in ran : ActionOf[d] = ActionOf[e] /\ pc[d] # "lost" /\ pc[e] # "lost" => d = e

\* A delivery that is refused for its number has not run the executor: the
\* error rolls back a request or a decision and never the record of an effect.
ConflictRanNothing == \A d \in ran : pc[d] # "conflict"

\* The committed stream has each number once and without gaps, and tells of every
\* outcome in order: the request, then this delivery's allow, then the outcome,
\* once; an answered delivery has its own decision on record (ADR 0026).
StreamTellsTheStory ==
  /\ {r.seq : r \in stream} = 1..Cardinality(stream)
  /\ \A o \in stream : o.event.kind = "outcome" =>
       /\ \E q, a \in stream :
            /\ q.seq < a.seq /\ a.seq < o.seq
            /\ q.event.kind = "requested" /\ q.event.act = o.event.act
            /\ a.event.kind = "decided" /\ a.event.word = "allow" /\ a.event.by = o.event.by
       /\ \A p \in stream : p.event.kind = "outcome" /\ p.event.act = o.event.act => p = o
  /\ \A d \in Deliveries : pc[d] = "answered" =>
       \E a \in stream : a.event.kind = "decided" /\ a.event.by = d /\ a.event.word = effect[d]

\* A delivery is answered, refused or lost in the end: no two of them wait for
\* each other's rows.
DeliveryEnds == \A d \in Deliveries : pc[d] \in Busy ~> pc[d] \notin Busy
===============================================================================
