----------------------------- MODULE Orchestrator -----------------------------
(***************************************************************************)
(* The Go dispatcher (go/internal/orchestrator, go/internal/queue): Start  *)
(* with its idempotency reservation, the Attempt record and the scope it   *)
(* leaves in the Tool Proxy, the bounded queue and its workers, what       *)
(* abandonStart undoes when a start is never queued, ConfirmLive and       *)
(* Close.  A step is what one mutex section, one store call or one channel *)
(* operation does; the goroutines of starts and workers interleave.        *)
(***************************************************************************)
EXTENDS Integers, Sequences, FiniteSets

CONSTANTS Starts,    \* calls of Start; two with one key are a client's retry
          Keys,      \* idempotency keys
          Attempts,  \* attempt ids
          KeyOf,     \* the key of each start
          AttOf,     \* the attempt id of each start
          Workers,   \* goroutines of the worker pool
          Capacity,  \* of the queue's channel
          Flaky      \* environment: a store operation may fail

ASSUME StartAssumption == KeyOf \in [Starts -> Keys] /\ AttOf \in [Starts -> Attempts]
ASSUME QueueAssumption == Capacity \in Nat \ {0}
ASSUME SettingAssumption == Flaky \in BOOLEAN

VARIABLES pc,       \* where each start is
          created,  \* starts whose EnsureAttempt inserted the record
          started,  \* o.started
          meta,     \* o.meta, as the starts whose entry is present
          mode,     \* the Attempt record: "none", "synthetic" or "live"
          scope,    \* Attempts with a SandboxScope
          seen,     \* q.seen
          ch,       \* the queue's channel
          running,  \* the start each worker runs, as a set of at most one
          alive,    \* workers that have not returned
          closing,  \* "open", "closed" (q.closed) or "cancelled" (q.root done)
          runs      \* history: how often the runner was called for a key

book == <<started, meta>>
record == <<mode, scope, created>>
queue == <<seen, ch, running, alive>>
vars == <<pc, created, started, meta, mode, scope, seen, ch, running, alive,
          closing, runs>>

Inside == {"ensure", "register", "enqueue", "send", "unsee", "abandon", "forget", "drop"}

-----------------------------------------------------------------------------
(* Faulty variants of definitions below, one plausible slip each. *)

\* A cancelled caller is told so although the task went into the channel.
SendThenCancelled(s) ==
  /\ pc[s] = "send" /\ Len(ch) < Capacity
  /\ ch' = Append(ch, s)
  /\ pc' = [pc EXCEPT ![s] = "unsee"]
  /\ UNCHANGED <<book, record, seen, running, alive, closing, runs>>
\* A full channel drops the task (a select with a default case).
SendOrDrop(s) ==
  /\ pc[s] = "send"
  /\ ch' = IF Len(ch) < Capacity THEN Append(ch, s) ELSE ch
  /\ pc' = [pc EXCEPT ![s] = "accepted"]
  /\ UNCHANGED <<book, record, seen, running, alive, closing, runs>>

-----------------------------------------------------------------------------
(* Orchestrator.Start *)

\* o.mu: a key in o.started is refused, else it is reserved.
Reserve(s) ==
  /\ pc[s] = "idle"
  /\ IF KeyOf[s] \in started
       THEN pc' = [pc EXCEPT ![s] = "refused"] /\ UNCHANGED book
       ELSE /\ pc' = [pc EXCEPT ![s] = "ensure"]
            /\ started' = started \cup {KeyOf[s]}
            /\ meta' = meta \cup {s}
  /\ UNCHANGED <<record, queue, closing, runs>>

\* EnsureAttempt keeps a record that is there.
EnsureAttempt(s) ==
  /\ pc[s] = "ensure"
  /\ pc' = [pc EXCEPT ![s] = "register"]
  /\ IF mode[AttOf[s]] = "none"
       THEN /\ mode' = [mode EXCEPT ![AttOf[s]] = "synthetic"]
            /\ created' = created \cup {s}
       ELSE UNCHANGED <<mode, created>>
  /\ UNCHANGED <<scope, book, queue, closing, runs>>

EnsureFails(s) ==
  /\ Flaky /\ pc[s] = "ensure"
  /\ pc' = [pc EXCEPT ![s] = "abandon"]
  /\ UNCHANGED <<record, book, queue, closing, runs>>

RegisterScope(s) ==
  /\ pc[s] = "register"
  /\ pc' = [pc EXCEPT ![s] = "enqueue"]
  /\ scope' = scope \cup {AttOf[s]}
  /\ UNCHANGED <<mode, created, book, queue, closing, runs>>

\* Queue.Enqueue up to the select: closed, duplicate, or accepted as seen.
EnqueueCheck(s) ==
  /\ pc[s] = "enqueue"
  /\ IF closing # "open" \/ KeyOf[s] \in seen
       THEN pc' = [pc EXCEPT ![s] = "abandon"] /\ UNCHANGED seen
       ELSE /\ pc' = [pc EXCEPT ![s] = "send"]
            /\ seen' = seen \cup {KeyOf[s]}
  /\ UNCHANGED <<book, record, ch, running, alive, closing, runs>>

\* The select's send; it may win even when the queue is being closed.
EnqueueSend(s) ==
  /\ pc[s] = "send" /\ Len(ch) < Capacity
  /\ ch' = Append(ch, s)
  /\ pc' = [pc EXCEPT ![s] = "accepted"]
  /\ UNCHANGED <<book, record, seen, running, alive, closing, runs>>

\* The select's other cases: the caller's context ends, or the queue's root.
EnqueueCancelled(s) ==
  /\ pc[s] = "send"
  /\ pc' = [pc EXCEPT ![s] = "unsee"]
  /\ UNCHANGED <<book, record, queue, closing, runs>>

EnqueueUnsee(s) ==
  /\ pc[s] = "unsee"
  /\ seen' = seen \ {KeyOf[s]}
  /\ pc' = [pc EXCEPT ![s] = "abandon"]
  /\ UNCHANGED <<book, record, ch, running, alive, closing, runs>>

\* forgetMode, and no other start in o.meta names the Attempt.
ForgetMode(s) == s \in created /\ \A q \in meta \ {s} : AttOf[q] # AttOf[s]

\* abandonStart under o.mu.
Abandon(s) ==
  /\ pc[s] = "abandon"
  /\ started' = started \ {KeyOf[s]}
  /\ meta' = meta \ {s}
  /\ pc' = [pc EXCEPT ![s] = IF ForgetMode(s) THEN "forget" ELSE "refused"]
  /\ UNCHANGED <<record, queue, closing, runs>>

\* ForgetSyntheticAttempt, after o.mu was released.
Forget(s) ==
  /\ pc[s] = "forget"
  /\ mode' = [mode EXCEPT ![AttOf[s]] = IF @ = "synthetic" THEN "none" ELSE @]
  /\ pc' = [pc EXCEPT ![s] = "drop"]
  /\ UNCHANGED <<created, scope, book, queue, closing, runs>>

ForgetFails(s) ==
  /\ Flaky /\ pc[s] = "forget"
  /\ pc' = [pc EXCEPT ![s] = "refused"]
  /\ UNCHANGED <<record, book, queue, closing, runs>>

DropScope(s) ==
  /\ pc[s] = "drop"
  /\ scope' = scope \ {AttOf[s]}
  /\ pc' = [pc EXCEPT ![s] = "refused"]
  /\ UNCHANGED <<mode, created, book, queue, closing, runs>>

\* ConfirmLive: the sandbox side reports a sandbox of a started Attempt.
ConfirmLive(s) ==
  /\ pc[s] = "accepted" /\ mode[AttOf[s]] = "synthetic"
  /\ mode' = [mode EXCEPT ![AttOf[s]] = "live"]
  /\ UNCHANGED <<pc, created, scope, book, queue, closing, runs>>

-----------------------------------------------------------------------------
(* The worker pool and shutdown *)

\* A worker receives a task, possibly after the root was cancelled (the select
\* picks either case), and handleTask calls the runner once (MaxAttempts 1).
Dequeue(w) ==
  /\ w \in alive /\ running[w] = {} /\ ch # <<>>
  /\ running' = [running EXCEPT ![w] = {Head(ch)}]
  /\ ch' = Tail(ch)
  /\ runs' = [runs EXCEPT ![KeyOf[Head(ch)]] = @ + 1]
  /\ UNCHANGED <<pc, book, record, seen, alive, closing>>

\* The runner returns (done, failed, timed out or cancelled); deleteMeta.
HandleTaskReturns(w) ==
  /\ running[w] # {}
  /\ running' = [running EXCEPT ![w] = {}]
  /\ meta' = meta \ running[w]
  /\ UNCHANGED <<pc, started, record, seen, ch, alive, closing, runs>>

\* A worker that waits returns once the root is cancelled; what is left in the
\* channel stays there.
WorkerReturns(w) ==
  /\ w \in alive /\ running[w] = {} /\ closing = "cancelled"
  /\ alive' = alive \ {w}
  /\ UNCHANGED <<pc, book, record, seen, ch, running, closing, runs>>

\* Queue.Close marks the queue and then cancels its root.
Close ==
  /\ closing # "cancelled"
  /\ closing' = IF closing = "open" THEN "closed" ELSE "cancelled"
  /\ UNCHANGED <<pc, book, record, queue, runs>>

-----------------------------------------------------------------------------
Init ==
  /\ pc = [s \in Starts |-> "idle"]
  /\ created = {} /\ started = {} /\ meta = {}
  /\ mode = [t \in Attempts |-> "none"] /\ scope = {}
  /\ seen = {} /\ ch = <<>>
  /\ running = [w \in Workers |-> {}] /\ alive = Workers
  /\ closing = "open"
  /\ runs = [k \in Keys |-> 0]

Start(s) == \/ Reserve(s) \/ EnsureAttempt(s) \/ EnsureFails(s) \/ RegisterScope(s)
            \/ EnqueueCheck(s) \/ EnqueueSend(s) \/ EnqueueCancelled(s) \/ EnqueueUnsee(s)
            \/ Abandon(s) \/ Forget(s) \/ ForgetFails(s) \/ DropScope(s)

Next == \/ \E s \in Starts : Start(s) \/ ConfirmLive(s)
        \/ \E w \in Workers : Dequeue(w) \/ HandleTaskReturns(w) \/ WorkerReturns(w)
        \/ Close

\* Goroutines run on: a worker takes what is in the channel and its runner
\* returns, since handleTask gives it a context with a timeout.
Fairness == \A w \in Workers : WF_vars(Dequeue(w)) /\ WF_vars(HandleTaskReturns(w))

Spec == Init /\ [][Next]_vars
FairSpec == Spec /\ Fairness

-----------------------------------------------------------------------------
(* Properties *)

\* Every variable has its type.
TypeOK ==
  /\ pc \in [Starts -> {"idle", "accepted", "refused"} \cup Inside]
  /\ created \subseteq Starts /\ meta \subseteq Starts
  /\ started \subseteq Keys /\ seen \subseteq Keys
  /\ mode \in [Attempts -> {"none", "synthetic", "live"}]
  /\ scope \subseteq Attempts
  /\ ch \in Seq(Starts)
  /\ running \in [Workers -> SUBSET Starts]
  /\ alive \subseteq Workers
  /\ closing \in {"open", "closed", "cancelled"}
  /\ runs \in [Keys -> Nat]

\* An idempotency key runs at most once however often Start is called with it,
\* is cancelled or is retried (Start, Enqueue and their two sets of keys).
KeyRunsOnce == \A k \in Keys : runs[k] <= 1

\* An accepted start is run in the end, unless the process is shut down.
AcceptedRuns ==
  \A s \in Starts : pc[s] = "accepted" ~> runs[KeyOf[s]] = 1 \/ closing # "open"
===============================================================================
