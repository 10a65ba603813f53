-------------------------- MODULE RuntimeSessions --------------------------
(***************************************************************************)
(* The sessions of an agent runtime and their durable events: the          *)
(* RuntimeController of runtime.py over a FakeRuntime, a headless runtime  *)
(* or the HerdrRuntime, and the SqlAlchemyRuntimeEventSink below it.       *)
(*                                                                         *)
(* One Attempt is driven by one process after the other.  In each, a main  *)
(* thread starts, sends, reads, terminates and reconnects, and another may *)
(* cancel meanwhile.  Events are written in a transaction that the caller  *)
(* commits; a crash loses what is not committed, and the controller, the   *)
(* runtime and the transport with it.  What runs in the sandbox goes on.   *)
(***************************************************************************)
EXTENDS Integers, FiniteSets, FiniteSetsExt

CONSTANTS
  Runtimes,     \* the runtimes to consider: "fake", "headless", "herdr"
  Namings,      \* "name": the id is made of the agent's name; "id": it is new
  MaxSessions,  \* bound: session ids
  MaxEvents,    \* bound: events of the Attempt
  MaxRestarts   \* bound: crashes

ASSUME RuntimeAssumption ==
  /\ Runtimes \subseteq {"fake", "headless", "herdr"}
  /\ Namings \subseteq {"name", "id"}
ASSUME BoundAssumption ==
  MaxSessions \in Nat \ {0} /\ MaxEvents \in Nat /\ MaxRestarts \in Nat

Main == "main"
Canceller == "canceller"
Threads == {Main, Canceller}
Sessions == 1 .. MaxSessions   \* 0 stands for no session

VARIABLES
  runtime,    \* the runtime of this system, and how it names sessions
  rows,       \* committed rows of runtime_events
  pending,    \* rows of the open transaction
  ctl,        \* the controller
  mem,        \* the runtime's sessions and bindings: status and pane, 0 for none
  closed,     \* sessions whose environment the runtime has closed
  requested,  \* HerdrRuntime._cancel_requested
  home,       \* the transport still points at the sandbox of the binding
  agents,     \* the panes whose agent process runs
  leaked,     \* history: a provider did not kill a sandbox it was told to kill
  panes,      \* how many panes were created, and the last pane of each session id
  restarts,   \* crashes so far
  call        \* what each thread is doing

vars == <<runtime, rows, pending, ctl, mem, closed, requested, home, agents,
          leaked, panes, restarts, call>>
durable == <<rows, pending>>
world == <<home, agents, leaked>>
fixed == <<runtime, panes, restarts>>

Fake == runtime.kind = "fake"
Headless == runtime.kind = "headless"
Herdr == runtime.kind = "herdr"

\* The sessions that the runtime has: one, since an Attempt has one agent.
Held == {s \in Sessions : mem[s].pane # 0}

Written == rows \cup pending
Stream(s) == {e \in Written : e.sess = s}

\* The highest number of a stream, 0 when it is empty.
LastSequence(s) == Max({e.n : e \in Stream(s)} \cup {0})

(***************************************************************************)
(* What a reader of the stream is told.                                    *)
(***************************************************************************)
Gaps(s) == (1 .. LastSequence(s)) \ {e.n : e \in Stream(s)}

Nobody == [s \in Sessions |-> 0]
Lost == [s \in Sessions |-> [status |-> "none", pane |-> 0]]
\* The Attempt's session, the sessions it has had, the last number of each stream,
\* whether the binding is only recovered, and who superseded whom.
Fresh == [bound |-> 0, known |-> {}, seqs |-> Nobody, unconfirmed |-> FALSE,
          superseded |-> Nobody, keys |-> {}]
Free == [op |-> "none", pc |-> "idle", sess |-> 0, lost |-> FALSE, saw |-> "none",
         out |-> "none"]

Init ==
  /\ runtime \in [kind : Runtimes, naming : Namings]
  /\ runtime.naming = "id" => runtime.kind = "herdr"
  /\ rows = {} /\ pending = {}
  /\ ctl = Fresh
  /\ mem = Lost /\ closed = {} /\ requested = {}
  /\ home = FALSE /\ agents = {} /\ leaked = FALSE
  /\ panes = [n |-> 0, of |-> Nobody]
  /\ restarts = 0
  /\ call = [t \in Threads |-> Free]

-----------------------------------------------------------------------------
(***************************************************************************)
(* _record: the number of the stream is allocated and the row inserted     *)
(* under one lock.  A controller that has not seen the stream asks the     *)
(* database for its last number.                                           *)
(***************************************************************************)
\* Mutant: the sink is asked for the next number, not the last.
NumberedFromNext(s) == IF ctl.seqs[s] # 0 THEN ctl.seqs[s] ELSE LastSequence(s) + 1

Numbered(s) == IF ctl.seqs[s] # 0 THEN ctl.seqs[s] ELSE LastSequence(s)

\* append: the number is taken by an event with other data.
Conflicts(e) == \E x \in Stream(e.sess) : x.n = e.n

Record(c, kind, s, old) ==
  LET e == [sess |-> s, n |-> Numbered(s) + 1, kind |-> kind, old |-> old,
            pane |-> mem[s].pane]
  IN  /\ ~Conflicts(e)
      /\ pending' = pending \cup {e}
      /\ ctl' = [c EXCEPT !.seqs[s] = e.n, !.keys = @ \cup {<<s, e.n>>}]

Return(t) == call' = [call EXCEPT ![t] = Free]
Goes(t, pc) == call' = [call EXCEPT ![t].pc = pc]
\* The runtime's call returns, its event is next.
Answers(t) == call' = [call EXCEPT ![t].pc = "record", ![t].saw = "none", ![t].out = "none"]
Sets(s, status) == mem' = [mem EXCEPT ![s].status = status]
Room == Cardinality(Written) < MaxEvents

\* What Herdr tells of an agent: a completed turn leaves the session as open as a
\* running one.
Reports == {"running", "cancelled", "terminated"}

-----------------------------------------------------------------------------
(***************************************************************************)
(* recover and replay.                                                     *)
(***************************************************************************)
\* The session that the start of a stream says it replaces.
Supersedes(batch) ==
  [s \in Sessions |->
     LET olds == {e.old : e \in {f \in batch : f.sess = s /\ f.kind = "started"}} \ {0}
     IN  IF olds = {} THEN 0 ELSE CHOOSE o \in olds : TRUE]

Generation(sup) ==
  LET depth[s \in Sessions] == IF sup[s] = 0 THEN 0 ELSE 1 + depth[sup[s]]
  IN  depth

\* Mutant: the sessions in the order of their ids.
BeforeById(gen, e, f) == e.sess < f.sess \/ (e.sess = f.sess /\ e.n < f.n)

\* Older sessions first, each in the order of its numbers.
Before(gen, e, f) ==
  \/ gen[e.sess] < gen[f.sess]
  \/ gen[e.sess] = gen[f.sess] /\ e.sess < f.sess
  \/ e.sess = f.sess /\ e.n < f.n

\* The events in that order: each has its place behind the ones before it.
InOrder(batch) ==
  LET gen == Generation(Supersedes(batch))
      ahead(e) == Cardinality({f \in batch : Before(gen, f, e)})
  IN  [i \in 1 .. Cardinality(batch) |-> CHOOSE e \in batch : ahead(e) = i - 1]

RetiredInChain(superseded, s, head) ==
  LET later[x \in Sessions] ==
        IF superseded[x] = 0 THEN {} ELSE {superseded[x]} \cup later[superseded[x]]
  IN  head \in later[s]

\* An event that another binding of the Attempt stands against: replay raises.
Refuses(sup, c, e) ==
  /\ <<e.sess, e.n>> \notin c.keys
  /\ c.bound \notin {0, e.sess} /\ sup[e.sess] # c.bound
  /\ ~RetiredInChain(c.superseded, e.sess, c.bound)

Apply(sup, c, e) ==
  LET rebind == c.bound # e.sess /\ sup[e.sess] = c.bound
      seen == [c EXCEPT !.keys = @ \cup {<<e.sess, e.n>>},
                        !.known = @ \cup {e.sess},
                        !.seqs[e.sess] = IF @ < e.n THEN e.n ELSE @]
  IN  IF <<e.sess, e.n>> \in c.keys THEN c
      ELSE IF c.bound = 0 THEN [seen EXCEPT !.bound = e.sess, !.unconfirmed = TRUE]
      ELSE IF rebind THEN [seen EXCEPT !.bound = e.sess, !.superseded[c.bound] = e.sess]
      ELSE seen

\* Replay ends with the first event that it refuses; what it did before stays.
Takes(sup, replay, e) ==
  IF replay.raised \/ Refuses(sup, replay.ctl, e)
  THEN [ctl |-> replay.ctl, raised |-> TRUE]
  ELSE [ctl |-> Apply(sup, replay.ctl, e), raised |-> FALSE]

Replay(c, batch) ==
  LET sup == Supersedes(batch)
      events == InOrder(batch)
      upto[i \in 0 .. Cardinality(batch)] ==
        IF i = 0 THEN [ctl |-> c, raised |-> FALSE] ELSE Takes(sup, upto[i - 1], events[i])
  IN  upto[Cardinality(batch)].ctl

Recover ==
  /\ call[Main].pc = "idle"
  /\ ctl' = Replay(ctl, Written)
  /\ UNCHANGED <<durable, mem, closed, requested, world, fixed, call>>

(***************************************************************************)
(* start.  A recovered binding is asked for first; KeyError means that the *)
(* runtime has lost it, any other error ends the start.                    *)
(***************************************************************************)
\* What the caller owes and start does not check: where ids are new, it starts
\* an Attempt that has events only after recover.
RecoveredFirst == ctl.known # {} \/ Written = {} \/ runtime.naming = "name"

StartAsks ==
  /\ call[Main].pc = "idle" /\ Room
  /\ RecoveredFirst
  /\ LET s == ctl.bound
         recovered == ctl.unconfirmed /\ s # 0
         asks == recovered /\ s \in Held /\ Herdr /\ s \notin closed
     IN  IF asks
         THEN /\ home
              /\ \E answer \in Reports :
                   call' = [call EXCEPT ![Main] = [Free EXCEPT !.op = "start", !.pc = "told",
                                                               !.sess = s, !.saw = answer]]
         ELSE call' = [call EXCEPT ![Main].op = "start", ![Main].pc = "launch",
                                   ![Main].lost = recovered /\ s \notin Held]
  /\ UNCHANGED <<durable, ctl, mem, closed, requested, world, fixed>>

\* status writes what Herdr told over whatever the status became meanwhile.
StartTold ==
  /\ call[Main].pc = "told"
  /\ Sets(call[Main].sess, call[Main].saw)
  /\ call' = [call EXCEPT ![Main].pc = "launch", ![Main].saw = "none"]
  /\ UNCHANGED <<durable, ctl, closed, requested, world, fixed>>

\* HerdrRuntime.start, HeadlessAgentRuntime.start and FakeRuntime.start: the
\* Attempt's session if there is one, else a new one in a new sandbox.
Launched ==
  IF Herdr \/ Fake THEN "running" ELSE "created"

\* An id that is minted has nothing to do with the order of the sessions.
NewSession == IF runtime.naming = "name" THEN {1} ELSE {s \in Sessions : panes.of[s] = 0}

Returns(s) == call' = [call EXCEPT ![Main].pc = "bind", ![Main].sess = s]

Launch ==
  /\ call[Main].pc = "launch"
  /\ \/ /\ \E s \in Held : Returns(s)
        /\ UNCHANGED <<mem, world, panes>>
     \/ /\ Held = {}
        /\ \E s \in NewSession :
             /\ mem' = [mem EXCEPT ![s] = [status |-> Launched, pane |-> panes.n + 1]]
             /\ panes' = [n |-> panes.n + 1, of |-> [panes.of EXCEPT ![s] = panes.n + 1]]
             /\ Returns(s)
        /\ agents' = IF Headless THEN agents ELSE agents \cup {panes.n + 1}
        /\ home' = TRUE
        /\ UNCHANGED leaked
     \/ /\ Return(Main)
        /\ UNCHANGED <<mem, world, panes>>
  /\ UNCHANGED <<durable, ctl, closed, requested, runtime, restarts>>

\* The locked part: refuse, reattach, or bind and record the start.
Bind ==
  /\ call[Main].pc = "bind"
  /\ LET s == call[Main].sess
         lost == call[Main].lost
         previous == ctl.bound
         different == previous # 0 /\ previous # s
         refused == ctl.superseded[s] # 0 \/ (different /\ ~lost)
         bound == [ctl EXCEPT !.bound = s, !.known = @ \cup {s}, !.unconfirmed = FALSE]
     IN  IF refused THEN UNCHANGED <<ctl, pending>>
         ELSE IF previous # 0 /\ ~lost THEN ctl' = bound /\ UNCHANGED pending
         ELSE IF different
              THEN Record([bound EXCEPT !.superseded[previous] = s], "started", s, previous)
              ELSE Record(bound, "started", s, 0)
  /\ Return(Main)
  /\ UNCHANGED <<rows, mem, closed, requested, world, fixed>>

\* HerdrRuntime.restore_binding from a snapshot that the caller kept, of this or
\* of an older session.  A local Herdr is still there; an E2B transport of a new
\* process has no sandbox.
Snapshots == {s \in Sessions : panes.of[s] # 0}

Restore ==
  /\ Herdr /\ call[Main].pc = "idle"
  /\ Held = {}
  /\ \E s \in Snapshots :
       /\ mem' = [mem EXCEPT ![s] = [status |-> "running", pane |-> panes.of[s]]]
       /\ home' \in {FALSE, panes.of[s] \in agents}
  /\ UNCHANGED <<durable, ctl, closed, requested, agents, leaked, fixed, call>>

-----------------------------------------------------------------------------
(***************************************************************************)
(* Every call begins with _session: the session is registered, is not      *)
(* superseded, and the runtime tells its status.  Herdr asks the sandbox,  *)
(* and writes the answer over whatever the status became meanwhile.        *)
(***************************************************************************)
MainCalls == {"send", "stream", "terminate", "reconnect"}
CallsOf(t) == IF t = Main THEN MainCalls ELSE {"cancel"}

Begins(t, op, s, pc, saw) ==
  call' = [call EXCEPT ![t].op = op, ![t].pc = pc, ![t].sess = s, ![t].saw = saw]

\* Mutant: the runtime's word is enough, superseded or not.
CheckRuntimeOnly(t, op, s) ==
  /\ call[t].pc = "idle" /\ Room /\ op \in CallsOf(t)
  /\ s \in ctl.known /\ s \in Held
  /\ \/ /\ Herdr /\ s \notin closed /\ home
        /\ \E answer \in Reports : Begins(t, op, s, "asked", answer)
     \/ /\ ~Herdr \/ s \in closed
        /\ Begins(t, op, s, "call", "none")
  /\ UNCHANGED <<durable, ctl, mem, closed, requested, world, fixed>>

Check(t, op, s) ==
  /\ call[t].pc = "idle" /\ Room /\ op \in CallsOf(t)
  /\ s \in ctl.known /\ ctl.superseded[s] = 0 /\ s \in Held
  /\ \/ /\ Herdr /\ s \notin closed /\ home
        /\ \E answer \in Reports : Begins(t, op, s, "asked", answer)
     \/ /\ ~Herdr \/ s \in closed
        /\ Begins(t, op, s, "call", "none")
  /\ UNCHANGED <<durable, ctl, mem, closed, requested, world, fixed>>

Asked(t) ==
  /\ call[t].pc = "asked"
  /\ Sets(call[t].sess, call[t].saw)
  /\ call' = [call EXCEPT ![t].pc = "call", ![t].saw = "none"]
  /\ UNCHANGED <<durable, ctl, closed, requested, world, fixed>>

At(t, op, pc) == call[t].op = op /\ call[t].pc = pc
Ended == {"cancelled", "terminated"}
Pane(t) == mem[call[t].sess].pane
Status(t) == mem[call[t].sess].status

(***************************************************************************)
(* send.                                                                   *)
(***************************************************************************)
FakeSend ==
  /\ Fake /\ At(Main, "send", "call")
  /\ Answers(Main)
  /\ UNCHANGED <<mem, agents>>

\* HeadlessAgentRuntime.send: an ended session gets no turn.  Without the
\* sandbox of the workspace the wrapper leaves before the agent starts.
HeadlessSend ==
  /\ Headless /\ At(Main, "send", "call")
  /\ \/ /\ Status(Main) \in Ended
        /\ Answers(Main)
        /\ UNCHANGED <<mem, agents>>
     \/ /\ Status(Main) \notin Ended
        /\ Sets(call[Main].sess, "running")
        /\ agents' = IF home THEN agents \cup {Pane(Main)} ELSE agents
        /\ call' = [call EXCEPT ![Main].pc = "turn", ![Main].saw = Status(Main)]

HerdrSend ==
  /\ Herdr /\ At(Main, "send", "call")
  /\ Goes(Main, "turn")
  /\ UNCHANGED <<mem, agents>>

Send ==
  /\ FakeSend \/ HeadlessSend \/ HerdrSend
  /\ UNCHANGED <<durable, ctl, closed, requested, home, leaked, fixed>>

Ends(pc, out) == call' = [call EXCEPT ![Main].pc = pc, ![Main].out = out]

\* What the turn reports, when there is an agent to report it.
Outcomes == IF Headless THEN {"completed", "terminated", "failed"}
            ELSE Reports

TurnAnswers ==
  /\ At(Main, "send", "turn") /\ home /\ Pane(Main) \in agents
  /\ \E out \in Outcomes : Ends("write", out)
  /\ agents' = IF Headless THEN agents \ {Pane(Main)} ELSE agents
  /\ UNCHANGED <<durable, ctl, mem, closed, requested, home, leaked, fixed>>

\* The sandbox of the transport is killed, or its kill fails.
Kills(killed) ==
  /\ home' = FALSE
  /\ agents' = IF home /\ killed THEN agents \ {mem[s].pane : s \in Held} ELSE agents
  /\ leaked' = (leaked \/ (home /\ ~killed))

\* The turn's command failed, or timed out and the transport was closed.  Herdr
\* looks for a cancellation before it raises, unless the prompt was never sent:
\* _wait_interactive raises at once.
TurnFails ==
  /\ At(Main, "send", "turn")
  /\ UNCHANGED world \/ \E killed \in BOOLEAN : Kills(killed)
  /\ Return(Main) \/ (Herdr /\ Ends("write", "raise"))
  /\ UNCHANGED <<durable, ctl, mem, closed, requested, fixed>>

\* _cancelled_send_result.
LostToCancel(s) == s \in closed \cup requested

HeadlessWrite ==
  /\ Headless /\ At(Main, "send", "write")
  /\ LET out == call[Main].out
     IN  \/ out = "completed" /\ Sets(call[Main].sess, out) /\ Answers(Main)
         \/ out = "terminated" /\ Sets(call[Main].sess, out) /\ Return(Main)
         \/ out = "failed" /\ Sets(call[Main].sess, call[Main].saw) /\ Return(Main)

HerdrWrite ==
  /\ Herdr /\ At(Main, "send", "write")
  /\ LET s == call[Main].sess
         out == call[Main].out
         final == IF Status(Main) \in Ended THEN Status(Main) ELSE "cancelled"
     IN  \/ LostToCancel(s) /\ Sets(s, final) /\ Answers(Main)
         \/ ~LostToCancel(s) /\ out = "raise" /\ Return(Main) /\ UNCHANGED mem
         \/ ~LostToCancel(s) /\ out # "raise" /\ home /\ Goes(Main, "last") /\ UNCHANGED mem
         \/ ~LostToCancel(s) /\ out # "raise" /\ ~home /\ Return(Main) /\ UNCHANGED mem

\* The last write of HerdrRuntime._send comes after its last look.
HerdrLastWrite ==
  /\ Herdr /\ At(Main, "send", "last")
  /\ Sets(call[Main].sess, call[Main].out)
  /\ Answers(Main)

Write ==
  /\ HeadlessWrite \/ HerdrWrite \/ HerdrLastWrite
  /\ UNCHANGED <<durable, ctl, closed, requested, world, fixed>>

(***************************************************************************)
(* stream and reconnect.  HerdrRuntime.stream writes back the status that  *)
(* it read before it asked.                                                *)
(***************************************************************************)
StreamReads ==
  /\ At(Main, "stream", "call")
  /\ \/ Herdr /\ home /\ Ends("read", Status(Main))
     \/ Herdr /\ Return(Main)
     \/ ~Herdr /\ Answers(Main)
  /\ UNCHANGED <<durable, ctl, mem, closed, requested, world, fixed>>

StreamWrites ==
  /\ At(Main, "stream", "read")
  /\ Sets(call[Main].sess, call[Main].out)
  /\ Answers(Main)
  /\ UNCHANGED <<durable, ctl, closed, requested, world, fixed>>

\* A headless runtime does not reconnect; Herdr looks for the agent, and asks for
\* its status.
Reconnect ==
  /\ At(Main, "reconnect", "call")
  /\ \/ Fake /\ ctl' = [ctl EXCEPT !.unconfirmed = FALSE] /\ Answers(Main)
     \/ /\ Herdr /\ home /\ Pane(Main) \in agents
        /\ \E answer \in Reports : Ends("read", answer)
        /\ UNCHANGED ctl
     \/ ~Fake /\ Return(Main) /\ UNCHANGED ctl
  /\ UNCHANGED <<durable, mem, closed, requested, world, fixed>>

\* The answer is written, unless the environment was closed before it was asked.
Reconnected ==
  /\ At(Main, "reconnect", "read")
  /\ ctl' = [ctl EXCEPT !.unconfirmed = FALSE]
  /\ \/ Sets(call[Main].sess, call[Main].out)
     \/ call[Main].sess \in closed /\ UNCHANGED mem
  /\ Answers(Main)
  /\ UNCHANGED <<durable, closed, requested, world, fixed>>

(***************************************************************************)
(* cancel and terminate.  An environment is closed once; a close without a *)
(* sandbox does nothing, and one whose kill fails raises.                  *)
(***************************************************************************)
Claim(t) ==
  /\ At(t, "cancel", "call")
  /\ requested' = IF Herdr THEN requested \cup {call[t].sess} ELSE requested
  /\ Goes(t, "stop")
  /\ UNCHANGED <<durable, ctl, mem, closed, world, fixed>>

Stops(t) == At(t, "cancel", "stop") \/ At(t, "terminate", "call")

\* Nothing to close: a FakeRuntime, or an environment that is closed already.
\* Mutant: the flag of the request is taken for the closed environment.
StoppedWhenRequested(t) ==
  /\ Stops(t)
  /\ \/ /\ Fake /\ agents' = agents \ {Pane(t)}
     \/ /\ Headless /\ call[t].sess \in closed /\ UNCHANGED agents
     \/ /\ Herdr /\ call[t].sess \in requested /\ UNCHANGED agents
  /\ Goes(t, "mark")
  /\ UNCHANGED <<durable, ctl, mem, closed, requested, home, leaked, fixed>>

Stopped(t) ==
  /\ Stops(t)
  /\ \/ /\ Fake /\ agents' = agents \ {Pane(t)}
     \/ /\ Headless /\ call[t].sess \in closed /\ UNCHANGED agents
     \/ /\ Herdr /\ call[t].sess \in closed /\ call[t].op = "terminate" /\ UNCHANGED agents
  /\ Goes(t, "mark")
  /\ UNCHANGED <<durable, ctl, mem, closed, requested, home, leaked, fixed>>

\* The agent is stopped, and the transport's sandbox killed if it has one.
Stop(t) ==
  /\ Stops(t) /\ ~Fake /\ call[t].sess \notin closed
  /\ Herdr => home
  /\ Kills(TRUE)
  /\ closed' = closed \cup {call[t].sess}
  /\ Goes(t, "mark")
  /\ UNCHANGED <<durable, ctl, mem, requested, fixed>>

\* A headless cancel closes the environment whatever its kill command did.
ClosesAnyway(t) ==
  /\ Headless /\ call[t].op = "cancel" /\ call[t].sess \notin closed
  /\ \E killed \in BOOLEAN : Kills(killed)
  /\ closed' = closed \cup {call[t].sess}

\* A command or the kill failed: the call raises.
StopFails(t) ==
  /\ Stops(t) /\ ~Fake
  /\ \/ UNCHANGED <<world, closed>>
     \/ call[t].sess \notin closed /\ Kills(FALSE) /\ UNCHANGED closed
     \/ ClosesAnyway(t)
  /\ requested' = requested \ {s \in {call[t].sess} : call[t].op = "cancel"}
  /\ Return(t)
  /\ UNCHANGED <<durable, ctl, mem, fixed>>

Mark(t) ==
  /\ call[t].pc = "mark"
  /\ LET status == IF call[t].op = "cancel" THEN "cancelled" ELSE "terminated"
     IN  Sets(call[t].sess, status) /\ Answers(t)
  /\ UNCHANGED <<durable, ctl, closed, requested, world, fixed>>

-----------------------------------------------------------------------------
\* input_sent, output_observed and runtime_reconnected are one kind here.
KindOf(op) == CASE op = "cancel" -> "cancelled" [] op = "terminate" -> "terminated"
                [] OTHER -> "observed"

\* The event of a call that returned.
Observe(t) ==
  /\ call[t].pc = "record"
  /\ Record(ctl, KindOf(call[t].op), call[t].sess, 0)
  /\ Return(t)
  /\ UNCHANGED <<rows, mem, closed, requested, world, fixed>>

Commit ==
  /\ pending # {}
  /\ rows' = Written /\ pending' = {}
  /\ UNCHANGED <<ctl, mem, closed, requested, world, fixed, call>>

\* The process dies; an agent in a sandbox may live on or end with its command.
Crash ==
  /\ restarts < MaxRestarts
  /\ restarts' = restarts + 1
  /\ pending' = {} /\ ctl' = Fresh
  /\ mem' = Lost /\ closed' = {} /\ requested' = {} /\ home' = FALSE
  /\ agents' \in IF Fake THEN {{}} ELSE {agents, agents \ {panes.n}}
  /\ call' = [t \in Threads |-> Free]
  /\ UNCHANGED <<rows, leaked, runtime, panes>>

Thread(t) ==
  \/ \E op \in CallsOf(t), s \in Sessions : Check(t, op, s)
  \/ Asked(t) \/ Claim(t) \/ Stopped(t) \/ Stop(t) \/ StopFails(t) \/ Mark(t) \/ Observe(t)

MainThread ==
  \/ Recover \/ StartAsks \/ StartTold \/ Launch \/ Bind \/ Restore
  \/ Send \/ TurnAnswers \/ TurnFails \/ Write
  \/ StreamReads \/ StreamWrites \/ Reconnect \/ Reconnected

Next == MainThread \/ (\E t \in Threads : Thread(t)) \/ Commit \/ Crash

Spec == Init /\ [][Next]_vars

-----------------------------------------------------------------------------
(***************************************************************************)
(* Properties.                                                             *)
(***************************************************************************)
Kinds == {"started", "observed", "cancelled", "terminated"}

Events == [sess : Sessions, n : Nat \ {0}, kind : Kinds, old : Sessions \cup {0}, pane : 1 .. panes.n]
Statuses == {"created", "running", "completed", "cancelled", "terminated"}

\* Every variable has its type, and the runtime has one session at most.
TypeOK ==
  /\ runtime \in [kind : Runtimes, naming : Namings] /\ (runtime.naming = "id" => Herdr)
  /\ rows \subseteq Events /\ pending \subseteq Events
  /\ ctl \in [bound : Sessions \cup {0}, known : SUBSET Sessions, seqs : [Sessions -> Nat],
              unconfirmed : BOOLEAN, superseded : [Sessions -> Sessions \cup {0}],
              keys : SUBSET (Sessions \X Nat)]
  /\ mem \in [Sessions -> [status : Statuses \cup {"none"}, pane : 0 .. panes.n]]
  /\ \A s, u \in Held : s = u
  /\ closed \subseteq Held /\ requested \subseteq Held
  /\ home \in BOOLEAN /\ leaked \in BOOLEAN /\ agents \subseteq 1 .. panes.n
  /\ panes \in [n : Nat, of : [Sessions -> 0 .. panes.n]] /\ restarts \in Nat
  /\ call \in [Threads -> [op : MainCalls \cup {"none", "start", "cancel"},
                           pc : {"idle", "told", "launch", "bind", "asked", "call", "turn", "write", "last",
                                 "read", "stop", "mark", "record"},
                           sess : Sessions \cup {0}, lost : BOOLEAN,
                           saw : Statuses \cup {"none"},
                           out : Statuses \cup {"none", "failed", "raise"}]]

\* The stream of a session has no gap and no number twice, and begins with a
\* start, whatever threads record at the same time, whatever a crash loses and
\* whichever controller goes on (ADR 0029, _record and last_sequence).
StreamIsWhole ==
  \A s \in Sessions : /\ Gaps(s) = {}
                      /\ \A e, f \in Stream(s) : e.n = f.n => e = f
                      /\ \A e \in Stream(s) : e.n = 1 => e.kind = "started"

\* A session that another one has superseded gets no further event: the streams
\* of an Attempt form one chain, and only its last session speaks.
RetiredStaysSilent ==
  [][\A e \in pending' \ pending :
       /\ ~ \E f \in Written : f.old = e.sess
       /\ \A f, g \in Written \cup {e} :
            f.old # 0 /\ f.old = g.old => f.sess = g.sess]_vars

\* The controller that is bound to a session is bound to the one that the
\* recorded chain ends with, and a restart finds the same one.
BindingFollowsTheRecord ==
  LET retired == {e.old : e \in Written}
  IN  /\ ctl.bound # 0 => ctl.bound \in {e.sess : e \in Written} \ retired
      /\ \A s \in {e.sess : e \in Written} \ retired : Replay(Fresh, Written).bound = s

\* An event that says cancelled or terminated is the word of a stopped agent:
\* unless a provider failed to kill a sandbox, the process of that binding runs
\* no more, and no later turn brings it back.
EndedMeansStopped ==
  leaked \/ \A e \in Written : e.kind \in Ended => e.pane \notin agents
=============================================================================
