--------------------------- MODULE LiveRunProofs ---------------------------
(***************************************************************************)
(* Proofs about LiveRun, for every set of requests, every fleet of agents, *)
(* both providers and every number of slots and of kill retries.           *)
(*                                                                         *)
(* The runs of one process share nothing but the slots, so the invariant   *)
(* is one about a single run and its sandboxes (RunInv), and a step of one *)
(* run leaves the others alone.                                            *)
(***************************************************************************)
EXTENDS LiveRun, TLAPS

-----------------------------------------------------------------------------
(* The invariant of one run *)

Fields == {"pc", "agent", "todo", "cur", "stray", "opened", "home", "seen", "tree", "used", "sess",
           "err", "turns", "rows", "mode", "id", "tries", "cleanup", "asked", "result", "ledger"}
BoxType == [alive : BOOLEAN, row : {"creating", "identified", "absent"}]

Early == {"idle", "busy", "stage", "start", "seen", "lost"}
InTurn == {"query", "turn", "sweep", "seenTurn", "meter"}
After == {"observe", "collect"}
Leaving == {"ending", "terminate"}
Over == {"teardown", "retry", "release", "settle", "done"}

Shape(r) ==
  /\ DOMAIN run[r] = Fields
  /\ run[r].pc \in Early \cup InTurn \cup After \cup Leaving \cup Over
  /\ run[r].agent \in HerdrKinds \cup HeadlessKinds
  /\ run[r].cur \in Nat /\ run[r].opened \in BOOLEAN /\ run[r].err \in BOOLEAN
  /\ box[r] \in Seq(BoxType)

\* What is left of the script of a phase: only the end of a run closes the
\* transport, the sweep raises nothing, and a headless run asks for nothing in the
\* phases of Herdr and ignores no answer.
Left(herdr, pc, todo) ==
  /\ pc \in Phases => todo \in Seq({"must", "try", "close"})
  /\ pc \in Phases \ {"terminate"} => todo \in Seq({"must", "try"})
  /\ pc = "sweep" => todo \in Seq({"try"})
  /\ ~herdr /\ pc \in {"query", "sweep", "meter", "observe"} => todo = <<>>
  /\ ~herdr /\ pc \in {"stage", "start", "turn", "collect"} => todo \in Seq({"must"})
  /\ ~herdr /\ pc = "terminate" => todo \in {<<"close">>, <<>>}
Todo(r) == Left(Herdr(r), run[r].pc, run[r].todo)

\* The row of a sandbox that is being made is there before the provider is called.
Fenced(r) ==
  /\ run[r].opened => box[r] # <<>> /\ box[r][Len(box[r])] = [alive |-> FALSE, row |-> "creating"]
  /\ \A i \in DOMAIN box[r] : box[r][i].alive => box[r][i].row # "absent"

\* One turn is sent, and its row is written between the turn and the next phase; a
\* row is missing only where the status of a Herdr session could not be read.
Metered(r) ==
  /\ run[r].pc \in Early => run[r].turns = 0 /\ run[r].rows = <<>> /\ run[r].used = 0
  /\ run[r].pc \in InTurn => run[r].turns = 1 /\ run[r].rows = <<>>
  /\ run[r].pc \in After => run[r].turns = 1 /\ Len(run[r].rows) = 1
  /\ run[r].pc \in Leaving \cup Over =>
       /\ run[r].turns \in {0, 1} /\ Len(run[r].rows) \in {0, run[r].turns}
       /\ ~Herdr(r) \/ ~run[r].err => Len(run[r].rows) = run[r].turns
  /\ \A k \in DOMAIN run[r].rows : run[r].rows[k].source = "reported" <=> run[r].used > 0
  /\ run[r].pc = "done" /\ run[r].result # "raised" => ~run[r].err

\* A headless run that raised nothing has had one sandbox at most, knows it as long
\* as it is open, and has killed it once its transport is closed.
Alone(r) ==
  \/ run[r].cur = 0 /\ ~run[r].opened /\ box[r] = <<>>
  \/ /\ run[r].cur = 0 /\ run[r].opened /\ Len(box[r]) = 1
     /\ run[r].pc \in {"stage", "start", "turn", "collect"} /\ run[r].todo # <<>>
  \/ run[r].cur = 1 /\ ~run[r].opened /\ Len(box[r]) = 1
AllAsked(r) == DOMAIN box[r] \subseteq run[r].asked
IsClosed(r) == run[r].pc \in Over \/ (run[r].pc = "terminate" /\ run[r].todo = <<>>)
Homed(r) ==
  ~Herdr(r) /\ ~run[r].err /\ run[r].pc # "lost" =>
    IF IsClosed(r) THEN AllAsked(r) ELSE run[r].stray = 0 /\ Alone(r)

\* A result is that of a run whose tree was collected.
Brought(r) ==
  /\ run[r].pc \in Early \cup InTurn \cup After => run[r].result = "none"
  /\ run[r].result \in {"completed", "running", "cancelled", "terminated"} => run[r].tree = "agent"

RunInv(r) == Shape(r) /\ Todo(r) /\ Fenced(r) /\ Metered(r) /\ Homed(r) /\ Brought(r)
IInv == /\ DOMAIN box = DOMAIN run /\ provider \in {"e2b", "daytona"}
        /\ \A r \in DOMAIN run : RunInv(r)

-----------------------------------------------------------------------------
(* Scripts *)

\* The scripts are made of these.
LEMMA Pieces ==
  /\ \A S : "must" \in S => <<"must">> \in Seq(S) /\ <<"must", "must">> \in Seq(S)
  /\ \A S : "try" \in S => <<"try">> \in Seq(S)
  /\ \A S : "close" \in S => <<"close">> \in Seq(S)
  /\ \A S : {"must", "try"} \subseteq S =>
       <<"must", "try">> \in Seq(S) /\ HerdrStart \in Seq(S)
  /\ \A S : {"must", "try", "close"} \subseteq S => HerdrTerminate \in Seq(S)
<1>1. ASSUME NEW S, "must" \in S PROVE <<"must">> \in Seq(S) /\ <<"must", "must">> \in Seq(S)
  BY <1>1
<1>2. ASSUME NEW S, "try" \in S PROVE <<"try">> \in Seq(S)
  BY <1>2
<1>3. ASSUME NEW S, "close" \in S PROVE <<"close">> \in Seq(S)
  BY <1>3
<1>4. ASSUME NEW S, NEW a \in Seq(S), NEW b \in Seq(S) PROVE a \o b \in Seq(S)
  OBVIOUS
<1>5. ASSUME NEW S, NEW a \in S, NEW b \in S PROVE <<a, b>> \in Seq(S)
  OBVIOUS
<1>6. ASSUME NEW S, {"must", "try"} \subseteq S PROVE <<"must", "try">> \in Seq(S) /\ HerdrStart \in Seq(S)
  <2>1. <<"must">> \in Seq(S) /\ <<"try">> \in Seq(S) /\ <<"must", "try">> \in Seq(S)
    BY <1>1, <1>2, <1>5, <1>6
  <2>2. QED BY <1>4, <2>1 DEF HerdrStart, HerdrEnrol
<1>7. ASSUME NEW S, {"must", "try", "close"} \subseteq S PROVE HerdrTerminate \in Seq(S)
  <2>1. <<"must">> \in Seq(S) /\ <<"try", "close">> \in Seq(S)
    BY <1>1, <1>5, <1>7
  <2>2. QED BY <1>4, <2>1 DEF HerdrTerminate, HerdrQuiesce
<1>8. QED BY <1>1, <1>2, <1>3, <1>6, <1>7

\* What a phase begins with, for both providers and every kind of agent.
LEMMA ScriptLeft ==
  ASSUME NEW r, NEW phase \in Phases, provider \in {"e2b", "daytona"},
         run[r].agent \in HerdrKinds \cup HeadlessKinds
  PROVE  Left(Herdr(r), phase, Script(r, phase))
<1> DEFINE s == Script(r, phase)
<1>a. StageOf[provider] = <<"must">> /\ CollectOf[provider] = <<"must", "must">>
  BY DEF StageOf, CollectOf, E2BStage, DaytonaStage, E2BCollect, DaytonaCollect
<1>b. /\ StartOf[run[r].agent] \in {HerdrStart, <<"must">>, <<"must", "must">>}
      /\ ~Herdr(r) => StartOf[run[r].agent] \in {<<"must">>, <<"must", "must">>}
  BY DEF Herdr, HerdrKinds, HeadlessKinds, StartOf, HeadlessStart, OpenCodeStart, PiStart
<1>c. ASSUME phase \notin {"terminate", "sweep", "query", "meter", "observe"},
             s \in {<<"must">>, <<"must", "must">>}
      PROVE  Left(Herdr(r), phase, s)
  <2>1. s \in Seq({"must"}) /\ s \in Seq({"must", "try"}) /\ s \in Seq({"must", "try", "close"})
    BY <1>c, Pieces
  <2> HIDE DEF s
  <2>2. QED BY <1>c, <2>1 DEF Left
<1>d. ASSUME Herdr(r), phase # "terminate", s \in Seq({"must", "try"}), s \in Seq({"must", "try", "close"}),
             phase = "sweep" => s \in Seq({"try"})
      PROVE  Left(Herdr(r), phase, s)
  <2> HIDE DEF s
  <2>1. QED BY <1>d DEF Left
<1>1. CASE phase = "stage"
  <2>1. s = StageOf[provider]
    BY <1>1, Zenon DEF Script
  <2>2. QED BY <1>1, <1>a, <1>c, <2>1
<1>2. CASE phase = "start"
  <2>0. phase # "stage"
    BY <1>2
  <2>1. s = StartOf[run[r].agent]
    BY <1>2, <2>0, Zenon DEF Script
  <2>2. CASE ~Herdr(r) \/ s # HerdrStart
    BY <1>2, <1>b, <1>c, <2>1, <2>2
  <2>3. CASE Herdr(r) /\ s = HerdrStart
    BY <1>2, <1>d, <2>3, Pieces
  <2>4. QED BY <2>2, <2>3
<1>3. CASE phase = "turn"
  <2>0. phase # "stage" /\ phase # "start"
    BY <1>3
  <2>1. s = <<"must">>
    BY <1>3, <2>0, Zenon DEF Script
  <2>2. QED BY <1>3, <1>c, <2>1
<1>4. CASE phase = "collect"
  <2>0. phase # "stage" /\ phase # "start" /\ phase # "turn"
    BY <1>4
  <2>1. s = CollectOf[provider]
    BY <1>4, <2>0, Zenon DEF Script
  <2>2. QED BY <1>4, <1>a, <1>c, <2>1
<1>5. CASE phase = "terminate"
  <2>0. phase # "stage" /\ phase # "start" /\ phase # "turn" /\ phase # "collect"
    BY <1>5
  <2>1. s = IF Herdr(r) THEN HerdrTerminate ELSE <<"close">>
    BY <1>5, <2>0, Zenon DEF Script, HeadlessTerminate
  <2>2. s \in Seq({"must", "try", "close"})
    BY <2>1, Pieces
  <2> HIDE DEF s
  <2>3. QED BY <1>5, <2>1, <2>2 DEF s, Left
<1>6. CASE phase \in {"query", "sweep", "meter", "observe"}
  <2>0. phase # "stage" /\ phase # "start" /\ phase # "turn" /\ phase # "collect" /\ phase # "terminate"
    BY <1>6
  <2>1. CASE ~Herdr(r)
    <3>1. s = <<>>
      BY <2>0, <2>1, Zenon DEF Script
    <3> HIDE DEF s
    <3>2. QED BY <1>6, <2>1, <3>1 DEF s, Left, Phases
  <2>2. CASE Herdr(r) /\ phase \in {"query", "observe"}
    <3>1. s = <<"must">>
      BY <2>0, <2>2, Zenon DEF Script
    <3>2. QED BY <1>d, <2>2, <3>1, Pieces
  <2>3. CASE Herdr(r) /\ phase = "sweep"
    <3>0. phase \notin {"query", "observe"}
      BY <2>3
    <3>1. s = <<"try">>
      BY <2>0, <2>3, <3>0, Zenon DEF Script
    <3>2. QED BY <1>d, <2>3, <3>1, Pieces
  <2>4. CASE Herdr(r) /\ phase = "meter"
    <3>0. phase \notin {"query", "observe"} /\ phase # "sweep"
      BY <2>4
    <3>1. s = <<"must", "try">>
      BY <2>0, <2>4, <3>0, Zenon DEF Script
    <3>2. QED BY <1>d, <2>4, <3>1, Pieces
  <2>5. QED BY <1>6, <2>1, <2>2, <2>3, <2>4
<1>7. QED BY <1>1, <1>2, <1>3, <1>4, <1>5, <1>6 DEF Phases

\* A command that was made is taken off.
LEMMA LeftTail ==
  ASSUME NEW herdr \in BOOLEAN, NEW pc \in Phases, NEW todo, Left(herdr, pc, todo), todo # <<>>
  PROVE  Left(herdr, pc, Tail(todo))
<1>1. ASSUME NEW S, todo \in Seq(S) PROVE Tail(todo) \in Seq(S)
  BY <1>1
<1>2. /\ Tail(todo) \in Seq({"must", "try", "close"})
      /\ pc \in Phases \ {"terminate"} => Tail(todo) \in Seq({"must", "try"})
      /\ pc = "sweep" => Tail(todo) \in Seq({"try"})
      /\ ~herdr /\ pc \in {"stage", "start", "turn", "collect"} => Tail(todo) \in Seq({"must"})
  BY <1>1 DEF Left
<1>3. ~herdr /\ pc \in {"query", "sweep", "meter", "observe"} => FALSE
  BY DEF Left
<1>4. ~herdr /\ pc = "terminate" => Tail(todo) = <<>>
  <2>1. Tail(<<"close">>) = <<>>
    OBVIOUS
  <2>2. QED BY <2>1 DEF Left
<1>5. QED BY <1>2, <1>3, <1>4 DEF Left

\* Outside the phases there is nothing to say.
LEMMA LeftOutside ==
  ASSUME NEW herdr, NEW pc, pc \notin Phases, NEW todo
  PROVE  Left(herdr, pc, todo)
BY DEF Left, Phases

-----------------------------------------------------------------------------
(* Changes of a run *)

\* Where an error of a phase leads.
LEMMA RaiseIs ==
  ASSUME NEW r
  PROVE  /\ run[r].pc = "turn" =>
              Raise(r) = [err |-> TRUE] @@ [pc |-> "sweep", todo |-> Script(r, "sweep")]
         /\ run[r].pc \in {"stage", "terminate"} => Raise(r) = [err |-> TRUE] @@ [pc |-> "teardown"]
         /\ run[r].pc = "start" => Raise(r) = [err |-> TRUE] @@ [pc |-> "seen"]
         /\ run[r].pc = "query" => Raise(r) = [err |-> TRUE] @@ [pc |-> "seenTurn"]
         /\ run[r].pc \in {"meter", "observe", "collect"} => Raise(r) = [err |-> TRUE] @@ [pc |-> "ending"]
<1>1. ASSUME NEW h, Handler[run[r].pc] = h, h \notin Phases
      PROVE  Raise(r) = [err |-> TRUE] @@ [pc |-> h]
  BY <1>1 DEF Raise
<1>2. "teardown" \notin Phases /\ "seen" \notin Phases /\ "seenTurn" \notin Phases /\ "ending" \notin Phases
  BY DEF Phases
<1>3. /\ run[r].pc = "turn" => Handler[run[r].pc] = "sweep"
      /\ run[r].pc \in {"stage", "terminate"} => Handler[run[r].pc] = "teardown"
      /\ run[r].pc = "start" => Handler[run[r].pc] = "seen"
      /\ run[r].pc = "query" => Handler[run[r].pc] = "seenTurn"
      /\ run[r].pc \in {"meter", "observe", "collect"} => Handler[run[r].pc] = "ending"
  BY DEF Handler
<1>4. run[r].pc = "turn" => Raise(r) = [err |-> TRUE] @@ [pc |-> "sweep", todo |-> Script(r, "sweep")]
  BY <1>3 DEF Raise, Enter, Phases
<1>5. QED BY <1>1, <1>2, <1>3, <1>4

\* A change is of one run.
LEMMA OneChanges ==
  ASSUME NEW r \in DOMAIN run, NEW c, Becomes(r, c)
  PROVE  DOMAIN run' = DOMAIN run /\ \A q \in DOMAIN run : q # r => run'[q] = run[q]
BY DEF Becomes

\* A change laid over nothing.
LEMMA OverNothing ==
  ASSUME NEW r \in DOMAIN run, NEW c, Becomes(r, c)
  PROVE  Becomes(r, <<>> @@ c)
<1>1. DOMAIN (<<>> @@ c) = DOMAIN c /\ \A x \in DOMAIN c : (<<>> @@ c)[x] = c[x]
  BY DEF @@
<1>2. c @@ run[r] = (<<>> @@ c) @@ run[r]
  <2>1. ASSUME NEW e, DOMAIN e = DOMAIN c, \A x \in DOMAIN c : e[x] = c[x]
        PROVE  c @@ run[r] = e @@ run[r]
    BY <2>1 DEF @@
  <2>2. QED BY <1>1, <2>1
<1>3. QED BY <1>2 DEF Becomes

\* An exception leaves a phase for the clause that handles it.
Thrown(r) ==
  /\ DOMAIN run'[r] = Fields /\ run'[r].err
  /\ run[r].pc = "turn" => run'[r].pc = "sweep" /\ run'[r].todo = Script(r, "sweep")
  /\ run[r].pc \in {"stage", "terminate"} => run'[r].pc = "teardown"
  /\ run[r].pc = "start" => run'[r].pc = "seen"
  /\ run[r].pc = "query" => run'[r].pc = "seenTurn"
  /\ run[r].pc \in {"meter", "observe", "collect"} => run'[r].pc = "ending"
\* What such a change, and an answer, leave alone.
Account(r) == <<run[r].agent, run[r].turns, run[r].rows, run[r].result>>

LEMMA RaiseThrows ==
  ASSUME NEW r \in DOMAIN run, DOMAIN run[r] = Fields, run[r].pc \in Phases \ {"sweep"},
         NEW d, DOMAIN d \subseteq {"cur", "stray", "opened", "sess", "used", "tree"},
         Becomes(r, d @@ Raise(r))
  PROVE  Thrown(r) /\ UNCHANGED Account(r)
<1>1. ASSUME NEW h, Raise(r) = [err |-> TRUE] @@ [pc |-> h]
      PROVE  /\ DOMAIN run'[r] = Fields /\ run'[r].err /\ run'[r].pc = h /\ run'[r].agent = run[r].agent
             /\ run'[r].turns = run[r].turns /\ run'[r].rows = run[r].rows /\ run'[r].result = run[r].result
  BY <1>1 DEF Becomes, @@, Fields
<1>2. ASSUME NEW s, Raise(r) = [err |-> TRUE] @@ [pc |-> "sweep", todo |-> s]
      PROVE  /\ DOMAIN run'[r] = Fields /\ run'[r].err /\ run'[r].pc = "sweep" /\ run'[r].todo = s
             /\ run'[r].agent = run[r].agent /\ run'[r].turns = run[r].turns
             /\ run'[r].rows = run[r].rows /\ run'[r].result = run[r].result
  BY <1>2 DEF Becomes, @@, Fields
<1>3. UNCHANGED Account(r)
  BY <1>1, <1>2, RaiseIs DEF Account, Phases
<1>4. QED BY <1>1, <1>2, <1>3, RaiseIs DEF Thrown, Phases

\* The other fields are those of the change, or as they were.
LEMMA RaiseElse ==
  ASSUME NEW r \in DOMAIN run, DOMAIN run[r] = Fields, run[r].pc \in Phases \ {"sweep"},
         NEW d, DOMAIN d \subseteq {"cur", "stray", "opened", "sess", "used", "tree"},
         Becomes(r, d @@ Raise(r)),
         NEW x \in {"cur", "stray", "opened", "used", "tree"}
  PROVE  run'[r][x] = IF x \in DOMAIN d THEN d[x] ELSE run[r][x]
<1>1. ASSUME NEW h, Raise(r) = [err |-> TRUE] @@ [pc |-> h]
      PROVE  run'[r][x] = IF x \in DOMAIN d THEN d[x] ELSE run[r][x]
  BY <1>1 DEF Becomes, @@, Fields
<1>2. ASSUME NEW s, Raise(r) = [err |-> TRUE] @@ [pc |-> "sweep", todo |-> s]
      PROVE  run'[r][x] = IF x \in DOMAIN d THEN d[x] ELSE run[r][x]
  BY <1>2 DEF Becomes, @@, Fields
<1>3. QED BY <1>1, <1>2, RaiseIs DEF Phases

-----------------------------------------------------------------------------
(* What keeps the invariant *)

\* A step of one run leaves the others alone.
LEMMA OthersKeep ==
  ASSUME IInv, NEW r \in DOMAIN run, DOMAIN run' = DOMAIN run, DOMAIN box' = DOMAIN box,
         UNCHANGED provider,
         \A q \in DOMAIN run : q # r => run'[q] = run[q] /\ box'[q] = box[q],
         RunInv(r)'
  PROVE  IInv'
<1>1. ASSUME NEW q \in DOMAIN run, q # r PROVE RunInv(q)'
  <2>1. RunInv(q) /\ run'[q] = run[q] /\ box'[q] = box[q]
    BY <1>1 DEF IInv
  <2>2. Shape(q)' /\ Fenced(q)' /\ Brought(q)'
    BY <2>1 DEF RunInv, Shape, Fenced, Brought
  <2>3. Todo(q)' /\ Metered(q)'
    BY <2>1 DEF RunInv, Todo, Metered, Herdr
  <2>4. Homed(q)'
    BY <2>1 DEF RunInv, Homed, Herdr, Alone, AllAsked, IsClosed
  <2>5. QED BY <2>2, <2>3, <2>4 DEF RunInv
<1>2. \A q \in DOMAIN run' : RunInv(q)'
  BY <1>1
<1>3. QED BY <1>2 DEF IInv

\* Sandboxes that only die keep their fence.
Fades(r) ==
  /\ box'[r] \in Seq(BoxType) /\ Len(box'[r]) = Len(box[r])
  /\ \A i \in 1 .. Len(box[r]) : /\ box'[r][i].row = box[r][i].row
                                 /\ box'[r][i].alive => box[r][i].alive
LEMMA FadeKeeps ==
  ASSUME NEW r, box[r] \in Seq(BoxType), Fenced(r), Fades(r), run'[r].opened => run[r].opened
  PROVE  Fenced(r)' /\ (AllAsked(r) /\ run[r].asked \subseteq run'[r].asked => AllAsked(r)')
<1>1. DOMAIN box'[r] = 1 .. Len(box[r]) /\ DOMAIN box[r] = 1 .. Len(box[r])
  BY DEF Fades
<1>2. \A i \in 1 .. Len(box[r]) : box[r][i] \in BoxType /\ box'[r][i] \in BoxType
  BY <1>1 DEF Fades
<1>3. ASSUME run'[r].opened
      PROVE  box'[r] # <<>> /\ box'[r][Len(box'[r])] = [alive |-> FALSE, row |-> "creating"]
  <2>1. box[r] # <<>> /\ box[r][Len(box[r])] = [alive |-> FALSE, row |-> "creating"]
    BY <1>3 DEF Fenced
  <2>2. Len(box[r]) \in 1 .. Len(box[r]) /\ box'[r] # <<>>
    BY <1>1, <2>1
  <2>3. box'[r][Len(box[r])] \in BoxType /\ ~box'[r][Len(box[r])].alive
        /\ box'[r][Len(box[r])].row = "creating"
    BY <1>2, <2>1, <2>2 DEF Fades
  <2>4. \A b \in BoxType : ~b.alive /\ b.row = "creating" => b = [alive |-> FALSE, row |-> "creating"]
    BY DEF BoxType
  <2>5. QED BY <2>2, <2>3, <2>4 DEF Fades
<1>4. \A i \in DOMAIN box'[r] : box'[r][i].alive => box'[r][i].row # "absent"
  BY <1>1 DEF Fades, Fenced
<1>5. AllAsked(r) /\ run[r].asked \subseteq run'[r].asked => AllAsked(r)'
  BY <1>1 DEF AllAsked
<1>6. QED BY <1>3, <1>4, <1>5 DEF Fenced

LEMMA StillFades ==
  ASSUME NEW r, box[r] \in Seq(BoxType), box'[r] = box[r]
  PROVE  Fades(r)
BY DEF Fades

\* One sandbox of a run is replaced.
Replaced(b, i, v, c) == c = [b EXCEPT ![i] = v]
LEMMA BoxSet ==
  ASSUME NEW b \in Seq(BoxType), NEW i, NEW c, NEW v, Replaced(b, i, v, c),
         i \in DOMAIN b => v \in BoxType
  PROVE  /\ c \in Seq(BoxType) /\ Len(c) = Len(b)
         /\ \A k \in 1 .. Len(b) : c[k] = IF k = i THEN v ELSE b[k]
<1>1. b \in [1 .. Len(b) -> BoxType] /\ Len(b) \in Nat
  OBVIOUS
<1>2. DOMAIN c = 1 .. Len(b) /\ \A k \in 1 .. Len(b) : c[k] = IF k = i THEN v ELSE b[k]
  BY <1>1 DEF Replaced
<1>3. c \in [1 .. Len(b) -> BoxType]
  BY <1>1 DEF Replaced
<1>4. QED BY <1>1, <1>2, <1>3

LEMMA DeadFades ==
  ASSUME NEW r \in DOMAIN box, box[r] \in Seq(BoxType), NEW i, box' = Dead(r, i)
  PROVE  /\ DOMAIN box' = DOMAIN box /\ \A q \in DOMAIN box : q # r => box'[q] = box[q]
         /\ Fades(r)
<1> DEFINE v == [box[r][i] EXCEPT !.alive = FALSE]
<1>1. /\ DOMAIN box' = DOMAIN box /\ \A q \in DOMAIN box : q # r => box'[q] = box[q]
      /\ box'[r] = [box[r] EXCEPT ![i] = v]
  BY DEF Dead
<1>2. i \in DOMAIN box[r] => v \in BoxType /\ v.row = box[r][i].row /\ ~v.alive
  <2>1. ASSUME NEW b \in BoxType
        PROVE  LET w == [b EXCEPT !.alive = FALSE] IN w \in BoxType /\ w.row = b.row /\ ~w.alive
    BY DEF BoxType
  <2>2. i \in DOMAIN box[r] => box[r][i] \in BoxType
    OBVIOUS
  <2>3. QED BY <2>1, <2>2
<1> HIDE DEF v
<1>3. /\ box'[r] \in Seq(BoxType) /\ Len(box'[r]) = Len(box[r])
      /\ \A k \in 1 .. Len(box[r]) : box'[r][k] = IF k = i THEN v ELSE box[r][k]
  <2>1. i \in DOMAIN box[r] => v \in BoxType
    BY <1>2
  <2>2. Replaced(box[r], i, v, box'[r])
    BY <1>1 DEF Replaced
  <2>3. QED BY <2>1, <2>2, BoxSet
<1>4. QED BY <1>1, <1>2, <1>3 DEF Fades

LEMMA KillFades ==
  ASSUME NEW r \in DOMAIN box, box[r] \in Seq(BoxType), NEW i, box' \in Kill(r, i)
  PROVE  /\ DOMAIN box' = DOMAIN box /\ \A q \in DOMAIN box : q # r => box'[q] = box[q]
         /\ Fades(r)
<1>1. CASE box' = box
  BY <1>1, StillFades
<1>2. QED BY <1>1, DeadFades DEF Kill

\* An exception leaves the phase: what the run has accounted for stays.
LEMMA ThrowKeeps ==
  ASSUME NEW r, RunInv(r), provider \in {"e2b", "daytona"},
         run[r].pc \in Phases \ {"sweep"}, run[r].pc = "meter" => Herdr(r),
         Thrown(r), UNCHANGED <<Account(r), provider>>,
         run'[r].cur \in Nat, run'[r].opened \in BOOLEAN,
         run'[r].used = run[r].used \/ run[r].pc = "turn",
         run'[r].tree = run[r].tree \/ run[r].pc = "collect",
         box'[r] \in Seq(BoxType), Fenced(r)'
  PROVE  RunInv(r)'
<1>a. /\ run'[r].agent = run[r].agent /\ run'[r].turns = run[r].turns /\ run'[r].rows = run[r].rows
      /\ run'[r].result = run[r].result /\ run'[r].err /\ Herdr(r)' = Herdr(r) /\ Herdr(r) \in BOOLEAN
  BY DEF Account, Thrown, Herdr
<1>b. /\ run'[r].pc \in {"sweep", "teardown", "seen", "seenTurn", "ending"}
      /\ run[r].pc \in {"stage", "start", "query", "turn", "meter", "observe", "collect", "terminate"}
  BY DEF Thrown, Phases
<1>1. Shape(r)'
  BY <1>a, <1>b DEF RunInv, Shape, Thrown, Early, InTurn, After, Leaving, Over
<1>2. Todo(r)'
  <2>1. CASE run[r].pc = "turn"
    <3>1. Left(Herdr(r), "sweep", Script(r, "sweep"))
      BY ScriptLeft DEF RunInv, Shape, Phases
    <3>2. run'[r].pc = "sweep" /\ run'[r].todo = Script(r, "sweep")
      BY <2>1 DEF Thrown
    <3>3. QED BY <1>a, <3>1, <3>2 DEF Todo
  <2>2. CASE run[r].pc # "turn"
    <3>1. run'[r].pc \notin Phases
      BY <1>b, <2>2 DEF Thrown, Phases
    <3>2. QED BY <3>1, LeftOutside DEF Todo
  <2>3. QED BY <2>1, <2>2
<1>3. Metered(r)'
  <2>1. CASE run[r].pc = "turn"
    <3>1. run'[r].pc = "sweep" /\ run[r].turns = 1 /\ run[r].rows = <<>>
      BY <2>1 DEF RunInv, Metered, InTurn, Thrown
    <3>2. QED BY <1>a, <3>1 DEF Metered, Early, InTurn, After, Leaving, Over
  <2>2. CASE run[r].pc = "query"
    <3>1. run'[r].pc = "seenTurn" /\ run[r].turns = 1 /\ run[r].rows = <<>>
      BY <2>2 DEF RunInv, Metered, InTurn, Thrown
    <3>2. QED BY <1>a, <3>1 DEF Metered, Early, InTurn, After, Leaving, Over
  <2>3. CASE run[r].pc = "start"
    <3>1. run'[r].pc = "seen" /\ run[r].turns = 0 /\ run[r].rows = <<>> /\ run'[r].used = 0
      BY <2>3 DEF RunInv, Metered, Early, Thrown
    <3>2. QED BY <1>a, <3>1 DEF Metered, Early, InTurn, After, Leaving, Over
  <2>4. CASE run[r].pc = "stage"
    <3>1. run'[r].pc = "teardown" /\ run[r].turns = 0 /\ run[r].rows = <<>>
      BY <2>4 DEF RunInv, Metered, Early, Thrown
    <3>2. QED BY <1>a, <3>1 DEF Metered, Early, InTurn, After, Leaving, Over
  <2>5. CASE run[r].pc = "meter"
    <3>1. run'[r].pc = "ending" /\ run[r].turns = 1 /\ run[r].rows = <<>> /\ Herdr(r)
      BY <2>5 DEF RunInv, Metered, InTurn, Thrown
    <3>2. QED BY <1>a, <3>1 DEF Metered, Early, InTurn, After, Leaving, Over
  <2>6. CASE run[r].pc \in {"observe", "collect"}
    <3>1. /\ run'[r].pc = "ending" /\ run[r].turns = 1 /\ Len(run[r].rows) = 1 /\ run'[r].used = run[r].used
          /\ \A k \in DOMAIN run[r].rows : run[r].rows[k].source = "reported" <=> run[r].used > 0
      BY <2>6 DEF RunInv, Metered, After, Thrown
    <3>2. QED BY <1>a, <3>1 DEF Metered, Early, InTurn, After, Leaving, Over
  <2>7. CASE run[r].pc = "terminate"
    <3>1. /\ run'[r].pc = "teardown" /\ run[r].turns \in {0, 1} /\ Len(run[r].rows) \in {0, run[r].turns}
          /\ ~Herdr(r) \/ ~run[r].err => Len(run[r].rows) = run[r].turns
          /\ run'[r].used = run[r].used
          /\ \A k \in DOMAIN run[r].rows : run[r].rows[k].source = "reported" <=> run[r].used > 0
      BY <2>7 DEF RunInv, Metered, Leaving, Thrown
    <3>2. QED BY <1>a, <3>1 DEF Metered, Early, InTurn, After, Leaving, Over
  <2>8. QED BY <1>b, <2>1, <2>2, <2>3, <2>4, <2>5, <2>6, <2>7
<1>4. Homed(r)'
  BY <1>a DEF Homed
<1>5. Brought(r)'
  <2>1. run[r].pc # "terminate" => run[r].result = "none"
    BY <1>b DEF RunInv, Brought, Early, InTurn, After
  <2>2. run[r].pc = "terminate" => run'[r].pc = "teardown" /\ run'[r].tree = run[r].tree
    BY DEF Thrown
  <2>3. QED BY <1>a, <2>1, <2>2 DEF RunInv, Brought, Early, InTurn, After
<1>6. QED BY <1>1, <1>2, <1>3, <1>4, <1>5 DEF RunInv

\* A command is made, or prepared, within its phase.
Within(r) ==
  /\ DOMAIN run'[r] = Fields /\ run'[r].pc = run[r].pc
  /\ run'[r].err = run[r].err /\ run'[r].tree = run[r].tree
  /\ run'[r].todo = run[r].todo \/ run'[r].todo = Tail(run[r].todo)
LEMMA WithinKeeps ==
  ASSUME NEW r, RunInv(r), run[r].pc \in Phases, run[r].todo # <<>>,
         Within(r), UNCHANGED Account(r),
         run'[r].cur \in Nat, run'[r].opened \in BOOLEAN,
         run'[r].used = run[r].used \/ run[r].pc \in {"meter", "turn"},
         box'[r] \in Seq(BoxType), Fenced(r)', Homed(r)'
  PROVE  RunInv(r)'
<1>a. /\ run'[r].agent = run[r].agent /\ run'[r].turns = run[r].turns /\ run'[r].rows = run[r].rows
      /\ run'[r].result = run[r].result /\ Herdr(r)' = Herdr(r) /\ Herdr(r) \in BOOLEAN
  BY DEF Account, Herdr
<1>1. Shape(r)'
  BY <1>a DEF RunInv, Shape, Within
<1>2. Todo(r)'
  <2>1. Left(Herdr(r), run[r].pc, run[r].todo) /\ Left(Herdr(r), run[r].pc, Tail(run[r].todo))
    BY <1>a, LeftTail DEF RunInv, Todo
  <2>2. QED BY <1>a, <2>1 DEF Todo, Within
<1>3. Metered(r)'
  <2>1. CASE run'[r].used = run[r].used
    BY <1>a, <2>1 DEF RunInv, Metered, Within
  <2>2. CASE run[r].pc \in {"meter", "turn"}
    <3>1. run[r].turns = 1 /\ run[r].rows = <<>>
      BY <2>2 DEF RunInv, Metered, InTurn
    <3>2. QED BY <1>a, <2>2, <3>1 DEF Metered, Within, Early, InTurn, After, Leaving, Over
  <2>3. QED BY <2>1, <2>2
<1>4. Brought(r)'
  BY <1>a DEF RunInv, Brought, Within
<1>5. QED BY <1>1, <1>2, <1>3, <1>4 DEF RunInv

\* The next command's turn has come.
LEMMA TodoMoves ==
  ASSUME NEW r \in DOMAIN run, DOMAIN run[r] = Fields, NEW t,
         NEW d, DOMAIN d \subseteq {"cur", "stray", "opened", "home", "used", "sess", "asked"},
         Becomes(r, d @@ [todo |-> t])
  PROVE  /\ DOMAIN run'[r] = Fields /\ run'[r].pc = run[r].pc /\ run'[r].err = run[r].err
         /\ run'[r].tree = run[r].tree /\ run'[r].todo = t
         /\ run'[r].agent = run[r].agent /\ run'[r].turns = run[r].turns /\ run'[r].rows = run[r].rows
         /\ run'[r].result = run[r].result
         /\ \A x \in {"cur", "stray", "opened", "used", "asked"} :
              run'[r][x] = IF x \in DOMAIN d THEN d[x] ELSE run[r][x]
<1>1. /\ DOMAIN run'[r] = Fields /\ run'[r].pc = run[r].pc /\ run'[r].err = run[r].err
      /\ run'[r].tree = run[r].tree /\ run'[r].todo = t
      /\ run'[r].agent = run[r].agent /\ run'[r].turns = run[r].turns /\ run'[r].rows = run[r].rows
      /\ run'[r].result = run[r].result
  BY DEF Becomes, @@, Fields
<1>2. ASSUME NEW x \in {"cur", "stray", "opened", "used", "asked"}
      PROVE  run'[r][x] = IF x \in DOMAIN d THEN d[x] ELSE run[r][x]
  BY DEF Becomes, @@, Fields
<1>3. QED BY <1>1, <1>2

LEMMA DoneMoves ==
  ASSUME NEW r \in DOMAIN run, DOMAIN run[r] = Fields,
         NEW d, DOMAIN d \subseteq {"cur", "stray", "opened", "home", "used", "sess", "asked"},
         Becomes(r, d @@ Done(r))
  PROVE  /\ Within(r) /\ UNCHANGED Account(r) /\ run'[r].todo = Tail(run[r].todo)
         /\ \A x \in {"cur", "stray", "opened", "used", "asked"} :
              run'[r][x] = IF x \in DOMAIN d THEN d[x] ELSE run[r][x]
<1>1. PICK t : t = Tail(run[r].todo)
  OBVIOUS
<1>2. Becomes(r, d @@ [todo |-> t])
  BY <1>1 DEF Done
<1>3. /\ DOMAIN run'[r] = Fields /\ run'[r].pc = run[r].pc /\ run'[r].err = run[r].err
      /\ run'[r].tree = run[r].tree /\ run'[r].todo = t
      /\ run'[r].agent = run[r].agent /\ run'[r].turns = run[r].turns /\ run'[r].rows = run[r].rows
      /\ run'[r].result = run[r].result
      /\ \A x \in {"cur", "stray", "opened", "used", "asked"} :
           run'[r][x] = IF x \in DOMAIN d THEN d[x] ELSE run[r][x]
  BY <1>2, TodoMoves
<1>4. QED BY <1>1, <1>3 DEF Within, Account

\* A command that fails is passed over or raises.
LEMMA FailedKeeps ==
  ASSUME IInv, NEW r \in DOMAIN run, Calls(r), UNCHANGED provider,
         NEW d, DOMAIN d \subseteq {"cur", "stray", "opened"}, Becomes(r, d @@ Failed(r)),
         "cur" \in DOMAIN d => d["cur"] \in Nat, "opened" \in DOMAIN d => d["opened"] = FALSE,
         box'[r] \in Seq(BoxType), Fenced(r)'
  PROVE  RunInv(r)'
<1>a. RunInv(r) /\ DOMAIN run[r] = Fields /\ provider \in {"e2b", "daytona"}
  BY DEF IInv, RunInv, Shape
<1>b. run[r].pc \in Phases /\ run[r].todo # <<>> /\ Left(Herdr(r), run[r].pc, run[r].todo)
  BY <1>a DEF Calls, Command, RunInv, Todo
<1>1. CASE Head(run[r].todo) = "try"
  <2>1. Becomes(r, d @@ Done(r))
    BY <1>1 DEF Failed
  <2>2. Within(r) /\ UNCHANGED Account(r)
    BY <1>a, <2>1, DoneMoves
  <2>3. /\ run'[r]["cur"] = IF "cur" \in DOMAIN d THEN d["cur"] ELSE run[r]["cur"]
        /\ run'[r]["opened"] = IF "opened" \in DOMAIN d THEN d["opened"] ELSE run[r]["opened"]
        /\ run'[r]["used"] = run[r]["used"]
    BY <1>a, <2>1, DoneMoves
  <2>4. run'[r].cur \in Nat /\ run'[r].opened \in BOOLEAN
    BY <1>a, <2>3 DEF RunInv, Shape
  <2>5. Herdr(r)
    <3>1. CASE run[r].todo \in Seq({"must"})
      BY <1>1, <1>b, <3>1
    <3>2. CASE run[r].todo = <<"close">>
      BY <1>1, <3>2
    <3>3. QED BY <1>b, <3>1, <3>2 DEF Left, Phases
  <2>6. Homed(r)'
    BY <2>2, <2>5 DEF Homed, Herdr, Account
  <2>7. QED BY <1>a, <1>b, <2>2, <2>3, <2>4, <2>6, WithinKeeps
<1>2. CASE Head(run[r].todo) # "try"
  <2>1. Becomes(r, d @@ Raise(r))
    BY <1>2 DEF Failed
  <2>2. run[r].pc # "sweep"
    <3>1. CASE run[r].todo \in Seq({"try"})
      BY <1>2, <1>b, <3>1
    <3>2. QED BY <1>b, <3>1 DEF Left
  <2>3. run[r].pc = "meter" => Herdr(r)
    BY <1>b DEF Left
  <2>4. Thrown(r) /\ UNCHANGED Account(r)
    BY <1>a, <1>b, <2>1, <2>2, RaiseThrows
  <2>5. /\ run'[r]["cur"] = IF "cur" \in DOMAIN d THEN d["cur"] ELSE run[r]["cur"]
        /\ run'[r]["opened"] = IF "opened" \in DOMAIN d THEN d["opened"] ELSE run[r]["opened"]
        /\ run'[r]["used"] = run[r]["used"] /\ run'[r]["tree"] = run[r]["tree"]
    BY <1>a, <1>b, <2>1, <2>2, RaiseElse
  <2>6. run'[r].cur \in Nat /\ run'[r].opened \in BOOLEAN
    BY <1>a, <2>5 DEF RunInv, Shape
  <2>7. QED BY <1>a, <1>b, <2>2, <2>3, <2>4, <2>5, <2>6, ThrowKeeps
<1>3. QED BY <1>1, <1>2

-----------------------------------------------------------------------------
(* The transport *)

\* A request that is refused before it has a sandbox.
LEMMA RefuseKeeps ==
  ASSUME IInv, NEW r \in DOMAIN run, Refuse(r) \/ RefuseConfig(r)
  PROVE  IInv'
<1>a. /\ run[r].pc = "stage" /\ Becomes(r, Raise(r)) /\ UNCHANGED <<box, provider>>
      /\ RunInv(r) /\ DOMAIN run[r] = Fields
  BY DEF Refuse, RefuseConfig, At, Local, Idle, IInv, RunInv, Shape
<1>b. Becomes(r, <<>> @@ Raise(r)) /\ DOMAIN <<>> = {} /\ "stage" \in Phases \ {"sweep"}
  BY <1>a, OverNothing DEF Phases
<1>c. Thrown(r) /\ UNCHANGED Account(r)
  BY <1>a, <1>b, RaiseThrows
<1>d. /\ run'[r]["cur"] = run[r]["cur"] /\ run'[r]["opened"] = run[r]["opened"]
      /\ run'[r]["used"] = run[r]["used"] /\ run'[r]["tree"] = run[r]["tree"]
  BY <1>a, <1>b, RaiseElse
<1>e. /\ run'[r].cur \in Nat /\ run'[r].opened \in BOOLEAN
      /\ box'[r] \in Seq(BoxType)
  BY <1>a, <1>d DEF RunInv, Shape
<1>f. Fenced(r)'
  BY <1>a, <1>d DEF RunInv, Fenced
<1>1. RunInv(r)'
  BY <1>a, <1>b, <1>c, <1>d, <1>e, <1>f, ThrowKeeps DEF IInv
<1>2. QED BY <1>1, <1>a, OneChanges, OthersKeep

\* While a headless run that has raised nothing calls its transport, the transport
\* is open and knows its only sandbox.
LEMMA CallIsOpen ==
  ASSUME NEW r, RunInv(r), Calls(r), ~Herdr(r)
  PROVE  /\ run[r].pc \in {"stage", "start", "turn", "collect"} /\ Head(run[r].todo) = "must"
         /\ ~run[r].err => run[r].stray = 0 /\ Alone(r)
<1>1. /\ run[r].pc \in Phases /\ run[r].todo # <<>> /\ Head(run[r].todo) \in {"must", "try"}
      /\ Left(Herdr(r), run[r].pc, run[r].todo)
  BY DEF Calls, Command, RunInv, Todo
<1>2. Head(<<"close">>) = "close"
  OBVIOUS
<1>3. run[r].pc \in {"stage", "start", "turn", "collect"} /\ run[r].todo \in Seq({"must"})
  BY <1>1, <1>2 DEF Left, Phases
<1>4. Head(run[r].todo) = "must"
  BY <1>1, <1>3
<1>5. ~IsClosed(r) /\ run[r].pc # "lost"
  BY <1>3 DEF IsClosed, Over
<1>6. QED BY <1>3, <1>4, <1>5 DEF RunInv, Homed

LEMMA FenceKeeps ==
  ASSUME IInv, NEW r \in DOMAIN run, Fence(r)
  PROVE  IInv'
<1> DEFINE e == [alive |-> FALSE, row |-> "creating"]
<1>a. /\ Calls(r) /\ run[r].cur = 0 /\ run[r].stray = 0 /\ ~run[r].opened
      /\ box' = [box EXCEPT ![r] = Append(@, e)] /\ Becomes(r, [opened |-> TRUE]) /\ UNCHANGED provider
      /\ RunInv(r) /\ DOMAIN run[r] = Fields /\ box[r] \in Seq(BoxType) /\ r \in DOMAIN box
  BY DEF Fence, Idle, IInv, RunInv, Shape
<1>b. /\ DOMAIN run'[r] = Fields /\ run'[r].pc = run[r].pc /\ run'[r].err = run[r].err
      /\ run'[r].tree = run[r].tree /\ run'[r].todo = run[r].todo /\ run'[r].used = run[r].used
      /\ run'[r].agent = run[r].agent /\ run'[r].turns = run[r].turns /\ run'[r].rows = run[r].rows
      /\ run'[r].result = run[r].result /\ run'[r].cur = run[r].cur /\ run'[r].stray = run[r].stray
      /\ run'[r].opened
  BY <1>a DEF Becomes, @@, Fields
<1>c. /\ DOMAIN box' = DOMAIN box /\ \A q \in DOMAIN box : q # r => box'[q] = box[q]
      /\ box'[r] = Append(box[r], e)
  BY <1>a
<1>d. e \in BoxType /\ ~e.alive
  BY DEF BoxType
<1> HIDE DEF e
<1>e. /\ box'[r] \in Seq(BoxType) /\ Len(box'[r]) = Len(box[r]) + 1 /\ box'[r][Len(box[r]) + 1] = e
      /\ \A i \in 1 .. Len(box[r]) : box'[r][i] = box[r][i]
  BY <1>a, <1>c, <1>d
<1>1. Fenced(r)'
  <2>1. box'[r] # <<>> /\ box'[r][Len(box'[r])] = [alive |-> FALSE, row |-> "creating"]
    BY <1>e DEF e
  <2>2. ASSUME NEW i \in DOMAIN box'[r], box'[r][i].alive PROVE box'[r][i].row # "absent"
    <3>1. i \in 1 .. Len(box[r]) + 1 /\ i # Len(box[r]) + 1
      BY <1>d, <1>e, <2>2
    <3>2. i \in DOMAIN box[r] /\ box'[r][i] = box[r][i]
      BY <1>a, <1>e, <3>1
    <3>3. QED BY <1>a, <2>2, <3>2 DEF RunInv, Fenced
  <2>3. QED BY <2>1, <2>2 DEF Fenced
<1>2. Homed(r)'
  <2>1. SUFFICES ASSUME ~Herdr(r), ~run[r].err
                 PROVE  run'[r].stray = 0 /\ Alone(r)' /\ ~IsClosed(r)'
    BY <1>b DEF Homed, Herdr
  <2>2. box[r] = <<>> /\ run[r].pc \in {"stage", "start", "turn", "collect"}
    BY <1>a, <2>1, CallIsOpen DEF Alone
  <2>3. Len(box'[r]) = 1
    BY <1>e, <2>2
  <2>4. run'[r].todo # <<>>
    BY <1>a, <1>b DEF Calls, Command
  <2>5. QED BY <1>a, <1>b, <2>2, <2>3, <2>4 DEF Alone, IsClosed, Over
<1>3. RunInv(r)'
  <2>1. run'[r].cur \in Nat /\ run'[r].opened \in BOOLEAN
    <3>1. run'[r].opened = TRUE
      BY <1>a DEF Becomes, @@, Fields
    <3>2. QED BY <1>a, <1>b, <3>1 DEF RunInv, Shape
  <2>2. Within(r) /\ UNCHANGED Account(r) /\ run[r].pc \in Phases /\ run[r].todo # <<>>
    BY <1>a, <1>b DEF Within, Account, Calls, Command
  <2>3. QED BY <1>a, <1>b, <1>e, <1>1, <1>2, <2>1, <2>2, WithinKeeps
<1>4. QED BY <1>a, <1>c, <1>3, OneChanges, OthersKeep DEF IInv

LEMMA ProvisionKeeps ==
  ASSUME IInv, NEW r \in DOMAIN run, Provision(r)
  PROVE  IInv'
<1> DEFINE e == [alive |-> TRUE, row |-> "identified"]
<1> DEFINE n == Len(box[r])
<1>a. /\ Calls(r) /\ run[r].opened
      /\ box' = [box EXCEPT ![r][Last(r)] = e] /\ Becomes(r, [opened |-> FALSE, cur |-> n]) /\ UNCHANGED provider
      /\ RunInv(r) /\ DOMAIN run[r] = Fields /\ box[r] \in Seq(BoxType) /\ r \in DOMAIN box
  BY DEF Provision, Last, Idle, IInv, RunInv, Shape
<1>b. /\ DOMAIN run'[r] = Fields /\ run'[r].pc = run[r].pc /\ run'[r].err = run[r].err
      /\ run'[r].tree = run[r].tree /\ run'[r].todo = run[r].todo /\ run'[r].used = run[r].used
      /\ run'[r].agent = run[r].agent /\ run'[r].turns = run[r].turns /\ run'[r].rows = run[r].rows
      /\ run'[r].result = run[r].result /\ run'[r].cur = n /\ run'[r].stray = run[r].stray
      /\ run'[r].opened = FALSE
  <2> HIDE DEF n
  <2>1. QED BY <1>a DEF Becomes, @@, Fields
<1>c. /\ DOMAIN box' = DOMAIN box /\ \A q \in DOMAIN box : q # r => box'[q] = box[q]
      /\ Replaced(box[r], n, e, box'[r])
  BY <1>a DEF Last, Replaced
<1>d. e \in BoxType /\ e.row # "absent"
  BY DEF BoxType
<1> HIDE DEF e
<1>e. /\ box'[r] \in Seq(BoxType) /\ Len(box'[r]) = n
      /\ \A i \in 1 .. n : box'[r][i] = IF i = n THEN e ELSE box[r][i]
  <2> DEFINE b == box[r]
  <2>1. b \in Seq(BoxType) /\ (n \in DOMAIN b => e \in BoxType) /\ Replaced(b, n, e, box'[r])
    BY <1>a, <1>c, <1>d
  <2>2. n = Len(b)
    OBVIOUS
  <2> HIDE DEF b, n
  <2>3. /\ box'[r] \in Seq(BoxType) /\ Len(box'[r]) = Len(b)
        /\ \A i \in 1 .. Len(b) : box'[r][i] = IF i = n THEN e ELSE b[i]
    BY <2>1, BoxSet
  <2>4. QED BY <2>2, <2>3 DEF b
<1>1. Fenced(r)'
  BY <1>a, <1>b, <1>d, <1>e DEF RunInv, Fenced
<1>2. Homed(r)'
  <2>1. SUFFICES ASSUME ~Herdr(r), ~run[r].err
                 PROVE  run'[r].stray = 0 /\ Alone(r)' /\ ~IsClosed(r)'
    BY <1>b DEF Homed, Herdr
  <2>2. n = 1 /\ run[r].pc \in {"stage", "start", "turn", "collect"} /\ run[r].stray = 0
    BY <1>a, <2>1, CallIsOpen DEF Alone
  <2>3. QED BY <1>b, <1>e, <2>2 DEF Alone, IsClosed, Over
<1>3. RunInv(r)'
  <2>1. run'[r].cur \in Nat /\ run'[r].opened \in BOOLEAN
    <3>1. n \in Nat
      BY <1>a DEF RunInv, Shape
    <3> HIDE DEF n
    <3>2. QED BY <1>b, <3>1
  <2>2. Within(r) /\ UNCHANGED Account(r) /\ run[r].pc \in Phases /\ run[r].todo # <<>>
    BY <1>a, <1>b DEF Within, Account, Calls, Command
  <2>3. QED BY <1>a, <1>b, <1>e, <1>1, <1>2, <2>1, <2>2, WithinKeeps
<1>4. QED BY <1>a, <1>c, <1>3, OneChanges, OthersKeep DEF IInv

\* What the transport keeps after a command that failed.
LEMMA FailedElse ==
  ASSUME IInv, NEW r \in DOMAIN run, Calls(r),
         NEW d, DOMAIN d \subseteq {"cur", "stray", "opened"}, Becomes(r, d @@ Failed(r)),
         NEW x \in {"cur", "stray", "opened"}
  PROVE  run'[r][x] = IF x \in DOMAIN d THEN d[x] ELSE run[r][x]
<1>a. RunInv(r) /\ DOMAIN run[r] = Fields
  BY DEF IInv, RunInv, Shape
<1>b. run[r].pc \in Phases /\ run[r].todo # <<>> /\ Left(Herdr(r), run[r].pc, run[r].todo)
  BY <1>a DEF Calls, Command, RunInv, Todo
<1>1. CASE Head(run[r].todo) = "try"
  <2>1. Becomes(r, d @@ Done(r))
    BY <1>1 DEF Failed
  <2>2. QED BY <1>a, <2>1, DoneMoves
<1>2. CASE Head(run[r].todo) # "try"
  <2>1. Becomes(r, d @@ Raise(r))
    BY <1>2 DEF Failed
  <2>2. run[r].pc # "sweep"
    <3>1. CASE run[r].todo \in Seq({"try"})
      BY <1>2, <1>b, <3>1
    <3>2. QED BY <1>b, <3>1 DEF Left
  <2>3. QED BY <1>a, <1>b, <2>1, <2>2, RaiseElse
<1>3. QED BY <1>1, <1>2

\* The sandbox that was asked for is there or not, and its row stays.
LEMMA LastSet ==
  ASSUME NEW r \in DOMAIN box, box[r] \in Seq(BoxType), Fenced(r), NEW v, box[r] # <<>> => v \in BoxType,
         v.row # "absent", Replaced(box[r], Len(box[r]), v, box'[r]), ~run'[r].opened
  PROVE  box'[r] \in Seq(BoxType) /\ Fenced(r)'
<1> DEFINE b == box[r]
<1> DEFINE n == Len(b)
<1>1. b \in Seq(BoxType) /\ (n \in DOMAIN b => v \in BoxType) /\ Replaced(b, n, v, box'[r])
  OBVIOUS
<1>2. n = Len(b)
  OBVIOUS
<1> HIDE DEF n
<1>3. /\ box'[r] \in Seq(BoxType) /\ Len(box'[r]) = Len(b)
      /\ \A i \in 1 .. Len(b) : box'[r][i] = IF i = n THEN v ELSE b[i]
  <2> HIDE DEF b
  <2>1. QED BY <1>1, BoxSet
<1>4. \A i \in DOMAIN box'[r] : box'[r][i].alive => box'[r][i].row # "absent"
  BY <1>1, <1>3 DEF Fenced
<1>5. QED BY <1>3, <1>4 DEF Fenced

LEMMA ProvisionFailsKeeps ==
  ASSUME IInv, NEW r \in DOMAIN run, ProvisionFails(r) \/ Unidentified(r) \/ SeedFails(r)
  PROVE  IInv'
<1>a. /\ Calls(r) /\ run[r].opened /\ UNCHANGED provider /\ RunInv(r) /\ Fenced(r)
      /\ box[r] \in Seq(BoxType) /\ r \in DOMAIN box
  BY DEF ProvisionFails, Unidentified, SeedFails, Idle, IInv, RunInv, Shape
<1> DEFINE n == Len(box[r])
<1>b. n \in Nat /\ n \in DOMAIN box[r] /\ box[r][n] = [alive |-> FALSE, row |-> "creating"]
  BY <1>a DEF Fenced
<1>c. \E v \in BoxType : /\ v.row # "absent" /\ Replaced(box[r], n, v, box'[r])
                         /\ DOMAIN box' = DOMAIN box /\ \A q \in DOMAIN box : q # r => box'[q] = box[q]
  <2>1. CASE \E made \in BOOLEAN : box' = [box EXCEPT ![r][Last(r)].alive = made]
    <3>1. PICK made \in BOOLEAN : box' = [box EXCEPT ![r][Last(r)].alive = made]
      BY <2>1
    <3> DEFINE v == [box[r][n] EXCEPT !.alive = made]
    <3>2. v \in BoxType /\ v.row # "absent"
      BY <1>b DEF BoxType
    <3>3. Replaced(box[r], n, v, box'[r]) /\ DOMAIN box' = DOMAIN box /\ \A q \in DOMAIN box : q # r => box'[q] = box[q]
      BY <1>a, <3>1 DEF Last, Replaced
    <3>4. QED BY <3>2, <3>3
  <2>2. CASE \E killed \in BOOLEAN : box' = [box EXCEPT ![r][Last(r)] = [alive |-> ~killed, row |-> "identified"]]
    <3>1. PICK killed \in BOOLEAN : box' = [box EXCEPT ![r][Last(r)] = [alive |-> ~killed, row |-> "identified"]]
      BY <2>2
    <3> DEFINE v == [alive |-> ~killed, row |-> "identified"]
    <3>2. v \in BoxType /\ v.row # "absent"
      BY DEF BoxType
    <3>3. Replaced(box[r], n, v, box'[r]) /\ DOMAIN box' = DOMAIN box /\ \A q \in DOMAIN box : q # r => box'[q] = box[q]
      BY <1>a, <3>1 DEF Last, Replaced
    <3>4. QED BY <3>2, <3>3
  <2>3. QED BY <2>1, <2>2 DEF ProvisionFails, Unidentified, SeedFails
<1>d. PICK v \in BoxType : /\ v.row # "absent" /\ Replaced(box[r], n, v, box'[r])
                           /\ DOMAIN box' = DOMAIN box /\ \A q \in DOMAIN box : q # r => box'[q] = box[q]
  BY <1>c
<1>1. ASSUME NEW d, DOMAIN d \subseteq {"opened", "stray"}, "opened" \in DOMAIN d, d["opened"] = FALSE,
             Becomes(r, d @@ Failed(r))
      PROVE  IInv'
  <2>1. run'[r]["opened"] = FALSE
    BY <1>a, <1>1, FailedElse
  <2>2. box'[r] \in Seq(BoxType) /\ Fenced(r)'
    BY <1>a, <1>d, <2>1, LastSet
  <2>3. RunInv(r)'
    BY <1>a, <1>1, <2>2, FailedKeeps
  <2>4. QED BY <1>a, <1>d, <1>1, <2>3, OneChanges, OthersKeep DEF IInv
<1>2. CASE Becomes(r, [opened |-> FALSE] @@ Failed(r))
  <2> DEFINE d == [opened |-> FALSE]
  <2>1. DOMAIN d = {"opened"} /\ d["opened"] = FALSE /\ Becomes(r, d @@ Failed(r))
    BY <1>2
  <2> HIDE DEF d
  <2>2. QED BY <1>1, <2>1
<1>3. CASE Becomes(r, [opened |-> FALSE, stray |-> Last(r)] @@ Failed(r))
  <2> DEFINE d == [opened |-> FALSE, stray |-> Last(r)]
  <2>1. DOMAIN d = {"opened", "stray"} /\ d["opened"] = FALSE /\ Becomes(r, d @@ Failed(r))
    BY <1>3
  <2> HIDE DEF d
  <2>2. QED BY <1>1, <2>1
<1>4. QED BY <1>2, <1>3 DEF ProvisionFails, Unidentified, SeedFails

\* A command that fails, or finds a sandbox without an id, changes no sandbox.
LEMMA CommandFailsKeeps ==
  ASSUME IInv, NEW r \in DOMAIN run, CommandFails(r) \/ CleanupPending(r)
  PROVE  IInv'
<1> DEFINE d == <<>>
<1>a. /\ Calls(r) /\ UNCHANGED <<box, provider>> /\ Becomes(r, Failed(r)) /\ RunInv(r) /\ Fenced(r)
      /\ box[r] \in Seq(BoxType)
  BY DEF CommandFails, CleanupPending, Local, Idle, IInv, RunInv, Shape
<1>b. Becomes(r, d @@ Failed(r)) /\ DOMAIN d = {}
  BY <1>a, OverNothing
<1> HIDE DEF d
<1>c. run'[r]["opened"] = run[r]["opened"]
  BY <1>a, <1>b, FailedElse
<1>1. Fenced(r)' /\ box'[r] \in Seq(BoxType)
  BY <1>a, <1>c DEF Fenced
<1>2. RunInv(r)'
  BY <1>a, <1>b, <1>1, FailedKeeps
<1>3. QED BY <1>a, <1>2, OneChanges, OthersKeep

\* A command that times out ends its sandbox, or does not, and forgets it.
LEMMA CommandTimesOutKeeps ==
  ASSUME IInv, NEW r \in DOMAIN run, CommandTimesOut(r)
  PROVE  IInv'
<1> DEFINE d == [cur |-> 0]
<1>a. /\ Calls(r) /\ UNCHANGED provider /\ Becomes(r, d @@ Failed(r)) /\ RunInv(r) /\ Fenced(r)
      /\ box[r] \in Seq(BoxType) /\ r \in DOMAIN box /\ box' \in Kill(r, run[r].cur)
  BY DEF CommandTimesOut, Idle, IInv, RunInv, Shape
<1>b. DOMAIN d = {"cur"} /\ d["cur"] = 0
  OBVIOUS
<1> HIDE DEF d
<1>c. run'[r]["opened"] = run[r]["opened"]
  BY <1>a, <1>b, FailedElse
<1>d. Fades(r) /\ DOMAIN box' = DOMAIN box /\ \A q \in DOMAIN box : q # r => box'[q] = box[q]
  BY <1>a, KillFades
<1>1. Fenced(r)' /\ box'[r] \in Seq(BoxType)
  BY <1>a, <1>c, <1>d, FadeKeeps DEF Fades
<1>2. RunInv(r)'
  <2>1. /\ DOMAIN d \subseteq {"cur", "stray", "opened"}
        /\ "cur" \in DOMAIN d => d["cur"] \in Nat
        /\ "opened" \in DOMAIN d => d["opened"] = FALSE
    BY <1>b
  <2>2. Calls(r) /\ UNCHANGED provider /\ Becomes(r, d @@ Failed(r))
    BY <1>a
  <2>3. QED BY <1>1, <2>1, <2>2, FailedKeeps
<1>3. QED BY <1>a, <1>d, <1>2, OneChanges, OthersKeep DEF IInv

\* A command that answers.
LEMMA AnswersKeeps ==
  ASSUME IInv, NEW r \in DOMAIN run, Answers(r)
  PROVE  IInv'
<1>a. /\ Calls(r) /\ UNCHANGED <<box, provider>> /\ RunInv(r) /\ Fenced(r) /\ DOMAIN run[r] = Fields
      /\ run[r].pc \in Phases /\ run[r].todo # <<>> /\ run[r].cur # 0
  BY DEF Answers, Alive, Calls, Command, Local, Idle, IInv, RunInv, Shape
<1>1. ASSUME NEW d, DOMAIN d \subseteq {"home", "used"}, "used" \in DOMAIN d => run[r].pc = "meter",
             Becomes(r, d @@ Done(r))
      PROVE  IInv'
  <2>1. Within(r) /\ UNCHANGED Account(r)
    BY <1>a, <1>1, DoneMoves
  <2>2. /\ run'[r]["cur"] = run[r]["cur"] /\ run'[r]["stray"] = run[r]["stray"]
        /\ run'[r]["opened"] = run[r]["opened"] /\ ("used" \notin DOMAIN d => run'[r]["used"] = run[r]["used"])
    BY <1>a, <1>1, DoneMoves
  <2>3. Fenced(r)'
    BY <1>a, <2>2 DEF Fenced
  <2>4. Homed(r)'
    <3>1. SUFFICES ASSUME ~Herdr(r), ~run[r].err
                   PROVE  run'[r].stray = 0 /\ Alone(r)' /\ ~IsClosed(r)'
      BY <2>1 DEF Homed, Herdr, Account, Within
    <3>2. run[r].pc \in {"stage", "start", "turn", "collect"} /\ run[r].stray = 0 /\ Alone(r)
      BY <1>a, <3>1, CallIsOpen
    <3>3. QED BY <1>a, <2>1, <2>2, <3>2 DEF Alone, IsClosed, Over, Within
  <2>5. RunInv(r)'
    <3>1. run'[r].cur \in Nat /\ run'[r].opened \in BOOLEAN /\ box'[r] \in Seq(BoxType)
      BY <1>a, <2>2 DEF RunInv, Shape
    <3>2. QED BY <1>a, <1>1, <2>1, <2>2, <2>3, <2>4, <3>1, WithinKeeps
  <2>6. QED BY <1>a, <1>1, <2>5, OneChanges, OthersKeep
<1>2. CASE Becomes(r, [home |-> run[r].cur] @@ Done(r))
  <2> DEFINE d == [home |-> run[r].cur]
  <2>1. DOMAIN d = {"home"} /\ Becomes(r, d @@ Done(r))
    BY <1>2
  <2> HIDE DEF d
  <2>2. QED BY <1>1, <2>1
<1>3. CASE run[r].pc = "meter" /\ \E k \in Tokens : Becomes(r, [used |-> k] @@ Done(r))
  <2>1. PICK k \in Tokens : Becomes(r, [used |-> k] @@ Done(r))
    BY <1>3
  <2> DEFINE d == [used |-> k]
  <2>2. DOMAIN d = {"used"} /\ Becomes(r, d @@ Done(r))
    BY <2>1
  <2> HIDE DEF d
  <2>3. QED BY <1>1, <1>3, <2>2
<1>4. CASE Becomes(r, Done(r))
  <2> DEFINE d == <<>>
  <2>1. DOMAIN d = {} /\ Becomes(r, d @@ Done(r))
    BY <1>4, OverNothing
  <2> HIDE DEF d
  <2>2. QED BY <1>1, <2>1
<1>5. QED BY <1>2, <1>3, <1>4 DEF Answers

\* The answer of the turn: the usage changes before there is a row.
LEMMA TurnAnswersKeeps ==
  ASSUME IInv, NEW r \in DOMAIN run, TurnAnswers(r)
  PROVE  IInv'
<1>a. /\ Calls(r) /\ run[r].pc = "turn" /\ UNCHANGED <<box, provider>> /\ RunInv(r) /\ Fenced(r)
      /\ DOMAIN run[r] = Fields /\ run[r].pc \in Phases \ {"sweep"} /\ run[r].todo # <<>>
      /\ provider \in {"e2b", "daytona"} /\ run[r].cur # 0
  BY DEF TurnAnswers, Alive, Calls, Command, Local, Idle, IInv, RunInv, Shape, Phases
<1>b. PICK turn \in Turns(r) :
        Becomes(r, [sess |-> turn.status, used |-> run[r].used + turn.tokens] @@
                   IF Raises(r, turn) THEN Raise(r) ELSE Done(r))
  BY DEF TurnAnswers
<1> DEFINE d == [sess |-> turn.status, used |-> run[r].used + turn.tokens]
<1>c. DOMAIN d = {"sess", "used"} /\ (Becomes(r, d @@ Raise(r)) \/ Becomes(r, d @@ Done(r)))
  BY <1>b
<1> HIDE DEF d
<1>1. CASE Becomes(r, d @@ Raise(r))
  <2>1. Thrown(r) /\ UNCHANGED Account(r)
    BY <1>a, <1>c, <1>1, RaiseThrows
  <2>2. /\ run'[r]["cur"] = run[r]["cur"] /\ run'[r]["opened"] = run[r]["opened"]
        /\ run'[r]["tree"] = run[r]["tree"]
    BY <1>a, <1>c, <1>1, RaiseElse
  <2>3. Fenced(r)'
    BY <1>a, <2>2 DEF Fenced
  <2>4. run'[r].cur \in Nat /\ run'[r].opened \in BOOLEAN /\ box'[r] \in Seq(BoxType)
    BY <1>a, <2>2 DEF RunInv, Shape
  <2>5. RunInv(r)'
    BY <1>a, <2>1, <2>2, <2>3, <2>4, ThrowKeeps
  <2>6. QED BY <1>a, <1>1, <2>5, OneChanges, OthersKeep
<1>2. CASE Becomes(r, d @@ Done(r))
  <2>1. Within(r) /\ UNCHANGED Account(r)
    BY <1>a, <1>c, <1>2, DoneMoves
  <2>2. /\ run'[r]["cur"] = run[r]["cur"] /\ run'[r]["stray"] = run[r]["stray"]
        /\ run'[r]["opened"] = run[r]["opened"]
    BY <1>a, <1>c, <1>2, DoneMoves
  <2>3. Fenced(r)'
    BY <1>a, <2>2 DEF Fenced
  <2>4. Homed(r)'
    <3>1. SUFFICES ASSUME ~Herdr(r), ~run[r].err
                   PROVE  run'[r].stray = 0 /\ Alone(r)' /\ ~IsClosed(r)'
      BY <2>1 DEF Homed, Herdr, Account, Within
    <3>2. run[r].stray = 0 /\ Alone(r)
      BY <1>a, <3>1, CallIsOpen
    <3>3. QED BY <1>a, <2>1, <2>2, <3>2 DEF Alone, IsClosed, Over, Within
  <2>5. run'[r].cur \in Nat /\ run'[r].opened \in BOOLEAN /\ box'[r] \in Seq(BoxType)
    BY <1>a, <2>2 DEF RunInv, Shape
  <2>6. RunInv(r)'
    BY <1>a, <2>1, <2>2, <2>3, <2>4, <2>5, WithinKeeps
  <2>7. QED BY <1>a, <1>2, <2>6, OneChanges, OthersKeep
<1>3. QED BY <1>c, <1>1, <1>2

-----------------------------------------------------------------------------
(* The phases *)

\* What a run passes on from phase to phase.
Steady(r) == <<run[r].agent, run[r].cur, run[r].stray, run[r].opened, run[r].err, run[r].asked>>

\* No command of the run is left to make.
Rests(r) == run[r].pc \in Phases => run[r].todo = <<>>

\* A run goes on to a phase, or to a step between phases.
LEMMA MoveKeeps ==
  ASSUME IInv, NEW r \in DOMAIN run, NEW c, Becomes(r, c), UNCHANGED <<box, provider>>,
         DOMAIN run'[r] = Fields, UNCHANGED Steady(r), run[r].pc # "lost", Rests(r),
         run'[r].pc \in Early \cup InTurn \cup After \cup Leaving \cup Over,
         run'[r].pc \in Phases => run'[r].todo = Script(r, run'[r].pc),
         ~Herdr(r) /\ ~run[r].err => (IsClosed(r)' <=> IsClosed(r)),
         Metered(r)', Brought(r)'
  PROVE  IInv'
<1>a. /\ RunInv(r) /\ provider \in {"e2b", "daytona"} /\ Herdr(r)' = Herdr(r)
      /\ run'[r].agent = run[r].agent /\ run'[r].cur = run[r].cur /\ run'[r].stray = run[r].stray
      /\ run'[r].opened = run[r].opened /\ run'[r].err = run[r].err /\ run'[r].asked = run[r].asked
  BY DEF IInv, Steady, Herdr
<1>1. Shape(r)'
  BY <1>a DEF RunInv, Shape
<1>2. Todo(r)'
  <2>1. CASE run'[r].pc \in Phases
    <3>1. run[r].agent \in HerdrKinds \cup HeadlessKinds
      BY <1>a DEF RunInv, Shape
    <3>2. Left(Herdr(r), run'[r].pc, Script(r, run'[r].pc))
      BY <1>a, <2>1, <3>1, ScriptLeft
    <3>3. QED BY <1>a, <2>1, <3>2 DEF Todo
  <2>2. CASE run'[r].pc \notin Phases
    BY <2>2, LeftOutside DEF Todo
  <2>3. QED BY <2>1, <2>2
<1>3. Fenced(r)'
  BY <1>a DEF RunInv, Fenced
<1>4. Homed(r)'
  <2>1. SUFFICES ASSUME ~Herdr(r), ~run[r].err
                 PROVE  IF IsClosed(r)' THEN AllAsked(r)' ELSE run'[r].stray = 0 /\ Alone(r)'
    BY <1>a DEF Homed
  <2>2. IF IsClosed(r) THEN AllAsked(r) ELSE run[r].stray = 0 /\ Alone(r)
    BY <1>a, <2>1 DEF RunInv, Homed
  <2>3. (AllAsked(r) => AllAsked(r)') /\ (Alone(r) => Alone(r)')
    BY <1>a DEF AllAsked, Alone, Rests, Phases
  <2>4. QED BY <1>a, <2>1, <2>2, <2>3
<1>5. RunInv(r)'
  BY <1>1, <1>2, <1>3, <1>4 DEF RunInv
<1>6. QED BY <1>5, OneChanges, OthersKeep

LEMMA AdmitKeeps ==
  ASSUME IInv, NEW r \in DOMAIN run, Admit(r) \/ Busy(r) \/ Staged(r) \/ Started(r)
  PROVE  IInv'
<1>a. RunInv(r) /\ DOMAIN run[r] = Fields
  BY DEF IInv, RunInv, Shape
<1>b. PICK p, c :
        /\ p \in {"stage", "start", "busy", "seen"}
        /\ Becomes(r, c) /\ run[r].pc \in {"idle", "stage", "start"}
        /\ \/ p \in Phases /\ c = Enter(r, p)
           \/ p \notin Phases /\ c = [pc |-> p]
           \/ p \notin Phases /\ \E s : c = [pc |-> p, sess |-> s]
  <2>1. CASE Admit(r)
    BY <2>1 DEF Admit, At, Phases
  <2>2. CASE Busy(r)
    BY <2>2 DEF Busy, At, Phases
  <2>3. CASE Staged(r)
    BY <2>3 DEF Staged, Finished, At, Phases
  <2>4. CASE Started(r)
    <3>1. PICK s : Becomes(r, [pc |-> "seen", sess |-> s])
      BY <2>4 DEF Started
    <3>2. run[r].pc = "start" /\ "seen" \notin Phases
      BY <2>4 DEF Started, Finished, At, Phases
    <3>3. PICK c : c = [pc |-> "seen", sess |-> s]
      OBVIOUS
    <3>4. QED BY <3>1, <3>2, <3>3
  <2>5. QED BY <2>1, <2>2, <2>3, <2>4
<1>c. UNCHANGED <<box, provider>>
  BY DEF Admit, Busy, Staged, Started, Local, Idle
<1>d. /\ DOMAIN run'[r] = Fields /\ run'[r].pc = p /\ run'[r].agent = run[r].agent
      /\ run'[r].cur = run[r].cur /\ run'[r].stray = run[r].stray /\ run'[r].opened = run[r].opened
      /\ run'[r].err = run[r].err /\ run'[r].turns = run[r].turns /\ run'[r].rows = run[r].rows
      /\ run'[r].used = run[r].used /\ run'[r].tree = run[r].tree /\ run'[r].result = run[r].result
      /\ run'[r].asked = run[r].asked
      /\ p \in Phases => run'[r].todo = Script(r, p)
  <2>1. CASE p \in Phases /\ c = [pc |-> p, todo |-> Script(r, p)]
    <3>1. PICK t : t = Script(r, p)
      OBVIOUS
    <3>2. Becomes(r, [pc |-> p, todo |-> t])
      BY <1>b, <2>1, <3>1
    <3>3. QED BY <1>a, <3>1, <3>2 DEF Becomes, @@, Fields
  <2>2. CASE p \notin Phases /\ c = [pc |-> p]
    BY <1>a, <1>b, <2>2 DEF Becomes, @@, Fields
  <2>3. CASE p \notin Phases /\ \E s : c = [pc |-> p, sess |-> s]
    <3>1. PICK s : c = [pc |-> p, sess |-> s]
      BY <2>3
    <3>2. QED BY <1>a, <1>b, <2>3, <3>1 DEF Becomes, @@, Fields
  <2>4. QED BY <1>b, <2>1, <2>2, <2>3 DEF Enter
<1>1. run[r].turns = 0 /\ run[r].rows = <<>> /\ run[r].used = 0 /\ run[r].result = "none"
  BY <1>a, <1>b DEF RunInv, Metered, Brought, Early
<1>2. Metered(r)' /\ Brought(r)'
  BY <1>b, <1>d, <1>1 DEF Metered, Brought, Early, InTurn, After, Leaving, Over
<1>3. ~IsClosed(r) /\ ~IsClosed(r)' /\ run[r].pc # "lost" /\ p \in Early
  BY <1>b, <1>d DEF IsClosed, Over, Early
<1>4. Rests(r)
  BY DEF Admit, Busy, Staged, Started, Finished, At, Rests, Phases
<1>5. QED BY <1>b, <1>c, <1>d, <1>2, <1>3, <1>4, MoveKeeps DEF Steady

\* What a move from phase to phase leaves as it was.
Calm(r) == <<run[r].agent, run[r].cur, run[r].stray, run[r].opened, run[r].err, run[r].used, run[r].tree,
             run[r].asked>>

\* The first turn of a run that started is about to be sent.
LEMMA SeenKeeps ==
  ASSUME IInv, NEW r \in DOMAIN run, Seen(r)
  PROVE  IInv'
<1>a. /\ RunInv(r) /\ DOMAIN run[r] = Fields /\ run[r].pc = "seen" /\ UNCHANGED <<box, provider>>
      /\ run[r].err \in BOOLEAN
  BY DEF Seen, At, Local, Idle, IInv, RunInv, Shape
<1>b. run[r].turns = 0 /\ run[r].rows = <<>> /\ run[r].used = 0 /\ run[r].result = "none"
  BY <1>a DEF RunInv, Metered, Brought, Early
<1>c. PICK k, m : Becomes(r, [seen |-> k, mode |-> m] @@
                IF run[r].err THEN [pc |-> "teardown"]
                ELSE [turns |-> run[r].turns + 1] @@ [pc |-> "query", todo |-> Script(r, "query")])
  BY DEF Seen, Enter
<1>d. ~IsClosed(r) /\ Rests(r)
  BY <1>a DEF IsClosed, Over, Rests, Phases
<1>1. CASE run[r].err
  <2>1. Becomes(r, [seen |-> k, mode |-> m] @@ [pc |-> "teardown"])
    BY <1>c, <1>1
  <2>2. /\ DOMAIN run'[r] = Fields /\ run'[r].pc = "teardown" /\ UNCHANGED Calm(r)
        /\ run'[r].turns = run[r].turns /\ run'[r].rows = run[r].rows /\ run'[r].result = run[r].result
    BY <1>a, <2>1 DEF Becomes, @@, Fields, Calm
  <2>3. Metered(r)' /\ Brought(r)'
    BY <1>b, <1>1, <2>2 DEF Metered, Brought, Calm, Early, InTurn, After, Leaving, Over
  <2>4. "teardown" \in Over /\ "teardown" \notin Phases
    BY DEF Over, Phases
  <2>5. QED BY <1>a, <1>d, <1>1, <2>1, <2>2, <2>3, <2>4, MoveKeeps DEF Steady, Calm
<1>2. CASE ~run[r].err
  <2>1. PICK t : t = Script(r, "query")
    OBVIOUS
  <2>2. Becomes(r, [seen |-> k, mode |-> m] @@ ([turns |-> 1] @@ [pc |-> "query", todo |-> t]))
    BY <1>b, <1>c, <1>2, <2>1
  <2>3. /\ DOMAIN run'[r] = Fields /\ run'[r].pc = "query" /\ run'[r].todo = t /\ UNCHANGED Calm(r)
        /\ run'[r].turns = 1 /\ run'[r].rows = run[r].rows /\ run'[r].result = run[r].result
    BY <1>a, <2>2 DEF Becomes, @@, Fields, Calm
  <2>4. Metered(r)' /\ Brought(r)'
    BY <1>b, <1>2, <2>3 DEF Metered, Brought, Calm, Early, InTurn, After, Leaving, Over
  <2>5. ~IsClosed(r)' /\ "query" \in InTurn
    BY <2>3 DEF IsClosed, Over, InTurn
  <2>6. QED BY <1>a, <1>d, <2>1, <2>2, <2>3, <2>4, <2>5, MoveKeeps DEF Steady, Calm
<1>3. QED BY <1>1, <1>2

\* The steps between the start of the turn and its row.
LEMMA TurnKeeps ==
  ASSUME IInv, NEW r \in DOMAIN run, Queried(r) \/ TurnEnds(r) \/ Swept(r) \/ SeenTurn(r)
  PROVE  IInv'
<1>a. /\ RunInv(r) /\ DOMAIN run[r] = Fields /\ run[r].pc \in InTurn /\ UNCHANGED <<box, provider>>
  BY DEF Queried, TurnEnds, Swept, SeenTurn, Finished, At, Local, Idle, IInv, RunInv, Shape, InTurn
<1>b. run[r].turns = 1 /\ run[r].rows = <<>> /\ run[r].result = "none"
  BY <1>a DEF RunInv, Metered, Brought, InTurn
<1>c. Rests(r)
  BY DEF Queried, TurnEnds, Swept, SeenTurn, Finished, At, Rests, Phases
<1>1. ASSUME NEW c, Becomes(r, c), NEW p \in InTurn,
             DOMAIN run'[r] = Fields, run'[r].pc = p, UNCHANGED Calm(r),
             run'[r].turns = run[r].turns, run'[r].rows = run[r].rows, run'[r].result = run[r].result,
             p \in Phases => run'[r].todo = Script(r, p)
      PROVE  IInv'
  <2>1. Metered(r)' /\ Brought(r)'
    BY <1>b, <1>1 DEF Metered, Brought, Calm, Early, InTurn, After, Leaving, Over
  <2>2. ~IsClosed(r) /\ ~IsClosed(r)' /\ run[r].pc # "lost"
    BY <1>a, <1>1 DEF IsClosed, InTurn, Over
  <2>3. QED BY <1>a, <1>c, <1>1, <2>1, <2>2, MoveKeeps DEF Steady, Calm
<1>2. ASSUME NEW p \in InTurn, Becomes(r, Enter(r, p)) PROVE IInv'
  <2>1. PICK t : t = Script(r, p)
    OBVIOUS
  <2>2. Becomes(r, [pc |-> p, todo |-> t])
    BY <1>2, <2>1 DEF Enter
  <2>3. /\ DOMAIN run'[r] = Fields /\ run'[r].pc = p /\ run'[r].todo = t /\ UNCHANGED Calm(r)
        /\ run'[r].turns = run[r].turns /\ run'[r].rows = run[r].rows /\ run'[r].result = run[r].result
    BY <1>a, <2>2 DEF Becomes, @@, Fields, Calm
  <2>4. QED BY <1>1, <2>1, <2>2, <2>3
<1>3. CASE Queried(r)
  <2>1. PICK t : t = Script(r, "turn")
    OBVIOUS
  <2>2. \/ Becomes(r, [pc |-> "turn", todo |-> t] @@ <<>>)
        \/ Becomes(r, [pc |-> "turn", todo |-> t] @@ [sess |-> "running"])
    BY <1>3, <2>1 DEF Queried, Enter
  <2>3. CASE Becomes(r, [pc |-> "turn", todo |-> t] @@ <<>>)
    <3>1. /\ DOMAIN run'[r] = Fields /\ run'[r].pc = "turn" /\ run'[r].todo = t /\ UNCHANGED Calm(r)
          /\ run'[r].turns = run[r].turns /\ run'[r].rows = run[r].rows /\ run'[r].result = run[r].result
      BY <1>a, <2>3 DEF Becomes, @@, Fields, Calm
    <3>2. QED BY <1>1, <2>1, <2>3, <3>1 DEF InTurn
  <2>4. CASE Becomes(r, [pc |-> "turn", todo |-> t] @@ [sess |-> "running"])
    <3>1. /\ DOMAIN run'[r] = Fields /\ run'[r].pc = "turn" /\ run'[r].todo = t /\ UNCHANGED Calm(r)
          /\ run'[r].turns = run[r].turns /\ run'[r].rows = run[r].rows /\ run'[r].result = run[r].result
      BY <1>a, <2>4 DEF Becomes, @@, Fields, Calm
    <3>2. QED BY <1>1, <2>1, <2>4, <3>1 DEF InTurn
  <2>5. QED BY <2>2, <2>3, <2>4
<1>4. CASE Becomes(r, [pc |-> "seenTurn"])
  <2>1. /\ DOMAIN run'[r] = Fields /\ run'[r].pc = "seenTurn" /\ UNCHANGED Calm(r)
        /\ run'[r].turns = run[r].turns /\ run'[r].rows = run[r].rows /\ run'[r].result = run[r].result
    BY <1>a, <1>4 DEF Becomes, @@, Fields, Calm
  <2>2. QED BY <1>1, <1>4, <2>1 DEF InTurn, Phases
<1>5. CASE SeenTurn(r)
  <2>1. PICK t : t = Script(r, "meter")
    OBVIOUS
  <2>2. PICK k, m : Becomes(r, [seen |-> k, mode |-> m] @@ [pc |-> "meter", todo |-> t])
    BY <1>5, <2>1 DEF SeenTurn, Enter
  <2>3. /\ DOMAIN run'[r] = Fields /\ run'[r].pc = "meter" /\ run'[r].todo = t /\ UNCHANGED Calm(r)
        /\ run'[r].turns = run[r].turns /\ run'[r].rows = run[r].rows /\ run'[r].result = run[r].result
    BY <1>a, <2>2 DEF Becomes, @@, Fields, Calm
  <2>4. QED BY <1>1, <2>1, <2>2, <2>3 DEF InTurn
<1>6. CASE TurnEnds(r)
  BY <1>2, <1>4, <1>6 DEF TurnEnds, InTurn
<1>7. QED BY <1>3, <1>4, <1>5, <1>6 DEF Swept

\* The row of the turn: the usage does not change once it is written.
LEMMA RecordTurnKeeps ==
  ASSUME IInv, NEW r \in DOMAIN run, RecordTurn(r)
  PROVE  IInv'
<1>a. /\ RunInv(r) /\ DOMAIN run[r] = Fields /\ run[r].pc = "meter" /\ UNCHANGED <<box, provider>>
      /\ run[r].err \in BOOLEAN
  BY DEF RecordTurn, Finished, At, Local, Idle, IInv, RunInv, Shape
<1>b. run[r].turns = 1 /\ run[r].rows = <<>> /\ run[r].result = "none" /\ ~IsClosed(r)
  BY <1>a DEF RunInv, Metered, Brought, InTurn, IsClosed, Over
<1>f. Rests(r)
  BY DEF RecordTurn, Finished, Rests
<1>c. PICK rows : rows = Append(run[r].rows, TurnRow(r))
  OBVIOUS
<1>d. /\ Len(rows) = 1 /\ DOMAIN rows = {1}
      /\ rows[1].source = "reported" <=> run[r].used > 0
  <2>1. rows = <<TurnRow(r)>>
    BY <1>b, <1>c
  <2>2. TurnRow(r).source = "reported" <=> run[r].used > 0
    BY DEF TurnRow
  <2>3. QED BY <2>1, <2>2
<1>e. Becomes(r, [rows |-> rows] @@ IF run[r].err THEN [pc |-> "ending"] ELSE Enter(r, "observe"))
  BY <1>c DEF RecordTurn
<1>1. CASE run[r].err
  <2>1. Becomes(r, [rows |-> rows] @@ [pc |-> "ending"])
    BY <1>e, <1>1
  <2>2. /\ DOMAIN run'[r] = Fields /\ run'[r].pc = "ending" /\ UNCHANGED Calm(r)
        /\ run'[r].turns = run[r].turns /\ run'[r].rows = rows /\ run'[r].result = run[r].result
    BY <1>a, <2>1 DEF Becomes, @@, Fields, Calm
  <2>3. Metered(r)' /\ Brought(r)'
    BY <1>b, <1>d, <1>1, <2>2 DEF Metered, Brought, Calm, Early, InTurn, After, Leaving, Over
  <2>4. "ending" \in Leaving /\ "ending" \notin Phases
    BY DEF Leaving, Phases
  <2>5. QED BY <1>a, <1>f, <1>1, <2>1, <2>2, <2>3, <2>4, MoveKeeps DEF Steady, Calm
<1>2. CASE ~run[r].err
  <2>1. PICK t : t = Script(r, "observe")
    OBVIOUS
  <2>2. Becomes(r, [rows |-> rows] @@ [pc |-> "observe", todo |-> t])
    BY <1>e, <1>2, <2>1 DEF Enter
  <2>3. /\ DOMAIN run'[r] = Fields /\ run'[r].pc = "observe" /\ run'[r].todo = t /\ UNCHANGED Calm(r)
        /\ run'[r].turns = run[r].turns /\ run'[r].rows = rows /\ run'[r].result = run[r].result
    BY <1>a, <2>2 DEF Becomes, @@, Fields, Calm
  <2>4. Metered(r)' /\ Brought(r)'
    BY <1>b, <1>d, <1>2, <2>3 DEF Metered, Brought, Calm, Early, InTurn, After, Leaving, Over
  <2>5. ~IsClosed(r)' /\ "observe" \in After
    BY <2>3 DEF IsClosed, Over, After
  <2>6. QED BY <1>a, <1>b, <1>f, <2>1, <2>2, <2>3, <2>4, <2>5, MoveKeeps DEF Steady, Calm
<1>3. QED BY <1>1, <1>2

\* The answer is read, and the tree brought home or torn on the way.
LEMMA CollectKeeps ==
  ASSUME IInv, NEW r \in DOMAIN run, Observed(r) \/ Collected(r)
  PROVE  IInv'
<1>a. /\ RunInv(r) /\ DOMAIN run[r] = Fields /\ run[r].pc \in After /\ UNCHANGED <<box, provider>>
      /\ provider \in {"e2b", "daytona"}
  BY DEF Observed, Collected, Finished, At, Local, Idle, IInv, RunInv, Shape, After
<1>b. /\ run[r].turns = 1 /\ Len(run[r].rows) = 1 /\ run[r].result = "none" /\ ~IsClosed(r)
      /\ \A k \in DOMAIN run[r].rows : run[r].rows[k].source = "reported" <=> run[r].used > 0
  BY <1>a DEF RunInv, Metered, Brought, After, IsClosed, Over
<1>c. Rests(r)
  BY DEF Observed, Collected, Finished, Rests
<1>1. CASE Observed(r)
  <2>1. PICK t : t = Script(r, "collect")
    OBVIOUS
  <2>2. PICK s : Becomes(r, [sess |-> s] @@ [pc |-> "collect", todo |-> t])
    BY <1>1, <2>1 DEF Observed, Enter
  <2>3. /\ DOMAIN run'[r] = Fields /\ run'[r].pc = "collect" /\ run'[r].todo = t /\ UNCHANGED Calm(r)
        /\ run'[r].turns = run[r].turns /\ run'[r].rows = run[r].rows /\ run'[r].result = run[r].result
    BY <1>a, <2>2 DEF Becomes, @@, Fields, Calm
  <2>4. Metered(r)' /\ Brought(r)'
    BY <1>b, <2>3 DEF Metered, Brought, Calm, Early, InTurn, After, Leaving, Over
  <2>5. ~IsClosed(r)' /\ "collect" \in After /\ run[r].pc # "lost"
    BY <1>a, <2>3 DEF IsClosed, Over, After
  <2>6. QED BY <1>a, <1>b, <1>c, <2>1, <2>2, <2>3, <2>4, <2>5, MoveKeeps DEF Steady, Calm
<1>2. CASE Becomes(r, [tree |-> "agent", result |-> run[r].sess, pc |-> "ending"])
  <2>1. PICK s : s = run[r].sess
    OBVIOUS
  <2>2. Becomes(r, [tree |-> "agent", result |-> s, pc |-> "ending"])
    BY <1>2, <2>1
  <2>3. /\ DOMAIN run'[r] = Fields /\ run'[r].pc = "ending" /\ UNCHANGED Steady(r)
        /\ run'[r].used = run[r].used /\ run'[r].tree = "agent"
        /\ run'[r].turns = run[r].turns /\ run'[r].rows = run[r].rows
    BY <1>a, <2>2 DEF Becomes, @@, Fields, Steady
  <2>4. Metered(r)' /\ Brought(r)'
    BY <1>b, <2>3 DEF Metered, Brought, Early, InTurn, After, Leaving, Over
  <2>5. ~IsClosed(r)' /\ "ending" \in Leaving /\ run[r].pc # "lost" /\ "ending" \notin Phases
    BY <1>a, <2>3 DEF IsClosed, Over, After, Leaving, Phases
  <2>6. QED BY <1>a, <1>b, <1>c, <2>2, <2>3, <2>4, <2>5, MoveKeeps
<1>3. CASE Collected(r) /\ Becomes(r, [tree |-> "torn"] @@ Raise(r))
  <2> DEFINE d == [tree |-> "torn"]
  <2>1. DOMAIN d = {"tree"} /\ Becomes(r, d @@ Raise(r))
    BY <1>3
  <2> HIDE DEF d
  <2>2. run[r].pc = "collect" /\ run[r].pc \in Phases \ {"sweep"}
    BY <1>3 DEF Collected, Finished, At, Phases
  <2>3. Thrown(r) /\ UNCHANGED Account(r)
    BY <1>a, <2>1, <2>2, RaiseThrows
  <2>4. /\ run'[r]["cur"] = run[r]["cur"] /\ run'[r]["opened"] = run[r]["opened"]
        /\ run'[r]["used"] = run[r]["used"]
    BY <1>a, <2>1, <2>2, RaiseElse
  <2>5. /\ Fenced(r)' /\ run'[r].cur \in Nat /\ run'[r].opened \in BOOLEAN
        /\ box'[r] \in Seq(BoxType)
    BY <1>a, <2>4 DEF RunInv, Shape, Fenced
  <2>6. RunInv(r)'
    BY <1>a, <2>2, <2>3, <2>4, <2>5, ThrowKeeps
  <2>7. QED BY <1>a, <2>1, <2>6, OneChanges, OthersKeep
<1>4. QED BY <1>1, <1>2, <1>3 DEF Collected

\* The session ends: what a run has left to do is to close.
LEMMA EndingKeeps ==
  ASSUME IInv, NEW r \in DOMAIN run, Ending(r) \/ Terminated(r)
  PROVE  IInv'
<1>a. /\ RunInv(r) /\ DOMAIN run[r] = Fields /\ run[r].pc \in Leaving /\ UNCHANGED <<box, provider>>
  BY DEF Ending, Terminated, Finished, At, Local, Idle, IInv, RunInv, Shape, Leaving
<1>b. /\ run[r].turns \in {0, 1} /\ Len(run[r].rows) \in {0, run[r].turns}
      /\ ~Herdr(r) \/ ~run[r].err => Len(run[r].rows) = run[r].turns
      /\ \A k \in DOMAIN run[r].rows : run[r].rows[k].source = "reported" <=> run[r].used > 0
  BY <1>a DEF RunInv, Metered
<1>1. ASSUME run'[r].pc \in {"terminate", "teardown"}, UNCHANGED Calm(r),
             run'[r].turns = run[r].turns, run'[r].rows = run[r].rows, run'[r].result = run[r].result
      PROVE  Metered(r)' /\ Brought(r)'
  <2>1. /\ Herdr(r)' = Herdr(r) /\ run'[r].err = run[r].err /\ run'[r].used = run[r].used
        /\ run'[r].tree = run[r].tree
    BY <1>1 DEF Calm, Herdr
  <2>2. Metered(r)'
    BY <1>b, <1>1, <2>1 DEF Metered, Early, InTurn, After, Leaving, Over
  <2>3. Brought(r)'
    BY <1>a, <1>1, <2>1 DEF RunInv, Brought, Early, InTurn, After
  <2>4. QED BY <2>2, <2>3
<1>2. CASE Ending(r)
  <2>1. PICK t : t = Script(r, "terminate")
    OBVIOUS
  <2>2. PICK k : Becomes(r, [seen |-> k] @@ [pc |-> "terminate", todo |-> t])
    BY <1>2, <2>1 DEF Ending, Enter
  <2>3. /\ DOMAIN run'[r] = Fields /\ run'[r].pc = "terminate" /\ run'[r].todo = t /\ UNCHANGED Calm(r)
        /\ run'[r].turns = run[r].turns /\ run'[r].rows = run[r].rows /\ run'[r].result = run[r].result
    BY <1>a, <2>2 DEF Becomes, @@, Fields, Calm
  <2>4. Metered(r)' /\ Brought(r)'
    BY <1>1, <2>3
  <2>5. ~Herdr(r) => t = <<"close">>
    BY <2>1, Zenon DEF Script, HeadlessTerminate
  <2>6. ~Herdr(r) => t # <<>>
    BY <2>5
  <2>7. run[r].pc = "ending" /\ run[r].pc # "lost" /\ "terminate" \in Leaving
    BY <1>2 DEF Ending, At, Leaving
  <2>8. Rests(r) /\ (~Herdr(r) => ~IsClosed(r) /\ ~IsClosed(r)')
    BY <2>3, <2>6, <2>7 DEF IsClosed, Over, Rests, Phases
  <2>9. QED BY <1>a, <2>1, <2>2, <2>3, <2>4, <2>7, <2>8, MoveKeeps DEF Steady, Calm
<1>3. CASE Terminated(r)
  <2>1. Becomes(r, [pc |-> "teardown", sess |-> "terminated"])
    BY <1>3 DEF Terminated
  <2>2. /\ DOMAIN run'[r] = Fields /\ run'[r].pc = "teardown" /\ UNCHANGED Calm(r)
        /\ run'[r].turns = run[r].turns /\ run'[r].rows = run[r].rows /\ run'[r].result = run[r].result
    BY <1>a, <2>1 DEF Becomes, @@, Fields, Calm
  <2>3. Metered(r)' /\ Brought(r)'
    BY <1>1, <2>2
  <2>4. /\ IsClosed(r) /\ IsClosed(r)' /\ run[r].pc # "lost" /\ Rests(r)
        /\ "teardown" \in Over /\ "teardown" \notin Phases
    BY <1>3, <2>2 DEF Terminated, Finished, At, IsClosed, Over, Phases, Rests
  <2>5. QED BY <1>a, <2>1, <2>2, <2>3, <2>4, MoveKeeps DEF Steady, Calm
<1>4. QED BY <1>2, <1>3

\* A headless run that raised nothing knows the one sandbox it may have left.
LEMMA CloseIsEnough ==
  ASSUME NEW r, RunInv(r), ~Herdr(r), ~run[r].err, run[r].pc = "terminate", ~IsClosed(r)
  PROVE  IF CloseIsEmpty(r) THEN box[r] = <<>> ELSE Closing(r) = 1 /\ Len(box[r]) = 1
<1>1. run[r].stray = 0 /\ Alone(r)
  BY DEF RunInv, Homed
<1>2. (box[r] = <<>> /\ run[r].cur = 0) \/ (run[r].cur = 1 /\ Len(box[r]) = 1)
  BY <1>1 DEF Alone
<1>3. QED BY <1>1, <1>2 DEF CloseIsEmpty, Closing

\* The session closes the transport.
LEMMA TerminateKeeps ==
  ASSUME IInv, NEW r \in DOMAIN run, Terminate(r)
  PROVE  IInv'
<1>a. /\ UNCHANGED provider /\ RunInv(r) /\ DOMAIN run[r] = Fields /\ Fenced(r) /\ box[r] \in Seq(BoxType)
      /\ r \in DOMAIN box /\ DOMAIN box = DOMAIN run /\ provider \in {"e2b", "daytona"}
      /\ run[r].pc \in Phases /\ run[r].todo # <<>> /\ Head(run[r].todo) = "close"
      /\ run[r].cur \in Nat /\ run[r].opened \in BOOLEAN
      /\ Left(Herdr(r), run[r].pc, run[r].todo)
  BY DEF Terminate, Command, Idle, IInv, RunInv, Shape, Todo
<1>b. run[r].pc = "terminate"
  <2>1. CASE run[r].todo \in Seq({"must", "try"})
    BY <1>a, <2>1
  <2>2. QED BY <1>a, <2>1 DEF Left
<1>c. run[r].pc # "lost" /\ ~IsClosed(r)
  BY <1>a, <1>b DEF IsClosed, Over
<1>1. ASSUME NEW d, DOMAIN d \subseteq {"cur", "stray", "asked"}, "cur" \in DOMAIN d => d["cur"] = 0,
             Becomes(r, d @@ Done(r)), Fades(r),
             DOMAIN box' = DOMAIN box, \A q \in DOMAIN box : q # r => box'[q] = box[q],
             ~Herdr(r) /\ ~run[r].err => AllAsked(r)'
      PROVE  IInv'
  <2>1. Within(r) /\ UNCHANGED Account(r) /\ run'[r].todo = Tail(run[r].todo)
    BY <1>a, <1>1, DoneMoves
  <2>2. /\ run'[r]["cur"] = IF "cur" \in DOMAIN d THEN d["cur"] ELSE run[r]["cur"]
        /\ run'[r]["opened"] = run[r]["opened"] /\ run'[r]["used"] = run[r]["used"]
    BY <1>a, <1>1, DoneMoves
  <2>3. run'[r].cur \in Nat /\ run'[r].opened \in BOOLEAN /\ box'[r] \in Seq(BoxType)
    BY <1>a, <1>1, <2>2 DEF Fades
  <2>4. Fenced(r)'
    BY <1>a, <1>1, <2>2, FadeKeeps
  <2>5. Homed(r)'
    <3>1. SUFFICES ASSUME ~Herdr(r), ~run[r].err
                   PROVE  IsClosed(r)' /\ AllAsked(r)'
      BY <2>1 DEF Homed, Herdr, Account, Within
    <3>2. run[r].todo = <<"close">>
      BY <1>a, <1>b, <3>1 DEF Left
    <3>3. run'[r].todo = <<>> /\ run'[r].pc = "terminate"
      BY <1>b, <2>1, <3>2 DEF Within
    <3>4. QED BY <1>1, <3>1, <3>3 DEF IsClosed
  <2>6. RunInv(r)'
    BY <1>a, <2>1, <2>2, <2>3, <2>4, <2>5, WithinKeeps
  <2>7. QED BY <1>a, <1>1, <2>6, OneChanges, OthersKeep
<1>2. CASE CloseIsEmpty(r) /\ Becomes(r, Done(r)) /\ UNCHANGED box
  <2> DEFINE d == <<>>
  <2>1. DOMAIN d = {} /\ Becomes(r, d @@ Done(r))
    BY <1>2, OverNothing
  <2> HIDE DEF d
  <2>2. Fades(r)
    BY <1>a, <1>2, StillFades
  <2>3. ~Herdr(r) /\ ~run[r].err => AllAsked(r)'
    <3>1. ~Herdr(r) /\ ~run[r].err => box'[r] = <<>>
      BY <1>a, <1>b, <1>c, <1>2, CloseIsEnough
    <3>2. QED BY <3>1 DEF AllAsked
  <2>4. QED BY <1>1, <1>2, <2>1, <2>2, <2>3
<1>3. CASE ~CloseIsEmpty(r) /\ box' \in Kill(r, Closing(r)) /\ Becomes(r, Closed(r) @@ Done(r))
  <2> DEFINE d == Closed(r)
  <2>1. /\ DOMAIN d \subseteq {"cur", "stray", "asked"} /\ ("cur" \in DOMAIN d => d["cur"] = 0)
        /\ "asked" \in DOMAIN d /\ d["asked"] = run[r].asked \cup {Closing(r)}
    BY DEF Closed, @@
  <2>2. Becomes(r, d @@ Done(r))
    BY <1>3
  <2> HIDE DEF d
  <2>3. Fades(r) /\ DOMAIN box' = DOMAIN box /\ \A q \in DOMAIN box : q # r => box'[q] = box[q]
    BY <1>a, <1>3, KillFades
  <2>4. ~Herdr(r) /\ ~run[r].err => AllAsked(r)'
    <3>1. SUFFICES ASSUME ~Herdr(r), ~run[r].err PROVE AllAsked(r)'
      OBVIOUS
    <3>2. Closing(r) = 1 /\ Len(box[r]) = 1
      BY <1>a, <1>b, <1>c, <1>3, <3>1, CloseIsEnough
    <3>3. DOMAIN box'[r] = {1}
      BY <2>3, <3>2 DEF Fades
    <3>4. run'[r]["asked"] = d["asked"]
      BY <1>a, <2>1, <2>2, DoneMoves
    <3>5. QED BY <2>1, <3>2, <3>3, <3>4 DEF AllAsked
  <2>5. QED BY <1>1, <2>1, <2>2, <2>3, <2>4
<1>4. CASE Becomes(r, Forgets(r) @@ Raise(r)) /\ box' \in Kill(r, Closing(r))
  <2> DEFINE d == Forgets(r)
  <2>1. DOMAIN d \subseteq {"cur"} /\ ("cur" \in DOMAIN d => d["cur"] = 0)
    BY DEF Forgets
  <2>2. Becomes(r, d @@ Raise(r))
    BY <1>4
  <2> HIDE DEF d
  <2>3. run[r].pc \in Phases \ {"sweep"}
    BY <1>a, <1>b
  <2>4. Thrown(r) /\ UNCHANGED Account(r)
    BY <1>a, <2>1, <2>2, <2>3, RaiseThrows
  <2>5. /\ run'[r]["cur"] = IF "cur" \in DOMAIN d THEN d["cur"] ELSE run[r]["cur"]
        /\ run'[r]["opened"] = run[r]["opened"]
        /\ run'[r]["used"] = run[r]["used"] /\ run'[r]["tree"] = run[r]["tree"]
    BY <1>a, <2>1, <2>2, <2>3, RaiseElse
  <2>9. Fades(r) /\ DOMAIN box' = DOMAIN box /\ \A q \in DOMAIN box : q # r => box'[q] = box[q]
    BY <1>a, <1>4, KillFades
  <2>6. /\ Fenced(r)' /\ run'[r].cur \in Nat /\ run'[r].opened \in BOOLEAN
        /\ box'[r] \in Seq(BoxType)
    BY <1>a, <2>1, <2>5, <2>9, FadeKeeps DEF Fades
  <2>7. RunInv(r)'
    BY <1>a, <1>b, <2>3, <2>4, <2>5, <2>6, ThrowKeeps
  <2>8. QED BY <1>a, <1>4, <2>7, <2>9, OneChanges, OthersKeep
<1>5. QED BY <1>2, <1>3, <1>4 DEF Terminate

-----------------------------------------------------------------------------
(* After the session *)

\* What a run keeps once its session is over.
Tally(r) == <<run[r].agent, run[r].opened, run[r].err, run[r].turns, run[r].rows, run[r].used,
              run[r].tree, run[r].result>>
LEMMA OverKeeps ==
  ASSUME IInv, NEW r \in DOMAIN run, NEW c, Becomes(r, c), UNCHANGED provider,
         DOMAIN run'[r] = Fields, UNCHANGED Tally(r), run[r].pc \in Over, run'[r].pc \in Over \ {"done"},
         run'[r].cur \in Nat, box'[r] \in Seq(BoxType), Fenced(r)', AllAsked(r) => AllAsked(r)',
         DOMAIN box' = DOMAIN box, \A q \in DOMAIN box : q # r => box'[q] = box[q]
  PROVE  IInv'
<1>a. /\ RunInv(r) /\ DOMAIN box = DOMAIN run
      /\ run'[r].agent = run[r].agent /\ run'[r].opened = run[r].opened /\ run'[r].err = run[r].err
      /\ run'[r].turns = run[r].turns /\ run'[r].rows = run[r].rows /\ run'[r].used = run[r].used
      /\ run'[r].tree = run[r].tree /\ run'[r].result = run[r].result /\ Herdr(r)' = Herdr(r)
  BY DEF IInv, Tally, Herdr
<1>1. Shape(r)'
  BY <1>a DEF RunInv, Shape
<1>2. Todo(r)'
  <2>1. run'[r].pc \notin Phases
    BY DEF Over, Phases
  <2>2. QED BY <2>1, LeftOutside DEF Todo
<1>3. Metered(r)'
  <2>1. /\ run[r].turns \in {0, 1} /\ Len(run[r].rows) \in {0, run[r].turns}
        /\ ~Herdr(r) \/ ~run[r].err => Len(run[r].rows) = run[r].turns
        /\ \A k \in DOMAIN run[r].rows : run[r].rows[k].source = "reported" <=> run[r].used > 0
    BY <1>a DEF RunInv, Metered
  <2>2. QED BY <1>a, <2>1 DEF Metered, Early, InTurn, After, Leaving, Over
<1>4. Homed(r)'
  <2>1. IsClosed(r) /\ IsClosed(r)' /\ run[r].pc # "lost"
    BY DEF IsClosed, Over
  <2>2. QED BY <1>a, <2>1 DEF RunInv, Homed
<1>5. Brought(r)'
  BY <1>a DEF RunInv, Brought, Early, InTurn, After, Over
<1>6. RunInv(r)'
  BY <1>1, <1>2, <1>3, <1>4, <1>5 DEF RunInv
<1>7. QED BY <1>a, <1>6, OneChanges, OthersKeep

\* The adapter's own close, and the kills that follow one that failed.
LEMMA TeardownKeeps ==
  ASSUME IInv, NEW r \in DOMAIN run, Teardown(r) \/ Retry(r) \/ NoRelease(r)
  PROVE  IInv'
<1>a. /\ UNCHANGED provider /\ RunInv(r) /\ DOMAIN run[r] = Fields /\ Fenced(r) /\ box[r] \in Seq(BoxType)
      /\ r \in DOMAIN box /\ run[r].pc \in Over /\ run[r].cur \in Nat
  BY DEF Teardown, Retry, NoRelease, At, Local, Idle, IInv, RunInv, Shape, Over
<1>1. ASSUME NEW c, Becomes(r, c),
             DOMAIN c \subseteq {"id", "mode", "pc", "cur", "stray", "cleanup", "tries", "asked"},
             "asked" \in DOMAIN c => run[r].asked \subseteq c["asked"],
             IF "pc" \in DOMAIN c THEN c["pc"] \in {"release", "retry", "settle"} ELSE run[r].pc = "retry",
             "cur" \in DOMAIN c => c["cur"] = 0,
             box' = box \/ (\E i : box' \in Kill(r, i))
      PROVE  IInv'
  <2>1. /\ DOMAIN run'[r] = Fields /\ UNCHANGED Tally(r)
        /\ run'[r].pc \in {"release", "retry", "settle"} /\ run'[r].cur \in Nat
        /\ run[r].asked \subseteq run'[r].asked
    <3>1. run'[r] = c @@ run[r]
      BY <1>1 DEF Becomes
    <3>2. DOMAIN run'[r] = Fields
      BY <1>a, <1>1, <3>1 DEF @@, Fields
    <3>3. ASSUME NEW x \in Fields
          PROVE  run'[r][x] = IF x \in DOMAIN c THEN c[x] ELSE run[r][x]
      BY <1>a, <3>1 DEF @@
    <3>4. /\ run'[r]["pc"] = IF "pc" \in DOMAIN c THEN c["pc"] ELSE run[r]["pc"]
          /\ run'[r]["cur"] = IF "cur" \in DOMAIN c THEN c["cur"] ELSE run[r]["cur"]
          /\ run'[r]["asked"] = IF "asked" \in DOMAIN c THEN c["asked"] ELSE run[r]["asked"]
      BY <3>3 DEF Fields
    <3>5. /\ run'[r]["agent"] = run[r]["agent"] /\ run'[r]["opened"] = run[r]["opened"]
          /\ run'[r]["err"] = run[r]["err"] /\ run'[r]["turns"] = run[r]["turns"]
          /\ run'[r]["rows"] = run[r]["rows"] /\ run'[r]["used"] = run[r]["used"]
          /\ run'[r]["tree"] = run[r]["tree"] /\ run'[r]["result"] = run[r]["result"]
      BY <1>1, <3>3 DEF Fields
    <3>6. QED BY <1>a, <1>1, <3>2, <3>4, <3>5 DEF Tally
  <2>2. Fades(r) /\ DOMAIN box' = DOMAIN box /\ \A q \in DOMAIN box : q # r => box'[q] = box[q]
    BY <1>a, <1>1, KillFades, StillFades
  <2>3. Fenced(r)' /\ (AllAsked(r) => AllAsked(r)') /\ box'[r] \in Seq(BoxType)
    BY <1>a, <2>1, <2>2, FadeKeeps DEF Fades, Tally
  <2>4. run'[r].pc \in Over \ {"done"}
    BY <2>1 DEF Over
  <2>5. QED BY <1>a, <1>1, <2>1, <2>2, <2>3, <2>4, OverKeeps

<1>3. CASE Teardown(r)
  <2> DEFINE kept == [id |-> Known(r), mode |-> Confirm(r, Known(r)), pc |-> "release"]
             late == IF Known(r) = 0 THEN <<>> ELSE [pc |-> "retry"]
             kill == [cleanup |-> TRUE]
  <2>1. DOMAIN kept = {"id", "mode", "pc"} /\ kept["pc"] = "release"
    OBVIOUS
  <2>2. /\ DOMAIN Forgets(r) \subseteq {"cur"} /\ ("cur" \in DOMAIN Forgets(r) => Forgets(r)["cur"] = 0)
        /\ DOMAIN Closed(r) \subseteq {"cur", "stray", "asked"}
        /\ ("cur" \in DOMAIN Closed(r) => Closed(r)["cur"] = 0)
        /\ "asked" \in DOMAIN Closed(r) /\ run[r].asked \subseteq Closed(r)["asked"]
    BY DEF Forgets, Closed, @@
  <2>3. DOMAIN kill = {"cleanup"} /\ DOMAIN late \subseteq {"pc"} /\ ("pc" \in DOMAIN late => late["pc"] = "retry")
    OBVIOUS
  <2>4. \/ Becomes(r, kept) /\ box' = box
        \/ Becomes(r, Closed(r) @@ kept) /\ \E i : box' \in Kill(r, i)
        \/ Becomes(r, Forgets(r) @@ kill @@ late @@ kept) /\ \E i : box' \in Kill(r, i)
    BY <1>3 DEF Teardown
  <2> HIDE DEF kept, late, kill
  <2>5. CASE Becomes(r, kept) /\ box' = box
    BY <1>1, <2>1, <2>5
  <2>6. CASE Becomes(r, Closed(r) @@ kept) /\ \E i : box' \in Kill(r, i)
    <3>1. PICK c : c = Closed(r) @@ kept
      OBVIOUS
    <3>a. /\ DOMAIN c = DOMAIN Closed(r) \cup DOMAIN kept
          /\ \A x \in DOMAIN c : c[x] = IF x \in DOMAIN Closed(r) THEN Closed(r)[x] ELSE kept[x]
      BY <3>1 DEF @@
    <3>2. /\ DOMAIN c = DOMAIN Closed(r) \cup {"id", "mode", "pc"}
          /\ c["pc"] = "release" /\ ("cur" \in DOMAIN c => c["cur"] = 0)
          /\ run[r].asked \subseteq c["asked"]
      BY <2>1, <2>2, <3>a
    <3>3. QED BY <1>1, <2>2, <2>6, <3>1, <3>2
  <2>7. CASE Becomes(r, Forgets(r) @@ kill @@ late @@ kept) /\ \E i : box' \in Kill(r, i)
    <3>1. PICK e : e = Forgets(r) @@ kill
      OBVIOUS
    <3>a. /\ DOMAIN e = DOMAIN Forgets(r) \cup DOMAIN kill
          /\ \A x \in DOMAIN e : e[x] = IF x \in DOMAIN Forgets(r) THEN Forgets(r)[x] ELSE kill[x]
      BY <3>1 DEF @@
    <3>2. DOMAIN e \subseteq {"cur", "cleanup"} /\ ("cur" \in DOMAIN e => e["cur"] = 0)
      BY <2>2, <2>3, <3>a
    <3>3. PICK g : g = e @@ late
      OBVIOUS
    <3>b. /\ DOMAIN g = DOMAIN e \cup DOMAIN late
          /\ \A x \in DOMAIN g : g[x] = IF x \in DOMAIN e THEN e[x] ELSE late[x]
      BY <3>3 DEF @@
    <3>4. /\ DOMAIN g \subseteq {"cur", "cleanup", "pc"} /\ ("cur" \in DOMAIN g => g["cur"] = 0)
          /\ ("pc" \in DOMAIN g => g["pc"] = "retry")
      BY <2>3, <3>2, <3>b
    <3>5. PICK c : c = g @@ kept
      OBVIOUS
    <3>c. /\ DOMAIN c = DOMAIN g \cup DOMAIN kept
          /\ \A x \in DOMAIN c : c[x] = IF x \in DOMAIN g THEN g[x] ELSE kept[x]
      BY <3>5 DEF @@
    <3>6. /\ DOMAIN c \subseteq {"cur", "cleanup", "pc", "id", "mode"} /\ ("cur" \in DOMAIN c => c["cur"] = 0)
          /\ "pc" \in DOMAIN c /\ c["pc"] \in {"release", "retry"}
      BY <2>1, <3>4, <3>c
    <3>7. Becomes(r, c)
      BY <2>7, <3>1, <3>3, <3>5
    <3>8. QED BY <1>1, <2>7, <3>6, <3>7
  <2>8. QED BY <2>4, <2>5, <2>6, <2>7
<1>4. CASE Retry(r)
  <2>0. run[r].pc = "retry"
    BY <1>4 DEF Retry, At
  <2>1. CASE /\ Becomes(r, [cleanup |-> FALSE, pc |-> "release", asked |-> run[r].asked \cup {run[r].id}])
             /\ box' \in Kill(r, run[r].id)
    <3>1. PICK c : c = [cleanup |-> FALSE, pc |-> "release", asked |-> run[r].asked \cup {run[r].id}]
      OBVIOUS
    <3>2. /\ DOMAIN c = {"cleanup", "pc", "asked"} /\ c["pc"] = "release"
          /\ run[r].asked \subseteq c["asked"]
      BY <3>1
    <3>3. Becomes(r, c)
      BY <2>1, <3>1
    <3>4. QED BY <1>1, <2>1, <3>2, <3>3
  <2>2. CASE Becomes(r, [tries |-> run[r].tries + 1]) /\ box' \in Kill(r, run[r].id)
    BY <1>1, <2>0, <2>2
  <2>3. CASE Becomes(r, [pc |-> "release"]) /\ box' = box
    BY <1>1, <2>3
  <2>4. QED BY <1>4, <2>1, <2>2, <2>3 DEF Retry
<1>5. CASE NoRelease(r)
  <2>1. Becomes(r, [pc |-> "settle"]) /\ box' = box
    BY <1>5 DEF NoRelease, Local
  <2>2. QED BY <1>1, <2>1
<1>6. QED BY <1>3, <1>4, <1>5

\* A row is closed only for a sandbox that is gone.
LEMMA ReleaseKeeps ==
  ASSUME IInv, NEW r \in DOMAIN run, Release(r)
  PROVE  IInv'
<1>a. /\ UNCHANGED provider /\ RunInv(r) /\ DOMAIN run[r] = Fields /\ Fenced(r) /\ box[r] \in Seq(BoxType)
      /\ r \in DOMAIN box /\ run[r].pc \in Over /\ run[r].cur \in Nat /\ Becomes(r, [pc |-> "settle"])
  BY DEF Release, At, Idle, IInv, RunInv, Shape, Over
<1>b. PICK killed \in SUBSET Identified(r) : \E told \in SUBSET Absent(r, killed) :
        box' = [box EXCEPT ![r] = [i \in DOMAIN @ |->
            [alive |-> @[i].alive /\ i \notin killed,
             row |-> IF i \in told THEN "absent" ELSE @[i].row]]]
  BY DEF Release
<1>f. PICK told \in SUBSET Absent(r, killed) :
        box' = [box EXCEPT ![r] = [i \in DOMAIN @ |->
            [alive |-> @[i].alive /\ i \notin killed,
             row |-> IF i \in told THEN "absent" ELSE @[i].row]]]
  BY <1>b
<1>c. /\ DOMAIN box' = DOMAIN box /\ \A q \in DOMAIN box : q # r => box'[q] = box[q]
      /\ box'[r] = [i \in DOMAIN box[r] |->
            [alive |-> box[r][i].alive /\ i \notin killed,
             row |-> IF i \in told THEN "absent" ELSE box[r][i].row]]
  BY <1>a, <1>f
<1>d. DOMAIN box[r] = 1 .. Len(box[r]) /\ Len(box[r]) \in Nat /\ DOMAIN box'[r] = 1 .. Len(box[r])
  BY <1>a, <1>c
<1>e. ASSUME NEW i \in 1 .. Len(box[r])
      PROVE  /\ box'[r][i] \in BoxType
             /\ box'[r][i].alive <=> box[r][i].alive /\ i \notin killed
             /\ box'[r][i].row = IF i \in told THEN "absent" ELSE box[r][i].row
  <2>1. box[r][i] \in BoxType
    BY <1>a, <1>d
  <2>2. box[r][i].alive \in BOOLEAN /\ box[r][i].row \in {"creating", "identified", "absent"}
    BY <2>1 DEF BoxType
  <2>3. box'[r][i] = [alive |-> box[r][i].alive /\ i \notin killed,
                      row |-> IF i \in told THEN "absent" ELSE box[r][i].row]
    BY <1>c, <1>d
  <2>4. (box[r][i].alive /\ i \notin killed) \in BOOLEAN
    OBVIOUS
  <2>5. (IF i \in told THEN "absent" ELSE box[r][i].row) \in {"creating", "identified", "absent"}
    BY <2>2
  <2>6. ASSUME NEW al \in BOOLEAN, NEW ro \in {"creating", "identified", "absent"}
        PROVE  LET b == [alive |-> al, row |-> ro] IN b \in BoxType /\ (b.alive <=> al) /\ b.row = ro
    BY DEF BoxType
  <2>7. QED BY <2>3, <2>4, <2>5, <2>6
<1>1. box'[r] \in Seq(BoxType) /\ Len(box'[r]) = Len(box[r])
  <2>1. box'[r] \in [1 .. Len(box[r]) -> BoxType]
    BY <1>c, <1>d, <1>e
  <2>2. QED BY <1>d, <2>1
<1>2. /\ DOMAIN run'[r] = Fields /\ run'[r].pc = "settle" /\ UNCHANGED Tally(r) /\ run'[r].cur = run[r].cur
      /\ run'[r].opened = run[r].opened /\ run'[r].asked = run[r].asked
  BY <1>a DEF Becomes, @@, Fields, Tally
<1>3. Fenced(r)'
  <2>1. ASSUME run'[r].opened
        PROVE  box'[r] # <<>> /\ box'[r][Len(box'[r])] = [alive |-> FALSE, row |-> "creating"]
    <3>1. box[r] # <<>> /\ box[r][Len(box[r])] = [alive |-> FALSE, row |-> "creating"]
      BY <1>a, <1>2, <2>1 DEF Fenced
    <3>2. Len(box[r]) \in 1 .. Len(box[r])
      BY <1>d, <3>1
    <3>3. Len(box[r]) \notin told
      BY <1>f, <3>1 DEF Absent, Identified
    <3>4. ~box'[r][Len(box[r])].alive /\ box'[r][Len(box[r])].row = "creating"
      BY <1>e, <3>1, <3>2, <3>3
    <3>5. \A b \in BoxType : ~b.alive /\ b.row = "creating" => b = [alive |-> FALSE, row |-> "creating"]
      BY DEF BoxType
    <3>6. box'[r][Len(box[r])] = [alive |-> FALSE, row |-> "creating"]
      BY <1>e, <3>2, <3>4, <3>5
    <3>7. box'[r] # <<>>
      BY <1>d, <1>1, <3>2
    <3>8. QED BY <1>1, <3>6, <3>7
  <2>2. ASSUME NEW i \in 1 .. Len(box[r]), box'[r][i].alive PROVE box'[r][i].row # "absent"
    <3>1. box[r][i].alive /\ i \notin killed
      BY <1>e, <2>2
    <3>2. i \notin told
      BY <1>f, <3>1 DEF Absent
    <3>3. QED BY <1>a, <1>d, <1>e, <3>1, <3>2 DEF Fenced
  <2>3. QED BY <1>d, <2>1, <2>2 DEF Fenced
<1>4. AllAsked(r) => AllAsked(r)'
  BY <1>d, <1>2 DEF AllAsked
<1>5. run'[r].pc \in Over \ {"done"} /\ run'[r].cur \in Nat
  BY <1>a, <1>2 DEF Over
<1>6. QED BY <1>a, <1>c, <1>1, <1>2, <1>3, <1>4, <1>5, OverKeeps

\* The result: a run that raised says so.
LEMMA SettleKeeps ==
  ASSUME IInv, NEW r \in DOMAIN run, Settle(r)
  PROVE  IInv'
<1>a. /\ RunInv(r) /\ DOMAIN run[r] = Fields /\ run[r].pc = "settle" /\ UNCHANGED <<box, provider>>
      /\ run[r].err \in BOOLEAN
  BY DEF Settle, At, IInv, RunInv, Shape
<1>b. PICK l, s : /\ Becomes(r, [pc |-> "done", ledger |-> l, result |-> s])
                  /\ s = IF run[r].err THEN "raised"
                         ELSE IF run[r].cleanup THEN "cleanup_failed" ELSE run[r].result
  BY DEF Settle
<1>c. s \in {"raised", "cleanup_failed"} \/ (s = run[r].result /\ ~run[r].err)
  BY <1>b
<1>d. s # "raised" => ~run[r].err
  BY <1>b
<1>1. /\ DOMAIN run'[r] = Fields /\ run'[r].pc = "done" /\ UNCHANGED Calm(r)
      /\ run'[r].turns = run[r].turns /\ run'[r].rows = run[r].rows /\ run'[r].result = s
  <2>1. Becomes(r, [pc |-> "done", ledger |-> l, result |-> s])
    BY <1>b
  <2>2. QED BY <1>a, <2>1 DEF Becomes, @@, Fields, Calm
<1>2. /\ run[r].turns \in {0, 1} /\ Len(run[r].rows) \in {0, run[r].turns}
      /\ ~Herdr(r) \/ ~run[r].err => Len(run[r].rows) = run[r].turns
      /\ \A k \in DOMAIN run[r].rows : run[r].rows[k].source = "reported" <=> run[r].used > 0
  BY <1>a DEF RunInv, Metered, Over
<1>3. /\ Herdr(r)' = Herdr(r) /\ run'[r].err = run[r].err /\ run'[r].used = run[r].used
      /\ run'[r].tree = run[r].tree
  BY <1>1 DEF Calm, Herdr
<1>4. Metered(r)'
  BY <1>d, <1>1, <1>2, <1>3 DEF Metered, Early, InTurn, After, Leaving, Over
<1>5. Brought(r)'
  BY <1>a, <1>c, <1>1, <1>3 DEF RunInv, Brought, Early, InTurn, After
<1>6. /\ IsClosed(r) /\ IsClosed(r)' /\ run[r].pc # "lost" /\ Rests(r)
      /\ "done" \in Over /\ "done" \notin Phases
  BY <1>a, <1>1 DEF IsClosed, Over, Phases, Rests
<1>7. QED BY <1>a, <1>b, <1>1, <1>4, <1>5, <1>6, MoveKeeps DEF Steady, Calm

-----------------------------------------------------------------------------
(* The provider and the process *)

\* A sandbox ends by itself: no run learns of it, and the fence stays.
LEMMA ExpireKeeps ==
  ASSUME IInv, NEW r \in DOMAIN run, Expire(r)
  PROVE  IInv'
<1>a. /\ UNCHANGED <<run, provider>> /\ RunInv(r) /\ Fenced(r) /\ box[r] \in Seq(BoxType) /\ r \in DOMAIN box
      /\ DOMAIN box = DOMAIN run /\ \E i \in DOMAIN box[r] : box' = Dead(r, i)
  BY DEF Expire, Idle, IInv, RunInv, Shape
<1>b. Fades(r) /\ DOMAIN box' = DOMAIN box /\ \A q \in DOMAIN box : q # r => box'[q] = box[q]
  BY <1>a, DeadFades
<1>c. Fenced(r)' /\ (AllAsked(r) => AllAsked(r)')
  BY <1>a, <1>b, FadeKeeps
<1>1. Shape(r)' /\ Todo(r)' /\ Metered(r)' /\ Brought(r)'
  BY <1>a, <1>b DEF RunInv, Shape, Todo, Metered, Brought, Herdr, Fades
<1>2. Alone(r) => Alone(r)'
  <2>1. box[r] = <<>> => box'[r] = <<>>
    BY <1>a, <1>b DEF Fades
  <2>2. QED BY <1>a, <1>b, <2>1 DEF Alone, Fades
<1>3. Homed(r)'
  <2>1. (IsClosed(r)' <=> IsClosed(r)) /\ (Herdr(r)' <=> Herdr(r))
    BY <1>a DEF IsClosed, Herdr
  <2>2. QED BY <1>a, <1>c, <1>2, <2>1 DEF RunInv, Homed
<1>4. RunInv(r)'
  BY <1>c, <1>1, <1>3 DEF RunInv
<1>5. QED BY <1>a, <1>b, <1>4, OthersKeep

\* The process dies, and the sandboxes and their rows outlive it.
LEMMA DieKeeps ==
  ASSUME IInv, Die
  PROVE  IInv'
<1>a. /\ DOMAIN run' = DOMAIN run /\ UNCHANGED <<box, provider>>
      /\ \A r \in DOMAIN run :
           run'[r] = [pc |-> "lost", mode |-> run[r].mode] @@ Fresh(run[r].agent)
  BY DEF Die
<1>1. ASSUME NEW r \in DOMAIN run PROVE RunInv(r)'
  <2>a. RunInv(r) /\ run[r].agent \in HerdrKinds \cup HeadlessKinds /\ box[r] \in Seq(BoxType)
    BY DEF IInv, RunInv, Shape
  <2>b. PICK m, a : m = run[r].mode /\ a = run[r].agent
    OBVIOUS
  <2>c. run'[r] = [pc |-> "lost", mode |-> m] @@ Fresh(a)
    BY <1>a, <2>b
  <2>d. /\ DOMAIN run'[r] = Fields /\ run'[r].pc = "lost" /\ run'[r].agent = a /\ run'[r].cur = 0
        /\ run'[r].opened = FALSE /\ run'[r].err = FALSE /\ run'[r].turns = 0 /\ run'[r].rows = <<>>
        /\ run'[r].used = 0 /\ run'[r].result = "none"
    BY <2>c DEF @@, Fresh, Fields
  <2>1. Shape(r)'
    <3>1. run'[r].cur \in Nat
      BY <2>d
    <3>2. run'[r].opened \in BOOLEAN /\ run'[r].err \in BOOLEAN
      BY <2>d, Zenon
    <3>3. QED BY <1>a, <2>a, <2>b, <2>d, <3>1, <3>2 DEF Shape, Early
  <2>2. Todo(r)'
    <3>1. run'[r].pc \notin Phases
      BY <2>d DEF Phases
    <3>2. QED BY <3>1, LeftOutside DEF Todo
  <2>3. Fenced(r)'
    BY <1>a, <2>a, <2>d DEF RunInv, Fenced
  <2>4. Metered(r)' /\ Brought(r)'
    BY <2>d DEF Metered, Brought, Early, InTurn, After, Leaving, Over
  <2>5. Homed(r)'
    BY <2>d DEF Homed
  <2>6. QED BY <2>1, <2>2, <2>3, <2>4, <2>5 DEF RunInv
<1>2. QED BY <1>a, <1>1 DEF IInv

-----------------------------------------------------------------------------
(* The theorems *)

LEMMA InvInit == Init => IInv
<1> SUFFICES ASSUME Init PROVE IInv
  OBVIOUS
<1>a. PICK fleet \in Fleets : /\ run = [r \in DOMAIN fleet |-> Fresh(fleet[r])]
                              /\ box = [r \in DOMAIN fleet |-> <<>>]
  BY DEF Init
<1>b. provider \in {"e2b", "daytona"}
  BY ProviderAssumption DEF Init
<1>c. \A r \in DOMAIN fleet : fleet[r] \in HerdrKinds \cup HeadlessKinds
  BY FleetAssumption
<1>1. ASSUME NEW r \in DOMAIN run PROVE RunInv(r)
  <2>a. PICK a \in HerdrKinds \cup HeadlessKinds : run[r] = Fresh(a) /\ box[r] = <<>>
    BY <1>a, <1>c
  <2>b. /\ DOMAIN run[r] = Fields /\ run[r].pc = "idle" /\ run[r].agent = a /\ run[r].cur = 0
        /\ run[r].opened = FALSE /\ run[r].err = FALSE /\ run[r].turns = 0 /\ run[r].rows = <<>>
        /\ run[r].used = 0 /\ run[r].result = "none" /\ run[r].stray = 0
    BY <2>a DEF Fresh, Fields
  <2>1. Shape(r)
    <3>1. run[r].cur \in Nat /\ box[r] \in Seq(BoxType)
      BY <2>a, <2>b
    <3>2. run[r].opened \in BOOLEAN /\ run[r].err \in BOOLEAN
      BY <2>b, Zenon
    <3>3. QED BY <2>a, <2>b, <3>1, <3>2 DEF Shape, Early
  <2>2. Todo(r)
    <3>1. run[r].pc \notin Phases
      BY <2>b DEF Phases
    <3>2. QED BY <3>1, LeftOutside DEF Todo
  <2>3. Fenced(r)
    BY <2>a, <2>b DEF Fenced
  <2>4. Metered(r) /\ Brought(r)
    BY <2>b DEF Metered, Brought, Early, InTurn, After, Leaving, Over
  <2>5. Homed(r)
    <3>1. ~IsClosed(r) /\ Alone(r)
      BY <2>a, <2>b DEF IsClosed, Alone, Over
    <3>2. QED BY <2>b, <3>1 DEF Homed
  <2>6. QED BY <2>1, <2>2, <2>3, <2>4, <2>5 DEF RunInv
<1>2. DOMAIN box = DOMAIN run
  BY <1>a
<1>3. QED BY <1>b, <1>1, <1>2 DEF IInv

LEMMA InvNext == IInv /\ [Next]_vars => IInv'
<1> SUFFICES ASSUME IInv, [Next]_vars PROVE IInv'
  OBVIOUS
<1>1. ASSUME NEW r \in DOMAIN run, Step(r) PROVE IInv'
  <2>1. CASE Admit(r) \/ Busy(r) \/ RefuseConfig(r) \/ Refuse(r) \/ Staged(r) \/ Started(r)
    BY <2>1, AdmitKeeps, RefuseKeeps
  <2>2. CASE Fence(r) \/ Provision(r) \/ ProvisionFails(r) \/ Unidentified(r) \/ SeedFails(r)
    BY <2>2, FenceKeeps, ProvisionKeeps, ProvisionFailsKeeps
  <2>3. CASE CleanupPending(r) \/ Answers(r) \/ TurnAnswers(r) \/ CommandFails(r) \/ CommandTimesOut(r)
    BY <2>3, AnswersKeeps, TurnAnswersKeeps, CommandFailsKeeps, CommandTimesOutKeeps
  <2>4. CASE Seen(r) \/ Queried(r) \/ TurnEnds(r) \/ Swept(r) \/ SeenTurn(r) \/ RecordTurn(r)
    BY <2>4, SeenKeeps, TurnKeeps, RecordTurnKeeps
  <2>5. CASE Observed(r) \/ Collected(r) \/ Ending(r) \/ Terminate(r) \/ Terminated(r)
    BY <2>5, CollectKeeps, EndingKeeps, TerminateKeeps
  <2>6. CASE Teardown(r) \/ Retry(r) \/ Release(r) \/ NoRelease(r) \/ Settle(r)
    BY <2>6, TeardownKeeps, ReleaseKeeps, SettleKeeps
  <2>7. QED BY <1>1, <2>1, <2>2, <2>3, <2>4, <2>5, <2>6 DEF Step
<1>2. CASE Die
  BY <1>2, DieKeeps
<1>3. ASSUME NEW r \in DOMAIN run, Expire(r) PROVE IInv'
  BY <1>3, ExpireKeeps
<1>4. CASE UNCHANGED vars
  <2>1. run' = run /\ box' = box /\ provider' = provider
    BY <1>4 DEF vars
  <2>2. ASSUME NEW r \in DOMAIN run PROVE RunInv(r)'
    <3>1. RunInv(r)
      BY DEF IInv
    <3>2. Shape(r)' /\ Fenced(r)' /\ Brought(r)'
      BY <2>1, <3>1 DEF RunInv, Shape, Fenced, Brought
    <3>3. Todo(r)' /\ Metered(r)'
      BY <2>1, <3>1 DEF RunInv, Todo, Metered, Herdr
    <3>4. Homed(r)'
      BY <2>1, <3>1 DEF RunInv, Homed, Herdr, Alone, AllAsked, IsClosed
    <3>5. QED BY <3>2, <3>3, <3>4 DEF RunInv
  <2>3. QED BY <2>1, <2>2 DEF IInv
<1>5. QED BY <1>1, <1>2, <1>3, <1>4 DEF Next, Step

\* The inductive invariant of LiveRun: every run, wherever it failed or stopped, is
\* fenced, metered and, unless it raised, in command of its one sandbox.
THEOREM LiveRunInvariance == Spec => []IInv
<1>1. QED BY InvInit, InvNext, PTL DEF Spec

\* For every fleet and provider: no failure, timeout, forgotten id, kill or death of
\* the process leaves a live sandbox whose row in remote_sandboxes is closed, so that
\* recovery can still find it (release_verified_sandboxes asks before it closes).
THEOREM EverySurvivorIsFenced == Spec => []SurvivorIsFenced
<1>1. IInv => SurvivorIsFenced
  BY DEF IInv, RunInv, Fenced, SurvivorIsFenced
<1>2. QED BY <1>1, LiveRunInvariance, PTL

\* For every fleet and provider: the finally clause of _MeteredRuntime.send leaves one
\* usage row for every headless turn, and for every turn of a Herdr run that returns
\* a result, and the row says reported exactly when tokens were known.
THEOREM TurnsAreMetered == Spec => []EveryTurnIsMetered
<1>1. ASSUME IInv PROVE EveryTurnIsMetered
  <2>1. ASSUME NEW r \in DOMAIN run, run[r].pc = "done"
        PROVE  /\ Len(run[r].rows) <= run[r].turns
               /\ ~Herdr(r) \/ run[r].result # "raised" => Len(run[r].rows) = run[r].turns
               /\ \A k \in DOMAIN run[r].rows : run[r].rows[k].source = "reported" <=> run[r].used > 0
    <3>1. Metered(r)
      BY <1>1 DEF IInv, RunInv
    <3>2. /\ run[r].turns \in {0, 1} /\ Len(run[r].rows) \in {0, run[r].turns}
          /\ ~Herdr(r) \/ ~run[r].err => Len(run[r].rows) = run[r].turns
          /\ run[r].result # "raised" => ~run[r].err
          /\ \A k \in DOMAIN run[r].rows : run[r].rows[k].source = "reported" <=> run[r].used > 0
      BY <2>1, <3>1 DEF Metered, Over
    <3>3. QED BY <3>2
  <2>2. QED BY <2>1 DEF EveryTurnIsMetered
<1>2. QED BY <1>1, LiveRunInvariance, PTL

\* For every fleet and provider: a run that returns a status has collected the agent's
\* tree, and a headless run that returns completed has killed, without an error, every
\* sandbox it opened.
THEOREM CompletedRunsForgetNothing == Spec => []NoSandboxForgotten
<1>1. ASSUME IInv PROVE NoSandboxForgotten
  <2>1. ASSUME NEW r \in DOMAIN run, run[r].pc = "done"
        PROVE  /\ run[r].result \in {"completed", "running", "cancelled", "terminated"} =>
                    run[r].tree = "agent"
               /\ run[r].result = "completed" /\ ~Herdr(r) => DOMAIN box[r] \subseteq run[r].asked
    <3>1. Metered(r) /\ Homed(r) /\ Brought(r)
      BY <1>1 DEF IInv, RunInv
    <3>2. run[r].result \in {"completed", "running", "cancelled", "terminated"} => run[r].tree = "agent"
      BY <3>1 DEF Brought
    <3>3. ASSUME run[r].result = "completed", ~Herdr(r) PROVE DOMAIN box[r] \subseteq run[r].asked
      <4>1. ~run[r].err
        BY <2>1, <3>1, <3>3 DEF Metered
      <4>2. IsClosed(r) /\ run[r].pc # "lost"
        BY <2>1 DEF IsClosed, Over
      <4>3. QED BY <3>1, <3>3, <4>1, <4>2 DEF Homed, AllAsked
    <3>4. QED BY <3>2, <3>3
  <2>2. QED BY <2>1 DEF NoSandboxForgotten
<1>2. QED BY <1>1, LiveRunInvariance, PTL
============================================================================
