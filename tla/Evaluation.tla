------------------------------ MODULE Evaluation ------------------------------
(***************************************************************************)
(* How an Attempt's result becomes Evidence: ExecutionService.finish, the   *)
(* deterministic Evaluator with its sealed oracles, the acceptance gate, the*)
(* rows it stores and the readers that verify them later.                   *)
(*                                                                          *)
(* A tree is a record of two contents, of the files a check is made of      *)
(* (oracle) and of the code under test (subject); its digest is the tree    *)
(* itself.  The fixture also has files that are held out of the workspace.  *)
(* A check is pytest, a script or a linter.  It runs in a sealed            *)
(* copy of the fixture's oracle and the workspace's subject or, when it     *)
(* names absolute files, in the workspace, which it may change.  Its child  *)
(* process asserts, the notary passes on what the child said, and the       *)
(* Evaluator reads that when the process has ended.                         *)
(***************************************************************************)
EXTENDS Naturals, FiniteSets, Sequences, SequencesExt

CONSTANTS Tasks,      \* criteria, mapped checks and commands of a Task, and its Attempt's agent
          Checks,
          Kind,       \* of a check: pytest, script or lint
          Declares,   \* tests that the oracle files of a check declare, 0 if none is found
          Held,       \* the checks defined in the held-out manifest
          Random,     \* the checks that are given a seed
          Absolute,   \* the checks that name absolute files of the server
          Backend,    \* host, remote, or required when none is configured
          Sqlite,     \* the database drops the time zone of a timestamp
          MaxContent, \* bound on the contents a file can have
          MaxTests,   \* bound on the tests of a suite
          None

Contents == 0 .. MaxContent
Trees == [oracle : Contents, subject : Contents]
Results == {"pass", "fail", "skip", "out", "cut"}
Signal == 9 \* the exit of a process that a signal ended
Hung == 99 \* no exit at all

ASSUME EvaluationAssumption ==
  /\ Kind \in [Checks -> {"pytest", "script", "lint"}]
  /\ Held \subseteq Checks /\ Random \subseteq Checks /\ Absolute \subseteq Checks
  /\ Held \cap Absolute = {} /\ \A c \in Held : Kind[c] # "lint"
  /\ Backend \in {"host", "remote", "required"} /\ Sqlite \in BOOLEAN
  /\ MaxContent \in Nat \ {0} /\ MaxTests \in Nat \ {0} /\ Declares \in [Checks -> Nat]
  /\ None \notin Checks /\ None # "sdf-evaluator"

VARIABLES at,        \* where finish, or the check it runs, has got to
          task,      \* the Task's status and the declaration it is judged by
          fixture,   \* the server's fixture
          workspace, \* the Attempt's copy, without the held-out directory
          report,    \* the result tree an adapter reported, and whether it succeeded
          rev,       \* attempt_revisions: base and result tree
          diff,      \* the tree the diff artifact describes
          sealed,    \* the copy a check runs in: oracle, subject
          child,     \* what the oracle child did, what it wrote and its exit
          rows,      \* the Evaluator's Evidence, in order
          next,      \* the agenda's entry, later the row to store
          pending,   \* Evidence rows of the open transaction
          stored,    \* Evidence rows committed
          flushed,   \* the artifacts whose rows have been flushed
          lost,      \* the stored rows whose artifact file is gone or damaged
          key        \* SDF_EVIDENCE_MAC_KEY of the process

vars == <<at, task, fixture, workspace, report, rev, diff, sealed, child, rows, next, pending, stored, flushed, lost, key>>
run == <<sealed, child>>
db == <<pending, stored, flushed, lost, key>>

Ended == {"done", "failed", "dead"}
Statuses == {"PASS", "FAIL", "INCONCLUSIVE"}

-----------------------------------------------------------------------------
(* Faulty variants of definitions below, one plausible slip each. *)

\* The exit code of the child decides, and the frame only says what failed.
VerdictByExit(frame, exit, declared, changed) ==
  IF changed THEN "INCONCLUSIVE"
  ELSE IF exit # 0 \/ (frame # None /\ frame.failed > 0) THEN "FAIL" ELSE "PASS"
\* The tree is only noted for the reader.
DriftNoted(r) == [r EXCEPT !.after = workspace]
\* A criterion without a check is passed over.
AgendaOfChecks(t) ==
  LET of(c) == IF c \in DOMAIN t.mapped
               THEN [i \in DOMAIN t.mapped[c] |-> [crit |-> c, check |-> t.mapped[c][i]]] ELSE <<>>
  IN FlattenSeq([i \in DOMAIN t.criteria |-> of(t.criteria[i])])
\* The output's row is added, and left to the flush of the Evidence row.
WriteOutputLate ==
  /\ at = "record" /\ next <= Len(rows)
  /\ at' = "stamp"
  /\ UNCHANGED <<task, fixture, workspace, report, rev, diff, run, rows, next, db>>

-----------------------------------------------------------------------------
(* What is to be checked *)

Gap(c) == [crit |-> c, check |-> None]
\* The entries of one criterion: its checks in order, or the gap.
EntriesOf(t, c) ==
  IF c \in DOMAIN t.mapped /\ t.mapped[c] # <<>>
  THEN [i \in DOMAIN t.mapped[c] |-> [crit |-> c, check |-> t.mapped[c][i]]]
  ELSE <<Gap(c)>>
\* The loop over the criteria: a criterion that is listed twice is checked twice.
CriteriaEntries(t) ==
  LET upto[n \in 0 .. Len(t.criteria)] ==
        IF n = 0 THEN <<>> ELSE upto[n - 1] \o EntriesOf(t, t.criteria[n])
  IN upto[Len(t.criteria)]
\* evaluate: every criterion in order, a gap for one without a check, then the
\* mappings of no criterion, then, if no mapping was given, the commands.
Agenda(t) ==
  LET extra == SetToSeq({Gap(c) : c \in DOMAIN t.mapped \ Range(t.criteria)})
      legacy == IF t.given THEN <<>> ELSE t.commands
      bare  == [i \in DOMAIN legacy |-> [crit |-> None, check |-> legacy[i]]]
      all   == CriteriaEntries(t) \o extra \o bare
  IN IF all = <<>> THEN <<Gap(None)>> ELSE all
\* A declaration lists criteria, checks of criteria, if they are given, and commands.
ASSUME TaskAssumption ==
  \A t \in Tasks :
    /\ t.criteria \in Seq(Range(t.criteria)) /\ None \notin Range(t.criteria)
    /\ IsFiniteSet(DOMAIN t.mapped)
    /\ \A c \in DOMAIN t.mapped : c # None /\ t.mapped[c] \in Seq(Checks)
    /\ t.commands \in Seq(Checks)
    /\ t.given \in BOOLEAN /\ (~t.given => DOMAIN t.mapped = {})

Mapped(t) == UNION {Range(t.mapped[c]) : c \in DOMAIN t.mapped}
\* A check's policy comes from the slot it is mapped to: a command has none.
RequiresHidden(t) == Mapped(t) \cap (Held \cup Random) # {}
Hidden(e) == e.check \in Held \/ (e.check \in Random /\ e.crit # None)

Entry == Agenda(task.decl)[next]
Check == Entry.check

-----------------------------------------------------------------------------
(* Verdicts *)

\* What became of a test: passed, failed, skipped, out (deselected) or cut (not
\* reached).  Parameters make more tests than are declared, and a file may have fewer
\* than its functions.  A script is one test, and so is a linter.
Suites(c) == IF Kind[c] = "pytest" THEN UNION {[1 .. n -> Results] : n \in 0 .. MaxTests}
             ELSE [{1} -> {"pass", "fail", "cut"}]
Count(s, r) == Cardinality({i \in DOMAIN s : s[i] = r})
\* No test failed or was not reached, one passed, and at least as many were run or
\* skipped as the files of the check declare.
Sound(c, s) ==
  /\ \A i \in DOMAIN s : s[i] \notin {"fail", "cut"}
  /\ \E i \in DOMAIN s : s[i] = "pass"
  /\ Kind[c] = "pytest" => Count(s, "pass") + Count(s, "skip") >= Declares[c]

\* The plugin's frame at pytest_sessionfinish, from the reports and the session.
Frame(s) ==
  LET ok == Count(s, "fail") + Count(s, "cut") = 0 /\ Count(s, "out") < Len(s)
  IN [passed |-> Count(s, "pass"), failed |-> Count(s, "fail"), skipped |-> Count(s, "skip"),
      tests |-> Len(s) - Count(s, "out"), exit |-> IF ok THEN 0 ELSE 1]
Reported(f) == f.passed + f.failed + f.skipped

\* What a child can write and how it can end, given its suite: a session that
\* reaches its end writes the frame, and may still leave with another code or on a
\* signal; a child that leaves earlier has said nothing.  A script says that it
\* completed only when its own code has returned.
Says(c, s) == IF Kind[c] = "pytest" THEN {Frame(s), None}
              ELSE IF Kind[c] = "script" /\ s[1] = "pass" THEN {"completed"} ELSE {None}
Exits(c, s, said) ==
  CASE Kind[c] = "pytest" -> {0, 1, Signal, Hung}
    [] Kind[c] = "script" /\ said = None -> (IF s[1] = "fail" THEN {1} ELSE {0, 1, Signal, Hung})
    [] Kind[c] = "script" -> {0, 1, Signal}
    [] OTHER -> (IF s[1] = "pass" THEN {0} ELSE IF s[1] = "fail" THEN {1} ELSE {Signal, Hung})

PytestVerdict(frame, exit, declared, changed) ==
  IF changed THEN "INCONCLUSIVE"
  ELSE IF frame = None THEN "FAIL"
  ELSE IF frame.failed > 0 \/ frame.tests = 0 \/ Reported(frame) = 0 THEN "FAIL"
  ELSE IF Reported(frame) # frame.tests THEN "INCONCLUSIVE"
  ELSE IF (declared # 0 /\ Reported(frame) < declared) \/ frame.passed = 0 THEN "FAIL"
  ELSE IF exit # 0 \/ frame.exit # 0 THEN "INCONCLUSIVE"
  ELSE "PASS"

ScriptVerdict(frame, exit, changed) ==
  IF changed THEN "INCONCLUSIVE"
  ELSE IF exit = Signal \/ frame = None THEN "FAIL"
  ELSE IF exit # 0 THEN "INCONCLUSIVE" ELSE "PASS"

\* A linter, and a script in a remote backend, whose frame stays there.
ExitVerdict(exit, changed) == IF changed THEN "INCONCLUSIVE" ELSE IF exit = 0 THEN "PASS" ELSE "FAIL"

\* _overall, and the last lines of evaluate.
Overall(t, rs) ==
  IF \E i \in DOMAIN rs : rs[i].status = "FAIL" THEN "FAIL"
  ELSE IF \/ \E i \in DOMAIN rs : rs[i].status = "INCONCLUSIVE"
          \/ t.criteria = <<>>
       THEN "INCONCLUSIVE" ELSE "PASS"

-----------------------------------------------------------------------------
(* Content MACs.  A MAC is the key and the payload it covers; a row of format 1, *)
(* from before migration 0031, is not authentic and is not written any more.     *)

\* The column default is filled in and a time without a zone is read as UTC, so that
\* a row has the same payload before its INSERT and after it is loaded again.
Payload(r, artifact) ==
  [crit |-> r.crit, status |-> r.status, artifact |-> artifact, tree |-> r.bound,
   class |-> r.class, subject |-> r.subject, oracle |-> r.oracle, verifier |-> r.verifier,
   hidden |-> r.hidden, mode |-> IF r.mode = None THEN "synthetic" ELSE r.mode,
   zone |-> IF r.zone = "naive" THEN "utc" ELSE r.zone]

Mac(r, artifact) == [key |-> key, payload |-> Payload(r, artifact)]

\* before_insert: the artifact's digest is covered if its row has been flushed.
Stamp(r, known) == [r EXCEPT !.mac = Mac(r, IF r.artifact \in known THEN r.artifact ELSE None)]

\* What comes back from the database.
Loaded(r) == [r EXCEPT !.mode = IF @ = None THEN "synthetic" ELSE @,
                       !.zone = IF Sqlite THEN "naive" ELSE @]

Configured == key \in {"k1", "k2"}
MacOk(r) == Configured /\ r.mac = Mac(r, r.artifact)
\* verify_attempt_revision
Verify ==
  LET read == {Loaded(r) : r \in stored}
  IN IF \/ lost # {}
        \/ \E r \in read : ~MacOk(r)
        \/ \E r \in read : r.bound # rev.result
     THEN "failed"
     ELSE IF rev.result = None THEN "incomplete" ELSE "verified"

\* check_verification_acceptance: another verifier than the Attempt's agent, the diff
\* as the artifact that is accepted, an oracle, and in time.
Acceptable(r) == /\ r.class = "verification"
                 /\ r.verifier \notin {None, task.decl.agent}
                 /\ r.subject = diff /\ r.oracle # None /\ ~r.stale
\* is_verified_pass, as the API reads a row.
VerifiedPass(r) == r.status = "PASS" /\ Acceptable(r) /\ MacOk(Loaded(r))

-----------------------------------------------------------------------------
(* The Attempt until finish *)

\* WorkspaceManager.create; the same skip when the fixture is hashed again.
Copy(f) == [oracle |-> f.oracle, subject |-> f.subject]

Init ==
  /\ at = "begin"
  /\ task \in [status : {"running"}, decl : Tasks]
  /\ fixture = [oracle |-> 0, subject |-> 0, held |-> 0]
  /\ workspace = Copy(fixture)
  /\ report = [ok |-> FALSE, tree |-> None]
  /\ rev = [base |-> None, result |-> None]
  /\ diff = None /\ sealed = None /\ child = None
  /\ rows = <<>> /\ next = 1
  /\ pending = {} /\ stored = {} /\ flushed = {} /\ lost = {}
  /\ key \in {"k1", "dev"}

\* The fixture is copied, without its held-out directory, and the copy's tree is
\* the base revision.
Begin ==
  /\ at = "begin"
  /\ workspace' = Copy(fixture)
  /\ rev' = [rev EXCEPT !.base = Copy(fixture)]
  /\ at' = "agent"
  /\ UNCHANGED <<task, fixture, report, diff, run, rows, next, db>>

\* The adapter returns.  The agent may have changed a file of the check; only some
\* adapters report the tree they left.
AdapterReturns(tree, ok, told) ==
  /\ at = "agent"
  /\ workspace' = tree
  /\ report' = [ok |-> ok, tree |-> IF told THEN tree ELSE None]
  /\ at' = "close"
  /\ UNCHANGED <<task, fixture, rev, diff, run, rows, next, db>>

\* A process of the adapter that outlived it writes once more, before finish.
LateWrite ==
  /\ at = "close"
  /\ \E c \in Contents : workspace' = [workspace EXCEPT !.subject = c]
  /\ UNCHANGED <<at, task, fixture, report, rev, diff, run, rows, next, db>>

\* The operator replaces a file of a check in the fixture, once.
EditFixture ==
  /\ at \notin Ended /\ fixture.oracle = 0 /\ fixture.held = 0
  /\ fixture' \in {[fixture EXCEPT !.oracle = 1], [fixture EXCEPT !.held = 1]}
  /\ UNCHANGED <<at, task, workspace, report, rev, diff, run, rows, next, db>>

-----------------------------------------------------------------------------
(* finish, up to the Evaluator *)

\* _fail_attempt: commits what the session holds, with the Task failed.
Fail(kept) ==
  /\ at' = "failed"
  /\ task' = [task EXCEPT !.status = "failed"]
  /\ stored' = kept /\ pending' = {}
  /\ UNCHANGED <<fixture, workspace, report, diff, run, rows, next, flushed, lost, key>>

CanClose == Copy(fixture) = rev.base /\ report.tree \in {None, workspace}

Refuse ==
  /\ at = "close" /\ ~CanClose
  /\ Fail({})
  /\ UNCHANGED rev

Close ==
  /\ at = "close" /\ CanClose
  /\ rev' = [rev EXCEPT !.result = workspace]
  /\ at' = "capture"
  /\ UNCHANGED <<task, fixture, workspace, report, diff, run, rows, next, db>>

\* A check that ran has the digest of its oracle.
Evidence(class, crit, status, hidden, after, sound, judged) ==
  [class |-> class, crit |-> crit, status |-> status, hidden |-> hidden, after |-> after, stale |-> FALSE,
   sound |-> sound, judged |-> judged, subject |-> diff, bound |-> rev.result, artifact |-> None,
   oracle |-> IF judged = None THEN None ELSE Check,
   verifier |-> IF class = "verification" THEN "sdf-evaluator" ELSE None,
   mode |-> None, zone |-> "utc", mac |-> None]

\* The session guards and the insert triggers: a class, and the Attempt's own result tree.
Bound(r) == r.class \in {"execution", "verification"} /\ rev.result # None /\ r.bound = rev.result

\* The diff and the log are captured and flushed, the execution row is stamped against the log,
\* the Attempt is settled; an adapter that failed ends the Task here.
Capture ==
  /\ at = "capture"
  /\ diff' = workspace
  /\ LET e == Evidence("execution", None, IF report.ok THEN "PASS" ELSE "FAIL", FALSE, None, FALSE, None)
         r == Stamp([e EXCEPT !.artifact = 0, !.subject = workspace], {0})
     IN Bound(r) /\
        IF report.ok
        THEN at' = "check" /\ pending' = {r} /\ UNCHANGED <<task, stored>>
        ELSE at' = "failed" /\ stored' = {r} /\ task' = [task EXCEPT !.status = "failed"] /\ UNCHANGED pending
  /\ flushed' = {0}
  /\ UNCHANGED <<fixture, workspace, report, rev, run, rows, next, lost, key>>

\* A capture that cannot be written, or an Evaluator that raises.
Raise ==
  /\ at \in {"capture", "check", "record"}
  /\ Fail(pending)
  /\ UNCHANGED rev

-----------------------------------------------------------------------------
(* One check *)

Row(status, sound, judged) == Evidence("verification", Entry.crit, status, Hidden(Entry), None, sound, judged)
\* The row goes to after_check when something ran or should have run.
Conclude(r) ==
  /\ rows' = Append(rows, r)
  /\ at' = "observe"
  /\ sealed' = None /\ child' = None
  /\ UNCHANGED <<task, fixture, workspace, report, rev, diff, next, db>>
Stop == Conclude(Row("INCONCLUSIVE", FALSE, None))

\* A criterion nobody checks, or a check of no criterion of the Task.
Uncovered ==
  /\ at = "check" /\ next <= Len(Agenda(task.decl)) /\ Check = None
  /\ rows' = Append(rows, Row("INCONCLUSIVE", FALSE, None))
  /\ next' = next + 1
  /\ UNCHANGED <<at, task, fixture, workspace, report, rev, diff, run, db>>

Enter == at = "check" /\ next <= Len(Agenda(task.decl)) /\ Check # None
Relative == Check \notin Absolute
\* The files of a check must be the fixture's; a held-out one is only there.
Trusted == Relative /\ Check \notin Held /\ Kind[Check] # "lint" => workspace.oracle = fixture.oracle

\* No backend although one is required, no executable outside the workspace, a form
\* that cannot be hardened, a sandbox that does not start, a bare pytest in a backend.
CannotRun ==
  /\ Enter
  /\ Stop

VerifyTargets ==
  /\ Enter /\ Backend # "required"
  /\ IF Trusted
     THEN at' = "seal" /\ UNCHANGED <<task, fixture, workspace, report, rev, diff, run, rows, next, db>>
     ELSE Stop

\* What the fixture has for the check now.
OracleOf(c) == IF c \in Held THEN fixture.held ELSE fixture.oracle

\* materialize compares once more and then copies what the fixture holds now.
Seal ==
  /\ at = "seal"
  /\ IF Trusted
     THEN /\ at' = "place"
          /\ UNCHANGED <<task, fixture, workspace, report, rev, diff, run, rows, next, db>>
     ELSE Stop

Place ==
  /\ at = "place"
  /\ sealed' = IF Relative THEN [oracle |-> OracleOf(Check), subject |-> workspace.subject] ELSE workspace
  /\ at' = "run"
  /\ UNCHANGED <<task, fixture, workspace, report, rev, diff, child, rows, next, db>>

\* The oracle child runs.  In the workspace it may leave another tree behind.
Run(s, said, exit) ==
  /\ at = "run"
  /\ child' = [suite |-> s, said |-> said, exit |-> exit]
  /\ \E c \in Contents : /\ Relative => c = workspace.subject
                         /\ workspace' = [workspace EXCEPT !.subject = c]
  /\ at' = "notary"
  /\ UNCHANGED <<task, fixture, report, rev, diff, sealed, rows, next, db>>

\* The process group is killed: before the child has ended, or after that and
\* before the notary has passed the frame on.
TimeOut ==
  /\ at = "notary"
  /\ Conclude(Row("INCONCLUSIVE", FALSE, sealed))

\* SealedOracle.changed: the copy is compared with the fixture of this moment.
Changed == Relative /\ Kind[Check] # "lint" /\ sealed.oracle # OracleOf(Check)

\* The child has ended: the notary writes the frame and ends as the child did, and
\* the Evaluator decides.  A remote backend keeps the frame.
Judge ==
  /\ at = "notary" /\ child.exit # Hung
  /\ LET frame == IF Backend = "host" THEN child.said ELSE None
         status == CASE Kind[Check] = "pytest" -> PytestVerdict(frame, child.exit, Declares[Check], Changed)
                     [] Kind[Check] = "script" /\ Backend = "host" -> ScriptVerdict(frame, child.exit, Changed)
                     [] OTHER -> ExitVerdict(child.exit, Changed)
     IN Conclude(Row(status, Sound(Check, child.suite), sealed))

\* after_check: the workspace's tree now; a PASS on another tree is not kept.
Drifted(r) == [r EXCEPT !.after = workspace,
                        !.status = IF workspace # rev.result /\ @ = "PASS" THEN "INCONCLUSIVE" ELSE @]
Observe ==
  /\ at = "observe"
  /\ rows' = [rows EXCEPT ![Len(rows)] = Drifted(@)]
  /\ next' = next + 1
  /\ at' = "check"
  /\ UNCHANGED <<task, fixture, workspace, report, rev, diff, run, db>>

-----------------------------------------------------------------------------
(* Acceptance and the rows *)

\* _enforce_acceptance, with the rows that expired meanwhile.
Gate(old) ==
  [i \in DOMAIN rows |->
     LET r == [rows[i] EXCEPT !.stale = i \in old]
     IN IF r.status = "PASS" /\ ~Acceptable(r) THEN [r EXCEPT !.status = "INCONCLUSIVE"] ELSE r]

HiddenPass(rs) == \E i \in DOMAIN rs : rs[i].status = "PASS" /\ rs[i].hidden /\ Acceptable(rs[i])
Outcome(rs) ==
  IF Overall(task.decl, rs) = "PASS" /\ RequiresHidden(task.decl) /\ ~HiddenPass(rs)
  THEN "INCONCLUSIVE" ELSE Overall(task.decl, rs)

Accept ==
  /\ at = "check" /\ next > Len(Agenda(task.decl))
  /\ \E old \in {{}, {1}} : rows' = Gate(old)
  /\ at' = "record" /\ next' = 1
  /\ UNCHANGED <<task, fixture, workspace, report, rev, diff, run, db>>

\* The evaluator's output is written and its row flushed.
WriteOutput ==
  /\ at = "record" /\ next <= Len(rows)
  /\ flushed' = flushed \cup {next}
  /\ at' = "stamp"
  /\ UNCHANGED <<task, fixture, workspace, report, rev, diff, run, rows, next, pending, stored, lost, key>>

\* The Evidence row is flushed, and stamped when it is inserted.
Record ==
  /\ at = "stamp" /\ Bound(rows[next])
  /\ pending' = pending \cup {Stamp([rows[next] EXCEPT !.artifact = next], flushed)}
  /\ next' = next + 1
  /\ at' = "record"
  /\ UNCHANGED <<task, fixture, workspace, report, rev, diff, run, rows, stored, flushed, lost, key>>

Commit ==
  /\ at = "record" /\ next > Len(rows)
  /\ stored' = pending /\ pending' = {}
  /\ task' = [task EXCEPT !.status = CASE Outcome(rows) = "PASS" -> "succeeded"
                                       [] Outcome(rows) = "FAIL" -> "failed"
                                       [] OTHER -> "inconclusive"]
  /\ at' = "done"
  /\ UNCHANGED <<fixture, workspace, report, rev, diff, run, rows, next, flushed, lost, key>>

\* The process dies: the transaction is rolled back; a sweep fails the Attempt later.
Die ==
  /\ at \notin Ended
  /\ at' = "dead" /\ pending' = {}
  /\ rev' = [rev EXCEPT !.result = None]
  /\ UNCHANGED <<task, fixture, workspace, report, diff, run, rows, next, stored, flushed, lost, key>>

-----------------------------------------------------------------------------
(* Afterwards *)

LoseFile(r) ==
  /\ at \in Ended /\ lost = {}
  /\ lost' = {r}
  /\ UNCHANGED <<at, task, fixture, workspace, report, rev, diff, run, rows, next, pending, stored, flushed, key>>

\* A restart with another key, or without one; the server does not start to write.
Rekey(k) ==
  /\ at \in Ended /\ k # key
  /\ key' = k
  /\ UNCHANGED <<at, task, fixture, workspace, report, rev, diff, run, rows, next, pending, stored, flushed, lost>>

Evaluator ==
  \/ Begin \/ Refuse \/ Close \/ Capture \/ Uncovered \/ VerifyTargets \/ Seal \/ Place
  \/ CannotRun \/ TimeOut \/ Judge \/ Observe \/ Accept \/ WriteOutput \/ Record \/ Commit
  \/ \E t \in Trees, ok, told \in BOOLEAN : AdapterReturns(t, ok, told)
  \/ at = "run" /\ \E s \in Suites(Check) : \E said \in Says(Check, s) :
       \E exit \in Exits(Check, s, said) : Run(s, said, exit)

Next ==
  \/ Evaluator \/ LateWrite \/ EditFixture \/ Raise \/ Die
  \/ \E r \in stored : LoseFile(r)
  \/ \E k \in {"k1", "k2", "missing"} : Rekey(k)

Spec == Init /\ [][Next]_vars

-----------------------------------------------------------------------------
(* Properties *)

Verdicts == {r \in stored : r.class = "verification"}

\* A stored PASS of a check that ran on this host was earned: one test passed, none failed
\* or was not reached, and no fewer were run or skipped than the files of the check declare
\* (Sound).  Early exits, signals, declared tests that were deselected and a process killed
\* after its frame are no PASS (PytestVerdict, ScriptVerdict, declared_test_count).
PassIsEarned ==
  Backend = "host" => \A r \in Verdicts : r.status = "PASS" => r.sound

\* Success is about the recorded revision: every check judged the code of the result
\* tree, left it as it was, and is bound to the diff of that tree, although checks may
\* change the workspace and a later one may restore it (after_check, ADR 0032).
PassDescribesTheRevision ==
  task.status = "succeeded" => \A r \in Verdicts :
    /\ r.judged.subject = rev.result.subject /\ r.after = rev.result
    /\ r.bound = rev.result /\ r.subject = rev.result

\* A succeeded Task names a criterion, every criterion has checks, there is one stored
\* PASS for every run of a check of the criterion (as many as checks are mapped to it,
\* each time it is listed), nothing contradicts it, and a Task that declares a
\* hidden oracle has a PASS of one (evaluate, _enforce_acceptance, ADR 0040).
Listed(t, c) == Cardinality({i \in DOMAIN t.criteria : t.criteria[i] = c})
SuccessIsCovered ==
  task.status = "succeeded" =>
    /\ task.decl.criteria # <<>>
    /\ \A c \in Range(task.decl.criteria) :
         /\ c \in DOMAIN task.decl.mapped /\ task.decl.mapped[c] # <<>>
         /\ Cardinality({r \in Verdicts : r.crit = c /\ r.status = "PASS"})
              = Listed(task.decl, c) * Len(task.decl.mapped[c])
    /\ \A r \in Verdicts : r.status = "PASS" /\ Acceptable(r)
    /\ RequiresHidden(task.decl) => \E r \in Verdicts : r.hidden

\* verify_attempt_revision says verified exactly when the rows are those that were
\* written: under the key that stamped them, with every artifact file in place and a
\* result tree; no row of this server is reported as false because of a default, a
\* time zone or the order of two flushes (evidence_mac, _stamp_evidence_content_mac).
\* And a verdict that made a Task succeed reads as a verified PASS under that key only.
VerifyTellsTheTruth ==
  at \in Ended /\ stored # {} =>
    /\ Verify = "verified" <=> /\ lost = {} /\ Configured /\ rev.result # None
                               /\ \A r \in stored : r.mac.key = key
    /\ task.status = "succeeded" =>
         \A r \in Verdicts : VerifiedPass(r) <=> Configured /\ r.mac.key = key
=============================================================================
