---------------------------- MODULE MCEvaluation ----------------------------
(* Four checks and the ways a Task can declare them. *)
EXTENDS Evaluation
CONSTANTS unit, script, hidden, lint, c1, c2

MCKind == [c \in Checks |-> IF c = script THEN "script" ELSE IF c = lint THEN "lint" ELSE "pytest"]
NoChecks == [c \in {} |-> <<>>]
\* The files of the held-out check declare one test and have up to two.
MCDeclares == [c \in Checks |-> IF c = unit THEN 2 ELSE IF c = hidden THEN 1 ELSE 0]
Task(criteria, mapped, commands) ==
  [criteria |-> criteria, mapped |-> mapped, given |-> commands = <<>> \/ DOMAIN mapped # {},
   commands |-> commands, agent |-> "coder"]
MCTasks ==
  { Task(<<c1>>, [c \in {c1} |-> <<unit>>], <<>>),
    Task(<<c1>>, [c \in {c1} |-> <<script, hidden>>], <<>>),
    Task(<<c1, c2>>, [c \in {c1} |-> <<script>>], <<>>),
    Task(<<c1, c1>>, [c \in {c1} |-> <<unit>>], <<>>),
    Task(<<c1>>, [c \in {c1, c2} |-> <<script>>], <<>>),
    Task(<<c1>>, [c \in {c1} |-> <<script, script>>], <<lint>>),
    [Task(<<c1>>, [c \in {c1} |-> <<script>>], <<>>) EXCEPT !.agent = "sdf-evaluator"],
    Task(<<c1>>, NoChecks, <<lint>>),
    Task(<<>>, NoChecks, <<>>) }
=============================================================================
