---------------------------- MODULE AttemptLedger ----------------------------
(***************************************************************************)
(* What the execution core promises of a dispatch key, with no processes,  *)
(* leases, sweeps or transactions: the key is claimed by one Attempt, the  *)
(* adapter is started at most once for it, and the Attempt is settled once *)
(* and for good, with a verdict only when it completed (ADR 0031, 0041).   *)
(***************************************************************************)
CONSTANTS Keys, Attempts

VARIABLES claim,    \* the Attempt that holds a key, as a set of at most one
          outcome,  \* "none", "running" or how the Attempt was settled
          evidence, \* the Evidence it left: none, of the execution, or a verdict
          started   \* the keys whose adapter was started

vars == <<claim, outcome, evidence, started>>

Verdicts == {"PASS", "FAIL", "INCONCLUSIVE"}

Init == /\ claim = [k \in Keys |-> {}]
        /\ outcome = [a \in Attempts |-> "none"]
        /\ evidence = [a \in Attempts |-> "none"]
        /\ started = {}

\* A free key is claimed by a new Attempt.
Dispatch(k, a) ==
  /\ claim[k] = {} /\ outcome[a] = "none"
  /\ claim' = [claim EXCEPT ![k] = {a}]
  /\ outcome' = [outcome EXCEPT ![a] = "running"]
  /\ UNCHANGED <<evidence, started>>

\* The adapter of a claimed key is started, once.
Execute(k) ==
  /\ claim[k] # {} /\ k \notin started
  /\ started' = started \cup {k}
  /\ UNCHANGED <<claim, outcome, evidence>>

\* The executor of a started Attempt settles it, with what it measured.
Complete(k, a) ==
  /\ a \in claim[k] /\ k \in started /\ outcome[a] = "running"
  /\ outcome' = [outcome EXCEPT ![a] = "completed"]
  /\ \E v \in Verdicts \cup {"exec"} : evidence' = [evidence EXCEPT ![a] = v]
  /\ UNCHANGED <<claim, started>>

\* The executor gives an Attempt up; an adapter that reported failure leaves
\* the Evidence of its execution.
GiveUp(a) ==
  /\ outcome[a] = "running"
  /\ \/ /\ outcome' \in {[outcome EXCEPT ![a] = "failed"], [outcome EXCEPT ![a] = "cancelled"]}
        /\ UNCHANGED evidence
     \/ /\ outcome' = [outcome EXCEPT ![a] = "failed"]
        /\ evidence' = [evidence EXCEPT ![a] = "exec"]
  /\ UNCHANGED <<claim, started>>

\* Recovery fails any number of running Attempts in one commit.
Recover(A) ==
  /\ \A a \in A : outcome[a] = "running"
  /\ outcome' = [a \in Attempts |-> IF a \in A THEN "failed" ELSE outcome[a]]
  /\ UNCHANGED <<claim, evidence, started>>

Next == \/ \E k \in Keys, a \in Attempts : Dispatch(k, a) \/ Complete(k, a)
        \/ \E k \in Keys : Execute(k)
        \/ \E a \in Attempts : GiveUp(a)
        \/ \E A \in SUBSET Attempts : Recover(A)

Spec == Init /\ [][Next]_vars
=============================================================================
