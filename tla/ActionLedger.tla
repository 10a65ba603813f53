---------------------------- MODULE ActionLedger -----------------------------
(***************************************************************************)
(* What the idempotency fence of the Go Tool Proxy promises of one action  *)
(* identity: it is taken once, the executor runs at most once for whoever  *)
(* took it, and its outcome is settled once.  Only a store that dies with  *)
(* its process ever forgets, and then it forgets everything.               *)
(***************************************************************************)
CONSTANT Actions

VARIABLES kind,   \* "sqlite" or "memory"
          state,  \* "open", "taken", "executed" or "failed"
          runs    \* how often the executor of an action was started

vars == <<kind, state, runs>>

\* A store file of an earlier release may hold actions already taken or settled.
Init == /\ kind \in {"sqlite", "memory"}
        /\ state \in [Actions -> {"open", "taken", "executed", "failed"}]
        /\ runs = [x \in Actions |-> 0]

Take(x) ==
  /\ state[x] = "open"
  /\ state' = [state EXCEPT ![x] = "taken"]
  /\ UNCHANGED <<kind, runs>>

Run(x) ==
  /\ state[x] = "taken" /\ runs[x] = 0
  /\ runs' = [runs EXCEPT ![x] = 1]
  /\ UNCHANGED <<kind, state>>

Settle(x) ==
  /\ state[x] = "taken" /\ runs[x] = 1
  /\ \E s \in {"executed", "failed"} : state' = [state EXCEPT ![x] = s]
  /\ UNCHANGED <<kind, runs>>

Lose ==
  /\ kind = "memory"
  /\ state' = [x \in Actions |-> "open"]
  /\ runs' = [x \in Actions |-> 0]
  /\ UNCHANGED kind

Next == (\E x \in Actions : Take(x) \/ Run(x) \/ Settle(x)) \/ Lose

Spec == Init /\ [][Next]_vars
=============================================================================
