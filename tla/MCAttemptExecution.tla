------------------------- MODULE MCAttemptExecution -------------------------
(* Small instances of AttemptExecution for TLC. *)
EXTENDS AttemptExecution, TLC

\* Every assignment of processes, Tasks, keys and modes to the requests.
AllCalls == [Requests -> Arguments]

\* One process serves both requests, or they repeat one key.
SharedCalls == {c \in AllCalls : \A r, q \in Requests :
                  c[r].host = c[q].host \/ c[r].key = c[q].key}

\* Requests, processes and keys are interchangeable (safety runs only).
Symmetric == Permutations(Procs) \cup Permutations(Requests) \cup Permutations(Keys)
=============================================================================
