---------------------------- MODULE MCOrchestrator ----------------------------
(* Instances of Orchestrator: a client that retries a key, and two keys that   *)
(* name one Attempt.                                                           *)
EXTENDS Orchestrator

CONSTANTS s1, s2, s3, k1, k2, a1, a2

\* s1 and s2 are tries of one key; s3 has a key of its own.
RetryKeys == [s \in Starts |-> IF s = s3 THEN k2 ELSE k1]
\* s3 names the Attempt of the other two.
SharedAttempt == [s \in Starts |-> a1]
===============================================================================
