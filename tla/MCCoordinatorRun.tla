--------------------------- MODULE MCCoordinatorRun ---------------------------
(* Small instances of CoordinatorRun for TLC. *)
EXTENDS CoordinatorRun, TLC
CONSTANT w1

\* The lead reports or asks a material question; one worker reports, talks or
\* asks a question that a policy may answer.
FewWords == [a \in Agents |-> IF a = Lead THEN {"done", "material"}
                              ELSE IF a = w1 THEN {"done", "talk", "plain"} ELSE {"done"}]
=============================================================================
