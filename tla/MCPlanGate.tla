------------------------------ MODULE MCPlanGate ------------------------------
(* Small instances of PlanGate for TLC. *)
EXTENDS PlanGate, TLC
CONSTANTS c1, c2, c3, c4, c5, ann, Ann, bob, ops

\* ann has two tokens under two spellings of her name.
MCHolder == (ann :> "ann") @@ (Ann :> "Ann") @@ (bob :> "bob") @@ (ops :> "ci")
MCFold == [n \in {"ann", "Ann", "bob", "ci"} |-> IF n = "Ann" THEN "ann" ELSE n]
MCRoles == (ann :> {"operator"}) @@ (Ann :> {"approver"}) @@ (bob :> {"admin"}) @@ (ops :> {"operator"})
MCKind == (ann :> "human") @@ (Ann :> "human") @@ (bob :> "human") @@ (ops :> "service")
\* create_token gives no token to a reserved name.
MCReserved == {"host", "lead"}
MCUse == (c1 :> Ann) @@ (c2 :> bob) @@ (c3 :> ops) @@ (c4 :> bob) @@ (c5 :> Ann)
MCDoes == (c1 :> "approve") @@ (c2 :> "reject") @@ (c3 :> "run") @@ (c4 :> "answer") @@ (c5 :> "reject")
MCSubject == (c1 :> "plan") @@ (c2 :> "plan") @@ (c3 :> "plan") @@ (c4 :> "agent") @@ (c5 :> "agent")
=============================================================================
