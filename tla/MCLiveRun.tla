----------------------------- MODULE MCLiveRun -----------------------------
(* Small instances of LiveRun for TLC. *)
EXTENDS LiveRun

CONSTANTS r1, r2

\* A run of each kind alone, and two headless runs that compete for the slot.
SolosAndPair ==
  [{r1} -> HerdrKinds \cup HeadlessKinds] \cup
  {f \in [{r1, r2} -> {"qwen", "pi"}] : f[r1] = "qwen" /\ f[r2] = "pi"}
=============================================================================
