---------------------------- MODULE MCMessageBus -----------------------------
(* An instance of MessageBus: a broadcast and two directed messages, and       *)
(* subscribers that come, are replaced and leave.                              *)
EXTENDS MessageBus

CONSTANTS i1, p1

OneBroadcast == [p \in Pubs |-> IF p = p1 THEN All ELSE i1]
=============================================================================
