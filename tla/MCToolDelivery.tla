---------------------------- MODULE MCToolDelivery ----------------------------
(* Three deliveries to one Attempt: an action of its owner, the redelivery of *)
(* it, and another action, sent by an admin.                                  *)
EXTENDS ToolDelivery

CONSTANTS d1, d2, d3, x1, x2, owner, admin

TwoActions == [d \in Deliveries |-> IF d = d3 THEN x2 ELSE x1]
TwoCallers == [d \in Deliveries |-> IF d = d3 THEN admin ELSE owner]
===============================================================================
