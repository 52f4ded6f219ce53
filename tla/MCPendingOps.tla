---------------------------- MODULE MCPendingOps ----------------------------
(* PendingOps with the two importance levels as labels: each is the other's *)
(* opposite, and the thread starts with the lower one.                      *)
EXTENDS PendingOps

CONSTANTS High, Low

MCOpposite == [l \in Labels |-> IF l = High THEN Low ELSE High]
MCStarts == {{Low}}
=============================================================================
