------------------------ MODULE MCPendingMessagesQueue ------------------------
(***************************************************************************)
(* Instances of PendingMessagesQueue for TLC: messages m1 and m2 belong to *)
(* accounts of shard s1, m3 to one of shard s2.                            *)
(***************************************************************************)
EXTENDS PendingMessagesQueue

CONSTANTS m1, m2, m3, s1, s2

ThreeShardOf == [m \in {m1, m2, m3} |-> IF m = m3 THEN s2 ELSE s1]
===============================================================================
