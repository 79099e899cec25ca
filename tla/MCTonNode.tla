------------------------------- MODULE MCTonNode -------------------------------
(***************************************************************************)
(* An instance of TonNode for TLC: one account, the last of the last       *)
(* shard, in worlds that each add one thing to the node's rounds.          *)
(***************************************************************************)
EXTENDS TonNode

CONSTANTS x, y, w1, w2, o1

TargetOf == [u \in Waiters \cup Observers |-> CHOOSE a \in Accounts : TRUE]

Calm == [bodies |-> {x, "none"}, splits |-> 0, txs |-> 1, crashes |-> 0,
         failures |-> 0, tasks |-> {}]
Index1 == [Calm EXCEPT !.splits = 1, !.crashes = 1]
Index2 == [Calm EXCEPT !.txs = 2, !.bodies = {x, y, "none"}, !.crashes = 1]
Wait1 == [Calm EXCEPT !.splits = 1, !.tasks = {w1}]
Wait2 == [Calm EXCEPT !.tasks = {w1, w2}]
Wait3 == [Calm EXCEPT !.bodies = {x, "uninit", "frozen"}, !.tasks = {w1}, !.failures = 1]
Watch == [Calm EXCEPT !.splits = 1, !.tasks = {o1}]
Both == [Calm EXCEPT !.tasks = {w1, o1}]
AllWorlds == {Index1, Index2, Wait1, Wait2, Wait3, Watch, Both}
=================================================================================
