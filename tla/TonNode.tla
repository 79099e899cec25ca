-------------------------------- MODULE TonNode --------------------------------
(***************************************************************************)
(* The relay's TON side as one process: the embedded node (external) hands *)
(* full states and blocks to the subscriber, whose process_block runs      *)
(* through the subscriptions, the persistent index and the cache, shard    *)
(* by shard; beside it the engine starts (engine/mod.rs), up to the scan   *)
(* of all events (bridge/mod.rs get_all_events).                           *)
(*                                                                         *)
(* The chain goes round by round: a round is the blocks between two        *)
(* masterchain edges, one of every shard.  `ver` counts an account's       *)
(* transactions.                                                           *)
(***************************************************************************)
EXTENDS TonSubscriber, FiniteSets

CONSTANTS
  NoGap,        \* environment: Synced does not fall between the two halves of wait_sync
  Worlds        \* bounds of the behaviours to consider: see World

\* What a behaviour may hold: bodies that accounts take on, how many splits and
\* merges, transactions, crashes and accounts that fail to load there are, and
\* the tasks and observers that run.
World ==
  [bodies : SUBSET Bodies, splits : Nat, txs : Nat, crashes : Nat, failures : Nat,
   tasks : SUBSET (Waiters \cup Observers)]

ASSUME TonNodeAssumption == NoGap \in BOOLEAN /\ Worlds \subseteq World

VARIABLES
  (* the chain *)
  shards, was,  \* shards of this round, and of the one before
  path,         \* path[a]: body of a before this round's block and after each transaction
  ver,          \* ver[a]: transactions of a up to this round
  (* the node *)
  node,         \* "down", "states" (full states are handed over), "blocks"
  todo,         \* shards whose full state is yet to be handed over
  stored,       \* on disk: the full states have been processed
  stage,        \* stage[s]: how far process_block is with the block of s
  mc,           \* the masterchain block of this round has been processed
  (* the start of the engine *)
  pc,           \* see Start
  toScan,       \* accounts of the snapshot that iterate_events has yet to read
  (* bounds *)
  world, splits, crashes, failures

chainVars == <<shards, was, path, ver, world, splits>>
nodeVars == <<node, todo, stored, stage, mc>>
startVars == <<pc, toScan>>
vars == <<storageVars, subscriberVars, chainVars, nodeVars, startVars, crashes, failures>>

Stages == {"new", "handled", "persisted", "done"}

\* wait_sync before and between its test and its Notified; parked in it; before
\* wait_shards; awaiting the first block, then the one of
\* get_all_shard_accounts; in iterate_events; started; not.
Start == {"start", "tested", "parked", "synced", "first", "second", "scan", "done", "failed"}

Before(a) == [body |-> path[a][1], ver |-> ver[a] - (Len(path[a]) - 1)]
After(a) == [body |-> path[a][Len(path[a])], ver |-> ver[a]]
ShardOf(a) == CHOOSE s \in shards : Contains(s, a)

\* The state of a after the last block of its shard that was handled.
Handled(a) == IF stage[ShardOf(a)] = "new" THEN Before(a) ELSE After(a)

\* Shards of this round's block of s in the round before.
Prev(s) ==
  IF s \in was THEN {s}
  ELSE {p \in was : s \in Split(p)} \cup {p \in was : p \in Split(s)}

-----------------------------------------------------------------------------
(* The chain: what the next round may hold (external).                       *)

CanSplit(s) == Lower(s) > 1
NextShards ==
  {shards}
  \cup (IF splits = world.splits THEN {}
        ELSE {(shards \ {s}) \cup Split(s) : s \in {t \in shards : CanSplit(t)}}
             \cup {(shards \ Split(s)) \cup {s} :
                     s \in {t \in Idents : CanSplit(t) /\ Split(t) \subseteq shards}})

Txs ==
  LET B == world.bodies IN {<<>>} \cup {<<b>> : b \in B} \cup {<<b, c>> : b, c \in B}
Total(f) == LET sum[A \in SUBSET Accounts] ==
                  IF A = {} THEN 0
                  ELSE LET a == CHOOSE x \in A : TRUE IN f[a] + sum[A \ {a}]
            IN  sum[Accounts]

Init ==
  /\ world \in Worlds
  /\ StorageInit /\ SubscriberInit
  /\ shards \in {{Full}, Split(Full)} /\ was = shards
  /\ \E body \in [Accounts -> world.bodies] : path = [a \in Accounts |-> <<body[a]>>]
  /\ ver = [a \in Accounts |-> 0]
  /\ node = "down" /\ todo = {} /\ stored = FALSE
  /\ stage = [s \in shards |-> "new"] /\ mc = FALSE
  /\ pc = "start" /\ toScan = {}
  /\ splits = 0 /\ crashes = 0 /\ failures = 0

\* The node has processed every block of the round (process_blocks_edge), and
\* goes on to the next one.
Edge ==
  /\ node = "blocks" /\ mc /\ \A s \in shards : stage[s] = "done"
  /\ UpdateSnapshot
  /\ \E new \in NextShards, txs \in [Accounts -> Txs] :
       /\ shards' = new
       /\ splits' = IF new = shards THEN splits ELSE splits + 1
       /\ path' = [a \in Accounts |-> <<After(a).body>> \o txs[a]]
       /\ ver' = [a \in Accounts |-> ver[a] + Len(txs[a])]
       /\ Total(ver') <= world.txs
       /\ stage' = [s \in new |-> "new"]
  /\ was' = shards /\ mc' = FALSE
  /\ awaiter' = IF awaiter = "later" THEN "any" ELSE awaiter
  /\ UNCHANGED <<ready, subs, waiter, mode, alive, heard, world, node, todo, stored,
                 startVars, crashes, failures>>

-----------------------------------------------------------------------------
(* The node                                                                  *)

Boot ==
  /\ node = "down"
  /\ node' = IF stored THEN "blocks" ELSE "states"
  /\ todo' = IF stored THEN {} ELSE shards
  /\ pc' = "start"
  /\ UNCHANGED <<storageVars, subscriberVars, chainVars, stored, stage, mc, toScan,
                 crashes, failures>>

\* process_full_state: one shard's reset, begun and in the end done.
FullState(s) ==
  /\ node = "states" /\ s \in todo
  /\ BeginReset(s)
  /\ UNCHANGED <<subscriberVars, chainVars, nodeVars, startVars, crashes, failures>>

Delete ==
  /\ DeleteKey
  /\ UNCHANGED <<subscriberVars, chainVars, nodeVars, startVars, crashes, failures>>

FullStateDone ==
  /\ WriteState([a \in Accounts |-> Before(a).body])
  /\ todo' = todo \ {reset.shard}
  /\ node' = IF todo' = {} THEN "blocks" ELSE node
  /\ stored' = (todo' = {})
  /\ UNCHANGED <<subscriberVars, chainVars, stage, mc, startVars, crashes, failures>>

Advance(s, from, to) ==
  /\ node = "blocks" /\ s \in shards /\ stage[s] = from
  /\ stage' = [stage EXCEPT ![s] = to]
  /\ UNCHANGED <<chainVars, node, todo, stored, mc, startVars, crashes>>

\* process_block of a shard's block: handle_shard_block, the index, the cache.
HandleBlock(s, broken) ==
  /\ Advance(s, "new", "handled")
  /\ IF ready
     THEN HandleShardBlock(s, [a \in Accounts |-> After(a)],
                           [a \in Accounts |-> Len(path[a]) - 1], broken)
     ELSE UNCHANGED subscriberVars
  /\ failures + Cardinality(broken) <= world.failures
  /\ failures' = failures + Cardinality(broken)
  /\ UNCHANGED storageVars

PersistBlock(s) ==
  /\ Advance(s, "handled", "persisted")
  /\ UpdateIndex(s, path)
  /\ UNCHANGED <<subscriberVars, failures>>

CacheBlock(s) ==
  /\ Advance(s, "persisted", "done")
  /\ UpdateCache(s, Prev(s), [a \in Accounts |-> After(a)])
  /\ UNCHANGED <<subscriberVars, failures>>

MasterchainBlock ==
  /\ node = "blocks" /\ ~mc
  /\ mc' = TRUE
  /\ HandleMasterchainBlock
  /\ UNCHANGED <<storageVars, chainVars, node, todo, stored, stage, startVars,
                 crashes, failures>>

\* engine_status_changed(Synced): the flag, and whoever waits on the signal.
Synced ==
  /\ node = "blocks" /\ ~ready
  /\ NoGap => pc # "tested"
  /\ ready' = TRUE
  /\ pc' = IF pc = "parked" THEN "synced" ELSE pc
  /\ UNCHANGED <<storageVars, awaiter, subs, waiter, mode, alive, heard, chainVars,
                 nodeVars, toScan, crashes, failures>>

\* The process ends, by a crash or because its start failed; when it is started
\* again, the node processes the blocks of the round again.
Exit ==
  /\ node # "down"
  /\ StorageCrash /\ SubscriberCrash
  /\ node' = "down" /\ todo' = {}
  /\ stage' = [s \in shards |-> "new"] /\ mc' = FALSE
  /\ toScan' = {}
  /\ UNCHANGED <<chainVars, stored, failures>>

Crash ==
  /\ crashes < world.crashes
  /\ crashes' = crashes + 1
  /\ Exit /\ pc' = "start"

-----------------------------------------------------------------------------
(* The start of the engine                                                   *)

StartStep(from) ==
  /\ node # "down" /\ pc = from
  /\ UNCHANGED <<storageVars, chainVars, nodeVars, crashes, failures>>

\* wait_sync: the flag is tested (mutant: it is not), then the Notified is
\* created and awaited.
AfterTest_Waits == "tested"
AfterTest == IF ready THEN "synced" ELSE "tested"
TestReady ==
  /\ StartStep("start")
  /\ pc' = AfterTest
  /\ UNCHANGED <<subscriberVars, toScan>>

Park ==
  /\ StartStep("tested")
  /\ pc' = "parked"
  /\ UNCHANGED <<subscriberVars, toScan>>

\* wait_shards: the awaiter for a block not older than now, and, from
\* get_all_shard_accounts, one for any.
Await(from, to, kinds) ==
  /\ StartStep(from) /\ awaiter = "none"
  /\ awaiter' \in kinds
  /\ pc' = to
  /\ UNCHANGED <<ready, subs, waiter, mode, alive, heard, toScan>>

WaitNow == Await("synced", "first", {"later", "any"})
ReadConfigurations == Await("first", "second", {"any"})

\* get_all_events takes the snapshot.
LoadSnapshot ==
  /\ StartStep("second") /\ awaiter = "none" /\ snapshot # {}
  /\ toScan' = {p[2] : p \in UNION snapshot}
  /\ pc' = IF toScan' = {} THEN "done" ELSE "scan"
  /\ UNCHANGED subscriberVars

\* iterate_events: an account of the snapshot that exists in the cache.
Exists(state) == state.body # "none"
ScanAccount(a) ==
  /\ StartStep("scan") /\ a \in toScan
  /\ \E state \in Readable(a) : Exists(state)
  /\ toScan' = toScan \ {a}
  /\ pc' = IF toScan' = {} THEN "done" ELSE "scan"
  /\ UNCHANGED subscriberVars

\* There is no snapshot, or the cache has no such account: the start fails.
StartFails ==
  /\ \/ pc = "second" /\ awaiter = "none" /\ snapshot = {}
     \/ /\ pc = "scan"
        /\ \E a \in toScan :
             Readable(a) = {} \/ \E state \in Readable(a) : ~Exists(state)
  /\ Exit /\ pc' = "failed"
  /\ UNCHANGED crashes

-----------------------------------------------------------------------------
(* Tasks of the relay, once the subscriber has started                       *)

Up == pc \in {"second", "scan", "done"} \/ (pc = "first" /\ awaiter = "none")
TaskStep == Up /\ UNCHANGED <<storageVars, chainVars, nodeVars, startVars, crashes, failures>>

Ask(w, m) == w \in world.tasks /\ TaskStep /\ AskState(w, m)
Take(w) == TaskStep /\ TakeState(w)
StartObserving(o) == o \in world.tasks /\ TaskStep /\ Observe(o, Handled(Target[o]).ver)
StopObserving(o) == TaskStep /\ DropObserver(o)

Next ==
  \/ Boot \/ Delete \/ FullStateDone \/ MasterchainBlock \/ Edge \/ Synced \/ Crash
  \/ \E s \in Idents :
       \/ FullState(s) \/ PersistBlock(s) \/ CacheBlock(s)
       \/ \E broken \in SUBSET Within(s) : HandleBlock(s, broken)
  \/ TestReady \/ Park \/ WaitNow \/ ReadConfigurations \/ LoadSnapshot \/ StartFails
  \/ \E a \in Accounts : ScanAccount(a)
  \/ \E w \in Waiters : Take(w) \/ \E m \in Modes : Ask(w, m)
  \/ \E o \in Observers : StartObserving(o) \/ StopObserving(o)

Spec == Init /\ [][Next]_vars

\* The node goes on processing blocks, of every shard, and syncs in the end;
\* the runtime polls the startup task and the waiters.
Fairness ==
  /\ WF_vars(Boot) /\ WF_vars(Delete) /\ WF_vars(FullStateDone)
  /\ WF_vars(MasterchainBlock) /\ WF_vars(Edge) /\ WF_vars(Synced)
  /\ \A s \in Idents :
       /\ WF_vars(FullState(s)) /\ WF_vars(PersistBlock(s)) /\ WF_vars(CacheBlock(s))
       /\ WF_vars(HandleBlock(s, {}))
  /\ WF_vars(TestReady) /\ WF_vars(Park) /\ WF_vars(WaitNow)
  /\ WF_vars(ReadConfigurations) /\ WF_vars(LoadSnapshot) /\ WF_vars(StartFails)
  /\ \A a \in Accounts : WF_vars(ScanAccount(a))
  /\ \A w \in Waiters : WF_vars(Take(w))

FairSpec == Spec /\ Fairness

-----------------------------------------------------------------------------
(* Properties                                                                *)

TypeOK ==
  /\ StorageTypeOK /\ SubscriberTypeOK
  /\ shards \subseteq Idents /\ was \subseteq Idents /\ todo \subseteq Idents
  /\ path \in [Accounts -> Seq(Bodies)] /\ ver \in [Accounts -> Nat]
  /\ node \in {"down", "states", "blocks"} /\ stored \in BOOLEAN
  /\ stage \in [shards -> Stages] /\ mc \in BOOLEAN
  /\ pc \in Start /\ toScan \subseteq Accounts
  /\ world \in Worlds /\ {splits, crashes, failures} \subseteq Nat

\* The secondary index is what an update finds the entry to replace by: it
\* never names an entry that the primary index lacks, and between blocks both
\* hold the code of every account, as the blocks processed so far leave it -
\* whatever an earlier run left behind, a crash in the middle of a reset, of a
\* split or of a round, or blocks processed a second time.
IndexIsTrue ==
  /\ secondary \subseteq primary
  /\ node = "blocks" =>
       /\ secondary = primary
       /\ \A a \in Accounts :
            LET held == {p \in primary : p[2] = a}
            IN  \/ held = Entry(a, After(a).body)
                \/ /\ stage[ShardOf(a)] \in {"new", "handled"}
                   /\ held = Entry(a, Before(a).body)

\* Once the startup scan reads accounts, the cache holds each of them, and
\* under no shard, be it the parent of a split whose children are not both
\* there yet, in a state older than the snapshot it was found in.
ScanIsFresh ==
  pc = "scan" =>
    \A a \in Accounts :
      Readable(a) # {} /\ Readable(a) \subseteq {Before(a), After(a)}

\* The start never fails but for an account that was destroyed after the
\* snapshot it is in was taken.
FailsOnlyOnRemoval ==
  [][pc # "failed" /\ pc' = "failed" =>
       /\ pc = "scan"
       /\ \E a \in toScan : "none" \in {Before(a).body, After(a).body}]_vars

\* A state that a task is given, or is about to be given, is that of the last
\* block of the account's shard, though the channel may have been filled for
\* another task, or before the last of its shard's blocks.
StatesAreCurrent ==
  failures = 0 =>
    \A w \in Waiters :
      waiter[w] = "unseen" => subs[Target[w]].value = Handled(Target[w])

\* An observer that is alive is told of every transaction of its account since
\* it was subscribed, across splits, merges and the removal of subscriptions.
ObserverHearsAll == \A o \in alive : heard[o] = Handled(Target[o]).ver

\* The engine's start comes to an end.
EventuallyStarted == <>(pc \in {"done", "failed"})

\* A task that waits for the state of an active account gets it, at the latest
\* with the next block of its shard.
WaiterReturns ==
  \A w \in Waiters :
    waiter[w] # "idle" ~> (waiter[w] = "idle" \/ After(Target[w]).body \in {"none", "uninit"})
=================================================================================
